----------------------------- MODULE FlashStore ------------------------------
(***************************************************************************)
(* What the FlashRAM driver promises of the cells, whatever happens to the *)
(* process, to the link and to the chip: a page changes only in limbo,     *)
(* that is between the moment a write begins to erase the sector it is in  *)
(* and the moment a write of that sector is reported as done.  A crash or  *)
(* an error leaves the pages a write had reached in limbo, and no others.  *)
(***************************************************************************)
CONSTANTS Pages, Contents, Sectors

VARIABLES cells, limbo

Init == cells \in [Pages -> Contents] /\ limbo = {}

\* A write begins to erase a sector, or the whole chip.
Erase ==
  /\ \E pages \in Sectors \cup {Pages} : limbo' = limbo \cup pages
  /\ UNCHANGED cells

\* Pages in limbo take any contents.
Change ==
  /\ cells' \in [Pages -> Contents]
  /\ \A q \in Pages \ limbo : cells'[q] = cells[q]
  /\ UNCHANGED limbo

\* A write of some sectors is done: their contents are settled.
Settle ==
  /\ limbo' \subseteq limbo
  /\ UNCHANGED cells

Next == Erase \/ Change \/ Settle

Spec == Init /\ [][Next]_<<cells, limbo>>
==============================================================================
