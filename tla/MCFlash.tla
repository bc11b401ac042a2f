------------------------------- MODULE MCFlash -------------------------------
(***************************************************************************)
(* Instances of Flash for TLC: two sectors of two pages of two bytes, read *)
(* bursts that stop at every second page.  Bytes are numbers: 1 to 8 is    *)
(* what the cells hold at first, 11 and up is data that is written.        *)
(***************************************************************************)
EXTENDS Flash

MCErased == 255
MCGarbage == 256
MCByte == 0 .. 256

MCInitial == [q \in 0 .. 3 |-> [i \in 0 .. 1 |-> 2 * q + i + 1]]

ReadOf(o, n) == [op |-> "read", offset |-> o, size |-> n, data |-> <<>>]
WriteOf(o, n) == [op |-> "write", offset |-> o, size |-> n, data |-> [j \in 1 .. n |-> 10 + j]]

(***************************************************************************)
(* A read across the burst boundary; an unaligned write inside a sector, a *)
(* write of exactly one sector, one of the whole chip; an empty range that *)
(* begins inside a page; a range past the end.                             *)
(***************************************************************************)
MCRequests ==
  {ReadOf(1, 6), WriteOf(5, 2), WriteOf(0, 4), WriteOf(0, 8), ReadOf(1, 0), WriteOf(7, 2)}

\* Writes that begin in another page of the sector than the first one.
MCInnerRequests == {WriteOf(2, 2), WriteOf(3, 3)}
==============================================================================
