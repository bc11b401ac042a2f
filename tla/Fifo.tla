--------------------------------- MODULE Fifo ---------------------------------
(***************************************************************************)
(* g64drive debug: CmdFifoRead and its loop.  A ROM sends packets, which   *)
(* the 64drive forwards as they come.  The program enters their stream     *)
(* anywhere, by its purge and by a version request that a part of the      *)
(* stream may be taken for, and finds the packets by their headers.  Every *)
(* read may be empty, short or an error, and its bytes are gone.           *)
(*                                                                         *)
(* The stream is counted in units of 2 bytes.  Of a packet, units 1 and 2  *)
(* are "DMA@", 3 and 4 its type and size, then come its data and "CMPH".   *)
(***************************************************************************)
EXTENDS Naturals, Sequences

CONSTANTS
  Packets, \* the packets that are sent, numbered
  Size,    \* Size[p]: units of its data
  Text,    \* those of type 1
  Streams  \* what may be there to read, once the program has opened the 64drive

\* What is no packet: the answer to a version request that comes late.
Noise == 0
Length(p) == Size[p] + 6
Units == [of : Packets \cup {Noise}, k : Nat]
Begins(u) == u.of # Noise /\ u.k = 1

\* After a unit of a packet come the others, as far as the stream goes.
Whole(s) ==
  \A i \in DOMAIN s : s[i].of # Noise =>
    \A j \in 1 .. Length(s[i].of) - s[i].k :
      i + j \in DOMAIN s => s[i + j] = [of |-> s[i].of, k |-> s[i].k + j]

InOrder(s) == \A i, j \in DOMAIN s : i < j /\ Begins(s[i]) /\ Begins(s[j]) => s[i].of < s[j].of

(***************************************************************************)
(* Packets are padded to be aligned (main.go:754); the driver cannot read  *)
(* empty data.  Data never looks like a header or its packet's end.        *)
(***************************************************************************)
ASSUME FifoAssumption ==
  /\ Packets \subseteq Nat \ {Noise} /\ Text \subseteq Packets
  /\ Size \in [Packets -> Nat \ {0}]
  /\ \A p \in Packets : Size[p] % 2 = 0
  /\ Streams \subseteq Seq(Units)
  /\ \A s \in Streams : Whole(s) /\ InOrder(s)

VARIABLES
  stream, pos, \* what is sent, and the units of it that were read
  pc,          \* "version", "loop", "head", "size", "data", "trailer" or "done"
  packet,      \* the packet that is read, by its type and size, or Noise
  data,        \* its data
  cancelled,   \* the context is cancelled: Ctrl+C
  printed,     \* the text that was printed, by packets
  \* history
  entry,       \* where the loop was entered
  cut,         \* a read returned a part of what was asked for
  hurt         \* packets that an empty or failed read, or Ctrl+C, hit

vars == <<stream, pos, pc, packet, data, cancelled, printed, entry, cut, hurt>>

Init ==
  /\ stream \in Streams /\ pos = 0 /\ pc = "version" /\ packet = Noise /\ data = <<>>
  /\ cancelled = FALSE /\ printed = <<>>
  /\ entry = 0 /\ cut = FALSE /\ hurt = {}

(***************************************************************************)
(* A version that is too old ends the program.  An error does not: the     *)
(* version request may have met the stream and taken some of it.           *)
(***************************************************************************)
Version ==
  /\ pc = "version"
  /\ \E n \in 0 .. 6 : pos + n <= Len(stream) /\ pos' = pos + n /\ entry' = pos + n
  /\ pc' \in {"loop", "done"}
  /\ UNCHANGED <<stream, packet, data, cancelled, printed, cut, hurt>>

Loop ==
  /\ pc = "loop"
  /\ pc' = IF cancelled THEN "done" ELSE "head"
  /\ UNCHANGED <<stream, pos, packet, data, cancelled, printed, entry, cut, hurt>>

------------------------------------------------------------------------------
(* Reads *)

\* Mutant: the header and the size are read at once.
WantedAtOnce == IF pc = "data" THEN Size[packet] ELSE IF pc = "head" THEN 4 ELSE 2

Wanted == IF pc = "data" THEN Size[packet] ELSE 2
Taken(n) == SubSeq(stream, pos + 1, pos + n)

\* n units are read, with an error or without one.
Read(n, ok) ==
  /\ n \in 0 .. Wanted /\ pos + n <= Len(stream)
  /\ pos' = pos + n
  /\ cut' = (cut \/ n \notin {0, Wanted})
  /\ hurt' = IF ok /\ n = Wanted /\ ~cancelled THEN hurt
             ELSE hurt \cup {packet} \cup {Taken(n)[i].of : i \in 1 .. n}
  /\ UNCHANGED <<stream, cancelled, entry>>

\* Mutant: what there is of a packet is printed.
AbandonPrinted ==
  /\ pc' = "loop" /\ packet' = Noise /\ data' = <<>>
  /\ printed' = IF packet \in Text THEN Append(printed, [of |-> packet, data |-> data]) ELSE printed

\* An error of CmdFifoRead: cmdDebug goes on with the next one.
Abandon == pc' = "loop" /\ packet' = Noise /\ data' = <<>> /\ UNCHANGED printed

IsHead(units) == Len(units) >= 2 /\ Begins(units[1])

\* Mutant: an empty read is repeated without a look at the context.
HeadReadAgain ==
  /\ pc = "head"
  /\ \E n \in 0 .. Wanted, ok \in BOOLEAN :
       /\ Read(n, ok)
       /\ IF n = 0 THEN UNCHANGED <<pc, packet, data, printed>>
          ELSE IF ok /\ ~cancelled /\ IsHead(Taken(n))
            THEN pc' = "size" /\ packet' = Taken(n)[1].of /\ UNCHANGED <<data, printed>>
          ELSE Abandon

\* Whatever is no header is skipped; so is one that a short read cuts.
HeadRead ==
  /\ pc = "head"
  /\ \E n \in 0 .. Wanted, ok \in BOOLEAN :
       /\ Read(n, ok)
       /\ IF ok /\ ~cancelled /\ IsHead(Taken(n))
            THEN pc' = "size" /\ packet' = Taken(n)[1].of /\ UNCHANGED <<data, printed>>
          ELSE Abandon

SizeRead ==
  /\ pc = "size"
  /\ \E n \in 0 .. Wanted, ok \in BOOLEAN :
       /\ Read(n, ok)
       /\ IF ok /\ n = Wanted THEN pc' = "data" /\ UNCHANGED <<packet, data, printed>> ELSE Abandon

DataRead ==
  /\ pc = "data"
  /\ \E n \in 0 .. Wanted, ok \in BOOLEAN :
       /\ Read(n, ok)
       /\ IF ok /\ n = Wanted THEN pc' = "trailer" /\ data' = Taken(n) /\ UNCHANGED <<packet, printed>>
          ELSE Abandon

\* Mutant: every packet is taken for text.
PrintsAll(p) == TRUE

Prints(p) == p \in Text
IsTrailer(units) == units[2].of # Noise /\ units[2].k = Length(units[2].of)

\* Text is printed, other packets are not; after Ctrl+C neither.
TrailerRead ==
  /\ pc = "trailer"
  /\ \E n \in 0 .. Wanted, ok \in BOOLEAN :
       /\ Read(n, ok)
       /\ IF ok /\ n = Wanted /\ IsTrailer(Taken(n)) /\ ~cancelled /\ Prints(packet)
            THEN /\ pc' = "loop" /\ packet' = Noise /\ data' = <<>>
                 /\ printed' = Append(printed, [of |-> packet, data |-> data])
          ELSE Abandon

Interrupt ==
  /\ pc \notin {"version", "done"} /\ ~cancelled /\ cancelled' = TRUE
  /\ UNCHANGED <<stream, pos, pc, packet, data, printed, entry, cut, hurt>>

Host == Version \/ Loop \/ HeadRead \/ SizeRead \/ DataRead \/ TrailerRead
Next == Host \/ Interrupt
Spec == Init /\ [][Next]_vars

\* A read of the USB driver always returns.
FairSpec == Spec /\ WF_vars(Host)

------------------------------------------------------------------------------
(* What the debug stream promises *)

TypeOK ==
  /\ stream \in Streams /\ pos \in 0 .. Len(stream) /\ entry \in 0 .. pos
  /\ pc \in {"version", "loop", "head", "size", "data", "trailer", "done"}
  /\ packet \in Packets \cup {Noise} /\ data \in Seq(Units)
  /\ printed \in Seq([of : Text, data : Seq(Units)])
  /\ cancelled \in BOOLEAN /\ cut \in BOOLEAN /\ hurt \subseteq Packets \cup {Noise}

(***************************************************************************)
(* What is printed was sent: the whole data of a packet, each packet once  *)
(* and in the order of the stream, wherever it was entered and however     *)
(* many reads were empty, short or failed (CmdFifoRead's checks of the     *)
(* header, the lengths and the end).                                       *)
(***************************************************************************)
Genuine ==
  \A i \in DOMAIN printed :
    /\ printed[i].data = [j \in 1 .. Size[printed[i].of] |-> [of |-> printed[i].of, k |-> j + 4]]
    /\ \A h \in 1 .. i - 1 : printed[h].of < printed[i].of

(***************************************************************************)
(* The loop finds the packets again after it was entered in the middle of  *)
(* one, after an error, or after noise (main.go:744): those that begin     *)
(* whole words of 4 bytes after the entry and that no read failed in are   *)
(* printed.  After a read of half a word it may have lost them for ever.   *)
(***************************************************************************)
NothingMissed ==
  ~cut /\ pc \in {"loop", "head", "done"} =>
    \A i \in entry + 1 .. pos :
      /\ Begins(stream[i]) /\ (i - entry) % 2 = 1
      /\ stream[i].of \in Text \ hurt
      => \E m \in DOMAIN printed : printed[m].of = stream[i].of

(***************************************************************************)
(* Ctrl+C ends the program, whether the ROM sends anything or not: empty   *)
(* reads of the header are repeated only as long as the context lasts      *)
(* (drive64.go:396).                                                       *)
(***************************************************************************)
EndsOnInterrupt == cancelled ~> pc = "done"
==============================================================================
