------------------------------ MODULE FifoProofs ------------------------------
(***************************************************************************)
(* What is printed was sent, and what was sent is printed, for any stream  *)
(* of packets of any sizes and any reads of it; and Ctrl+C ends it.        *)
(***************************************************************************)
EXTENDS Fifo, SequenceTheorems, TLAPS

\* How much of the packet was read when the next part of it is.
Progress == [size |-> 2, data |-> 4, trailer |-> Size[packet] + 4]

\* Where the program stands in the stream.
Placed ==
  /\ pc \notin {"size", "data", "trailer"} => packet = Noise
  /\ pc \in {"size", "data", "trailer"}
       => packet \in Packets /\ pos \in DOMAIN stream /\ stream[pos].of = packet
  /\ pc = "size" => stream[pos].k = 2
  /\ pc = "data" => stream[pos].k = 4
  /\ pc = "trailer" => stream[pos].k = Size[packet] + 4
  /\ pc = "trailer" => data = [j \in 1 .. Size[packet] |-> [of |-> packet, k |-> j + 4]]

\* Packets begin behind those that were printed or are read.
Ordered ==
  \A i \in pos + 1 .. Len(stream) : Begins(stream[i]) =>
    /\ \A m \in DOMAIN printed : printed[m].of < stream[i].of
    /\ packet < stream[i].of

Fresh == packet # Noise => \A m \in DOMAIN printed : printed[m].of < packet

\* Without short reads the program stays at whole words and has printed what it met.
Aligned == ~cut => (pos - entry) % 2 = 0

Met(n) ==
  \A i \in entry + 1 .. n :
    /\ Begins(stream[i]) /\ (i - entry) % 2 = 1
    /\ stream[i].of \in Text \ (hurt \cup {packet})
    => \E m \in DOMAIN printed : printed[m].of = stream[i].of

Inv == TypeOK /\ Placed /\ Ordered /\ Fresh /\ Genuine /\ Aligned /\ (~cut => Met(pos))
------------------------------------------------------------------------------
(* The stream *)

\* Streams are made of units.
LEMMA StreamUnits ==
  ASSUME TypeOK
  PROVE  stream \in Seq(Units) /\ Whole(stream) /\ InOrder(stream) /\ Len(stream) \in Nat
BY FifoAssumption, LenProperties DEF TypeOK

\* What comes after a unit of a packet.
LEMMA Goes ==
  ASSUME TypeOK, NEW i \in 1 .. Len(stream), stream[i].of # Noise,
         NEW j \in 1 .. Length(stream[i].of) - stream[i].k, i + j <= Len(stream)
  PROVE  stream[i + j] = [of |-> stream[i].of, k |-> stream[i].k + j]
<1>1. stream \in Seq(Units) /\ Whole(stream) /\ Len(stream) \in Nat
  BY StreamUnits
<1>2. i \in DOMAIN stream /\ i + j \in DOMAIN stream
  BY <1>1
<1> QED BY <1>1, <1>2 DEF Whole

\* A part of a sequence.
LEMMA Slice ==
  ASSUME NEW S, NEW s \in Seq(S), NEW a \in Nat, NEW n \in Nat, a + n <= Len(s)
  PROVE  /\ SubSeq(s, a + 1, a + n) \in Seq(S) /\ Len(SubSeq(s, a + 1, a + n)) = n
         /\ \A j \in 1 .. n : SubSeq(s, a + 1, a + n)[j] = s[a + j]
<1> DEFINE first == a + 1
           last == a + n
<1>1. first \in Int /\ last \in Int /\ last - first + 1 = n
  OBVIOUS
<1>2. \A i \in first .. last : s[i] \in S
  BY ElementOfSeq
<1>3. \A j \in 1 .. n : s[first + j - 1] = s[a + j]
  OBVIOUS
<1>4. first <= last <=> n # 0
  OBVIOUS
<1> HIDE DEF first, last
<1>5. /\ SubSeq(s, first, last) \in Seq(S)
      /\ Len(SubSeq(s, first, last)) = IF first <= last THEN last - first + 1 ELSE 0
      /\ \A j \in 1 .. last - first + 1 : SubSeq(s, first, last)[j] = s[first + j - 1]
  BY <1>1, <1>2, SubSeqProperties
<1>6. /\ SubSeq(s, first, last) \in Seq(S) /\ Len(SubSeq(s, first, last)) = n
      /\ \A j \in 1 .. n : SubSeq(s, first, last)[j] = s[a + j]
  BY <1>1, <1>3, <1>4, <1>5
<1> QED BY <1>6 DEF first, last

\* What a read of n units takes.
LEMMA TakenUnits ==
  ASSUME TypeOK, NEW n \in Nat, pos + n <= Len(stream)
  PROVE  /\ Taken(n) \in Seq(Units) /\ Len(Taken(n)) = n
         /\ \A j \in 1 .. n : Taken(n)[j] = stream[pos + j]
<1>1. stream \in Seq(Units) /\ pos \in Nat
  BY StreamUnits DEF TypeOK
<1> QED BY <1>1, Slice DEF Taken

\* A part of a packet is a positive, even number of units.
LEMMA WantedNat ==
  ASSUME Inv, pc \in {"head", "size", "data", "trailer"}
  PROVE  Wanted \in Nat \ {0} /\ Wanted % 2 = 0
<1>1. packet \in Packets => Size[packet] \in Nat \ {0} /\ Size[packet] % 2 = 0
  BY FifoAssumption
<1>2. pc = "data" => packet \in Packets
  BY DEF Inv, Placed
<1> QED BY <1>1, <1>2 DEF Wanted

\* The units of a packet that follow its header are what is read.
LEMMA Inside ==
  ASSUME Inv, pc \in {"size", "data", "trailer"},
         NEW j \in 1 .. Wanted, pos + j <= Len(stream)
  PROVE  /\ stream[pos + j] = [of |-> packet, k |-> stream[pos].k + j]
         /\ ~Begins(stream[pos + j])
<1>1. TypeOK /\ pos \in 1 .. Len(stream) /\ packet \in Packets /\ packet # Noise
      /\ stream[pos].of = packet /\ Size[packet] \in Nat \ {0}
  BY FifoAssumption, StreamUnits DEF Inv, Placed, TypeOK
<1>2. stream[pos].k \in Nat \ {0} /\ stream[pos].k + Wanted <= Length(packet)
  <2>1. /\ pc = "size" => stream[pos].k = 2 /\ Wanted = 2
        /\ pc = "data" => stream[pos].k = 4 /\ Wanted = Size[packet]
        /\ pc = "trailer" => stream[pos].k = Size[packet] + 4 /\ Wanted = 2
    BY DEF Inv, Placed, Wanted
  <2>2. Length(packet) = Size[packet] + 6
    BY DEF Length
  <2>3. CASE pc = "size"
    BY <1>1, <2>1, <2>2, <2>3
  <2>4. CASE pc = "data"
    BY <1>1, <2>1, <2>2, <2>4
  <2>5. CASE pc = "trailer"
    BY <1>1, <2>1, <2>2, <2>5
  <2> QED BY <2>3, <2>4, <2>5
<1>3. j \in 1 .. Length(stream[pos].of) - stream[pos].k
  <2>1. Wanted \in Nat /\ Length(packet) \in Nat
    BY <1>1, WantedNat DEF Length
  <2> QED BY <1>1, <1>2, <2>1
<1>4. stream[pos + j] = [of |-> packet, k |-> stream[pos].k + j]
  BY <1>1, <1>3, Goes
<1> QED BY <1>2, <1>4 DEF Begins

\* What every read does.
LEMMA ReadStep ==
  ASSUME Inv, pc \in {"head", "size", "data", "trailer"}, NEW n, NEW ok, Read(n, ok)
  PROVE  /\ n \in 0 .. Wanted /\ pos' = pos + n /\ pos' \in 0 .. Len(stream)
         /\ entry' \in 0 .. pos' /\ Aligned'
         /\ stream' = stream /\ cancelled' = cancelled /\ entry' = entry
         /\ cut \in BOOLEAN /\ cut' \in BOOLEAN /\ (~cut' => ~cut /\ n \in {0, Wanted})
         /\ hurt \subseteq hurt' /\ hurt' \subseteq Packets \cup {Noise}
         /\ ~(ok /\ n = Wanted /\ ~cancelled)
              => packet \in hurt' /\ \A j \in 1 .. n : stream[pos + j].of \in hurt'
<1>1. Wanted \in Nat \ {0} /\ Wanted % 2 = 0
  BY WantedNat
<1>2. TypeOK /\ pos \in Nat /\ entry \in 0 .. pos /\ Len(stream) \in Nat
  BY StreamUnits DEF Inv, TypeOK
<1>3. n \in 0 .. Wanted /\ pos' = pos + n /\ pos + n <= Len(stream) /\ n \in Nat
  BY <1>1 DEF Read
<1>4. stream' = stream /\ cancelled' = cancelled /\ entry' = entry
  BY DEF Read
<1>5. cut \in BOOLEAN /\ cut' \in BOOLEAN /\ (~cut' => ~cut /\ n \in {0, Wanted})
  BY <1>2 DEF Read, TypeOK
<1>6. \A j \in 1 .. n : Taken(n)[j] = stream[pos + j] /\ Taken(n)[j].of \in Packets \cup {Noise}
  <2>1. Taken(n) \in Seq(Units) /\ Len(Taken(n)) = n
        /\ \A j \in 1 .. n : Taken(n)[j] = stream[pos + j]
    BY <1>2, <1>3, TakenUnits
  <2>2. \A j \in 1 .. n : Taken(n)[j] \in Units
    BY <2>1, <1>3, ElementOfSeq
  <2> QED BY <2>1, <2>2 DEF Units
<1>7. hurt \subseteq hurt' /\ hurt' \subseteq Packets \cup {Noise}
  BY <1>2, <1>6 DEF Read, TypeOK
<1>8. ~(ok /\ n = Wanted /\ ~cancelled)
        => packet \in hurt' /\ \A j \in 1 .. n : stream[pos + j].of \in hurt'
  BY <1>6 DEF Read
<1>9. Aligned'
  <2>1. ~cut' => (pos - entry) % 2 = 0 /\ n % 2 = 0
    BY <1>1, <1>5 DEF Inv, Aligned
  <2> QED BY <1>2, <1>3, <1>4, <2>1 DEF Aligned
<1> QED BY <1>2, <1>3, <1>4, <1>5, <1>7, <1>8, <1>9
------------------------------------------------------------------------------
(* Steps *)

\* With the stream entered at whole words, only a read of a header meets one.
LEMMA NewHeads ==
  ASSUME Inv, pc \in {"head", "size", "data", "trailer"}, NEW n, NEW ok, Read(n, ok), ~cut',
         NEW i \in pos + 1 .. pos + n, Begins(stream[i]), (i - entry) % 2 = 1
  PROVE  pc = "head" /\ n = 2 /\ i = pos + 1
<1>1. n \in 0 .. Wanted /\ pos + n <= Len(stream) /\ n \in {0, Wanted}
      /\ Wanted \in Nat \ {0} /\ pos \in Nat /\ entry \in 0 .. pos /\ Len(stream) \in Nat
  BY ReadStep, WantedNat, StreamUnits DEF Inv, TypeOK
<1>2. (pos - entry) % 2 = 0
  BY ReadStep DEF Inv, Aligned
<1>3. pc = "head"
  <2>1. SUFFICES ASSUME pc \in {"size", "data", "trailer"} PROVE FALSE
    OBVIOUS
  <2>2. i - pos \in 1 .. Wanted /\ pos + (i - pos) <= Len(stream) /\ pos + (i - pos) = i
    BY <1>1
  <2> QED BY <2>1, <2>2, Inside
<1>4. Wanted = 2
  BY <1>3 DEF Wanted
<1>5. n = 2 /\ i \in {pos + 1, pos + 2}
  BY <1>1, <1>4
<1>6. i # pos + 2
  BY <1>1, <1>2
<1> QED BY <1>3, <1>5, <1>6

\* Packets that begin further behind still do after a read.
LEMMA OrderedOn ==
  ASSUME Inv, NEW to \in pos .. Len(stream), NEW i \in to + 1 .. Len(stream), Begins(stream[i])
  PROVE  /\ \A m \in DOMAIN printed : printed[m].of < stream[i].of
         /\ packet < stream[i].of /\ stream[i].of \in Packets /\ Noise < stream[i].of
<1>1. stream \in Seq(Units) /\ pos \in Nat /\ Len(stream) \in Nat
  BY StreamUnits DEF Inv, TypeOK
<1>2. i \in pos + 1 .. Len(stream) /\ stream[i] \in Units
  BY <1>1, ElementOfSeq
<1>3. stream[i].of \in Packets
  BY <1>2 DEF Units, Begins
<1>4. Noise < stream[i].of
  <2>1. \A p \in Packets : p \in Nat \ {0}
    BY FifoAssumption DEF Noise
  <2> QED BY <1>3, <2>1 DEF Noise
<1> QED BY <1>2, <1>3, <1>4 DEF Inv, Ordered

\* A packet may be given up when a read in it failed, or when it is no text.
LEMMA Abandoned ==
  ASSUME Inv, pc \in {"head", "size", "data", "trailer"}, NEW n, NEW ok, Read(n, ok), Abandon,
         pc = "head" /\ n = 2 /\ Begins(stream[pos + 1]) => stream[pos + 1].of \in hurt',
         packet \in Text => packet \in hurt'
  PROVE  Inv'
<1>1. /\ n \in Nat /\ pos \in Nat /\ pos' = pos + n /\ pos' \in 0 .. Len(stream)
      /\ Len(stream) \in Nat
      /\ stream' = stream /\ entry' = entry /\ entry' \in 0 .. pos' /\ cancelled' = cancelled
      /\ cut' \in BOOLEAN /\ (~cut' => ~cut)
      /\ hurt \subseteq hurt' /\ hurt' \subseteq Packets \cup {Noise} /\ Aligned'
  BY ReadStep, WantedNat, StreamUnits DEF Inv, TypeOK
<1>2. pc' = "loop" /\ packet' = Noise /\ data' = <<>> /\ printed' = printed
  BY DEF Abandon
<1>3. TypeOK'
  BY <1>1, <1>2 DEF Inv, TypeOK
<1>4. Placed' /\ Fresh' /\ Genuine'
  BY <1>2 DEF Inv, Placed, Fresh, Genuine
<1>5. Ordered'
  BY <1>1, <1>2, OrderedOn DEF Ordered
<1>6. ~cut' => Met(pos)'
  <2>1. SUFFICES ASSUME ~cut', NEW i \in entry + 1 .. pos + n,
                        Begins(stream[i]), (i - entry) % 2 = 1, stream[i].of \in Text \ hurt'
                 PROVE  \E m \in DOMAIN printed : printed[m].of = stream[i].of
    BY <1>1, <1>2 DEF Met
  <2>2. i \in pos + 1 .. pos + n => FALSE
    BY <2>1, NewHeads
  <2>3. i \in entry + 1 .. pos
    BY <1>1, <2>1, <2>2
  <2>4. Met(pos) /\ stream[i].of \in Text \ (hurt \cup {packet})
    BY <1>1, <2>1 DEF Inv
  <2> QED BY <2>1, <2>3, <2>4 DEF Met
<1> QED BY <1>1, <1>3, <1>4, <1>5, <1>6 DEF Inv

\* A look at the context reads nothing.
LEMMA LoopStep == ASSUME Inv, Loop PROVE Inv'
<1>1. TypeOK'
  BY DEF Inv, TypeOK, Loop
<1>2. Placed' /\ Ordered' /\ Fresh' /\ Genuine' /\ Aligned' /\ (~cut' => Met(pos)')
  BY DEF Inv, Placed, Ordered, Fresh, Genuine, Aligned, Met, Loop
<1> QED BY <1>1, <1>2 DEF Inv

\* Nor does Ctrl+C.
LEMMA InterruptStep == ASSUME Inv, Interrupt PROVE Inv'
<1>1. TypeOK'
  BY DEF Inv, TypeOK, Interrupt
<1>2. Placed' /\ Ordered' /\ Fresh' /\ Genuine' /\ Aligned' /\ (~cut' => Met(pos)')
  BY DEF Inv, Placed, Ordered, Fresh, Genuine, Aligned, Met, Interrupt
<1> QED BY <1>1, <1>2 DEF Inv

\* The loop is entered where the version request has left the stream.
LEMMA VersionStep == ASSUME Inv, Version PROVE Inv'
<1>1. PICK n \in 0 .. 6 : pos + n <= Len(stream) /\ pos' = pos + n /\ entry' = pos + n
  BY DEF Version
<1>2. pos \in Nat /\ Len(stream) \in Nat /\ packet = Noise
  BY StreamUnits DEF Inv, TypeOK, Placed, Version
<1>3. TypeOK'
  BY <1>1, <1>2 DEF Inv, TypeOK, Version
<1>4. Ordered'
  BY <1>1, <1>2, OrderedOn DEF Ordered, Version
<1>5. Aligned' /\ Met(pos)'
  BY <1>1, <1>2 DEF Aligned, Met
<1>6. Placed' /\ Fresh' /\ Genuine'
  BY DEF Inv, Placed, Fresh, Genuine, Version
<1> QED BY <1>3, <1>4, <1>5, <1>6 DEF Inv

\* A read that succeeds inside a packet, or of a header, leaves what was met as it was.
LEMMA MetOn ==
  ASSUME Inv, pc \in {"head", "size", "data", "trailer"}, NEW n, NEW ok, Read(n, ok), ~cut',
         printed' = printed, packet' = packet \/ packet = Noise,
         pc = "head" /\ n = 2 /\ Begins(stream[pos + 1]) => stream[pos + 1].of = packet'
  PROVE  Met(pos)'
<1>1. /\ n \in Nat /\ pos \in Nat /\ pos' = pos + n
      /\ stream' = stream /\ entry' = entry /\ hurt \subseteq hurt' /\ ~cut /\ entry \in 0 .. pos
  BY ReadStep, WantedNat DEF Inv, TypeOK
<1>2. SUFFICES ASSUME NEW i \in entry + 1 .. pos + n, Begins(stream[i]), (i - entry) % 2 = 1,
                      stream[i].of \in Text \ (hurt' \cup {packet'})
               PROVE  \E m \in DOMAIN printed : printed[m].of = stream[i].of
  BY <1>1 DEF Met
<1>3. i \in pos + 1 .. pos + n => FALSE
  BY <1>2, NewHeads
<1>4. i \in entry + 1 .. pos
  BY <1>1, <1>2, <1>3
<1>5. Met(pos) /\ stream[i].of \in Text \ (hurt \cup {packet})
  BY <1>1, <1>2 DEF Inv, Begins
<1> QED BY <1>2, <1>4, <1>5 DEF Met

\* A header begins a packet, and anything else is skipped.
LEMMA HeadStep == ASSUME Inv, HeadRead PROVE Inv'
<1>1. PICK n \in 0 .. Wanted, ok \in BOOLEAN :
        /\ Read(n, ok)
        /\ IF ok /\ ~cancelled /\ IsHead(Taken(n))
             THEN pc' = "size" /\ packet' = Taken(n)[1].of /\ UNCHANGED <<data, printed>>
           ELSE Abandon
  BY DEF HeadRead
<1>2. pc = "head" /\ Wanted = 2 /\ packet = Noise /\ n \in 0 .. 2
  BY <1>1 DEF HeadRead, Wanted, Inv, Placed
<1>3. /\ pos \in Nat /\ pos' = pos + n /\ pos' \in 0 .. Len(stream)
      /\ Len(stream) \in Nat /\ stream \in Seq(Units)
      /\ stream' = stream /\ entry' = entry /\ entry' \in 0 .. pos' /\ cancelled' = cancelled
      /\ cut' \in BOOLEAN /\ (~cut' => ~cut) /\ hurt' \subseteq Packets \cup {Noise} /\ Aligned'
  BY <1>1, <1>2, ReadStep, StreamUnits DEF Inv, TypeOK
<1>4. /\ Taken(n) \in Seq(Units) /\ Len(Taken(n)) = n
      /\ \A j \in 1 .. n : Taken(n)[j] = stream[pos + j]
  <2>1. TypeOK /\ n \in Nat /\ pos + n <= Len(stream)
    BY <1>2, <1>3 DEF Inv
  <2> QED BY <2>1, TakenUnits
<1>5. CASE ~(ok /\ ~cancelled /\ IsHead(Taken(n)))
  <2>1. n = 2 /\ Begins(stream[pos + 1]) => ~(ok /\ n = Wanted /\ ~cancelled)
    <3>1. n = 2 => Taken(n)[1] = stream[pos + 1]
      BY <1>4
    <3> QED BY <1>4, <1>5, <3>1 DEF IsHead
  <2>2. n = 2 /\ Begins(stream[pos + 1]) => stream[pos + 1].of \in hurt'
    BY <1>1, <1>2, <2>1, ReadStep
  <2>3. packet \notin Text
    BY <1>2, FifoAssumption
  <2> QED BY <1>1, <1>2, <1>5, <2>2, <2>3, Abandoned
<1>6. CASE ok /\ ~cancelled /\ IsHead(Taken(n))
  <2>1. n = 2 /\ Begins(stream[pos + 1]) /\ packet' = stream[pos + 1].of
        /\ pc' = "size" /\ data' = data /\ printed' = printed
    <3>1. n = 2
      BY <1>2, <1>4, <1>6 DEF IsHead
    <3>2. Taken(n)[1] = stream[pos + 1]
      BY <1>4, <3>1
    <3> QED BY <1>1, <1>6, <3>1, <3>2 DEF IsHead
  <2>2. packet' \in Packets /\ packet' # Noise /\ pos + 1 \in 1 .. Len(stream)
    <3>1. pos + 1 \in 1 .. Len(stream)
      BY <1>3, <2>1
    <3>2. stream[pos + 1] \in Units
      BY <1>3, <3>1, ElementOfSeq
    <3> QED BY <2>1, <3>1, <3>2 DEF Units, Begins
  <2>3. TypeOK'
    BY <1>3, <2>1, <2>2 DEF Inv, TypeOK
  <2>4. stream[pos + 2] = [of |-> packet', k |-> 2]
    <3>1. Length(packet') \in Nat /\ 1 <= Length(packet') - 1
      BY <2>2, FifoAssumption DEF Length
    <3>2. pos + 1 + 1 <= Len(stream) /\ stream[pos + 1].k = 1 /\ stream[pos + 1].of # Noise
          /\ 1 \in 1 .. Length(stream[pos + 1].of) - stream[pos + 1].k
      BY <1>3, <2>1, <2>2, <3>1 DEF Begins
    <3>3. stream[pos + 1 + 1] = [of |-> stream[pos + 1].of, k |-> stream[pos + 1].k + 1]
      BY <2>2, <3>2, Goes DEF Inv
    <3> QED BY <1>3, <2>1, <3>2, <3>3
  <2>5. Placed'
    BY <1>3, <2>1, <2>2, <2>4 DEF Placed
  <2>6. Ordered'
    <3>1. SUFFICES ASSUME NEW i \in pos + 3 .. Len(stream), Begins(stream[i])
                   PROVE  /\ \A m \in DOMAIN printed : printed[m].of < stream[i].of
                          /\ stream[pos + 1].of < stream[i].of
      BY <1>3, <2>1 DEF Ordered
    <3>2. InOrder(stream) /\ pos + 1 \in DOMAIN stream /\ i \in DOMAIN stream /\ pos + 1 < i
      BY <1>3, <2>2, StreamUnits DEF Inv
    <3> QED BY <1>3, <2>1, <3>1, <3>2, OrderedOn DEF InOrder
  <2>7. Fresh'
    BY <1>3, <2>1, <2>2, OrderedOn DEF Fresh
  <2>8. Genuine'
    BY <2>1 DEF Inv, Genuine
  <2>9. ~cut' => Met(pos)'
    BY <1>1, <1>2, <2>1, MetOn
  <2> QED BY <1>3, <2>3, <2>5, <2>6, <2>7, <2>8, <2>9 DEF Inv
<1> QED BY <1>5, <1>6

\* What holds after a read inside a packet that succeeded.
LEMMA InsideStep ==
  ASSUME Inv, pc \in {"size", "data", "trailer"}, NEW n, NEW ok, Read(n, ok), n = Wanted
  PROVE  /\ pos \in Nat /\ pos' = pos + Wanted /\ pos' \in DOMAIN stream'
         /\ Wanted \in Nat \ {0} /\ packet \in Packets /\ packet # Noise
         /\ Size[packet] \in Nat \ {0} /\ stream' = stream
         /\ stream[pos'] = [of |-> packet, k |-> stream[pos].k + Wanted]
         /\ Ordered' \/ ~(packet' = packet /\ printed' = printed)
         /\ Taken(n) \in Seq(Units)
         /\ Taken(n) = [j \in 1 .. Wanted |-> [of |-> packet, k |-> stream[pos].k + j]]
<1>1. /\ n \in Nat /\ pos \in Nat /\ pos' = pos + Wanted /\ pos' \in 0 .. Len(stream)
      /\ Len(stream) \in Nat /\ stream' = stream /\ Wanted \in Nat \ {0}
      /\ stream \in Seq(Units) /\ TypeOK
  BY ReadStep, WantedNat, StreamUnits DEF Inv, TypeOK
<1>2. packet \in Packets /\ packet # Noise /\ Size[packet] \in Nat \ {0}
  BY FifoAssumption DEF Inv, Placed
<1>3. \A j \in 1 .. Wanted : stream[pos + j] = [of |-> packet, k |-> stream[pos].k + j]
  BY <1>1, Inside
<1>4. stream[pos'] = [of |-> packet, k |-> stream[pos].k + Wanted]
  BY <1>1, <1>3
<1>5. packet' = packet /\ printed' = printed => Ordered'
  BY <1>1, OrderedOn DEF Ordered
<1>6. /\ Taken(n) \in Seq(Units) /\ Len(Taken(n)) = Wanted
      /\ \A j \in 1 .. Wanted : Taken(n)[j] = stream[pos + j]
  BY <1>1, TakenUnits
<1>7. Taken(n) = [j \in 1 .. Wanted |-> [of |-> packet, k |-> stream[pos].k + j]]
  <2>1. DOMAIN Taken(n) = 1 .. Wanted /\ Taken(n) = [j \in DOMAIN Taken(n) |-> Taken(n)[j]]
    BY <1>6, LenProperties
  <2>2. \A j \in 1 .. Wanted : Taken(n)[j] = [of |-> packet, k |-> stream[pos].k + j]
    BY <1>3, <1>6
  <2> HIDE <1>1
  <2> QED BY <2>1, <2>2, Zenon
<1> QED BY <1>1, <1>2, <1>4, <1>5, <1>6, <1>7

\* The size follows the header.
LEMMA SizeStep == ASSUME Inv, SizeRead PROVE Inv'
<1>1. PICK n \in 0 .. Wanted, ok \in BOOLEAN :
        /\ Read(n, ok)
        /\ IF ok /\ n = Wanted THEN pc' = "data" /\ UNCHANGED <<packet, data, printed>> ELSE Abandon
  BY DEF SizeRead
<1>2. pc = "size" /\ Wanted = 2
  BY DEF SizeRead, Wanted
<1>3. CASE ~(ok /\ n = Wanted)
  BY <1>1, <1>2, <1>3, ReadStep, Abandoned
<1>4. CASE ok /\ n = Wanted
  <2>1. pc' = "data" /\ packet' = packet /\ data' = data /\ printed' = printed
    BY <1>1, <1>4
  <2>2. /\ pos' \in DOMAIN stream' /\ packet \in Packets /\ stream' = stream
        /\ stream[pos'] = [of |-> packet, k |-> stream[pos].k + 2] /\ Ordered'
    BY <1>1, <1>2, <1>4, <2>1, InsideStep
  <2>3. TypeOK' /\ Aligned'
    BY <1>1, <1>2, <2>1, ReadStep DEF Inv, TypeOK
  <2>4. Placed'
    <3>1. stream[pos].k = 2
      BY <1>2 DEF Inv, Placed
    <3> QED BY <2>1, <2>2, <3>1 DEF Placed
  <2>5. Fresh' /\ Genuine'
    BY <2>1 DEF Inv, Fresh, Genuine
  <2>6. ~cut' => Met(pos)'
    BY <1>1, <1>2, <2>1, MetOn
  <2> QED BY <2>2, <2>3, <2>4, <2>5, <2>6 DEF Inv
<1> QED BY <1>3, <1>4

\* The data follows the size.
LEMMA DataStep == ASSUME Inv, DataRead PROVE Inv'
<1>1. PICK n \in 0 .. Wanted, ok \in BOOLEAN :
        /\ Read(n, ok)
        /\ IF ok /\ n = Wanted
             THEN pc' = "trailer" /\ data' = Taken(n) /\ UNCHANGED <<packet, printed>>
           ELSE Abandon
  BY DEF DataRead
<1>2. pc = "data" /\ Wanted = Size[packet] /\ stream[pos].k = 4
  BY DEF DataRead, Wanted, Inv, Placed
<1>3. CASE ~(ok /\ n = Wanted)
  BY <1>1, <1>2, <1>3, ReadStep, Abandoned
<1>4. CASE ok /\ n = Wanted
  <2>1. pc' = "trailer" /\ packet' = packet /\ data' = Taken(n) /\ printed' = printed
    BY <1>1, <1>4
  <2>2. /\ pos' \in DOMAIN stream' /\ packet \in Packets /\ stream' = stream
        /\ Size[packet] \in Nat \ {0}
        /\ stream[pos'] = [of |-> packet, k |-> 4 + Size[packet]] /\ Ordered'
        /\ Taken(n) = [j \in 1 .. Size[packet] |-> [of |-> packet, k |-> 4 + j]]
    BY <1>1, <1>2, <1>4, <2>1, InsideStep
  <2>3. data' = [j \in 1 .. Size[packet] |-> [of |-> packet, k |-> j + 4]]
    BY <2>1, <2>2
  <2>4. data' \in Seq(Units)
    BY <1>1, <1>2, <1>4, <2>1, InsideStep
  <2>5. TypeOK' /\ Aligned'
    BY <1>1, <1>2, <2>1, <2>4, ReadStep DEF Inv, TypeOK
  <2>6. Placed'
    BY <2>1, <2>2, <2>3 DEF Placed
  <2>7. Fresh' /\ Genuine'
    BY <2>1 DEF Inv, Fresh, Genuine
  <2>8. ~cut' => Met(pos)'
    BY <1>1, <1>2, <2>1, MetOn
  <2> QED BY <2>2, <2>5, <2>6, <2>7, <2>8 DEF Inv
<1> QED BY <1>3, <1>4

\* The unit that closes a packet is recognised, so nothing but a read makes it fail.
LEMMA TrailerStep == ASSUME Inv, TrailerRead PROVE Inv'
<1>1. PICK n \in 0 .. Wanted, ok \in BOOLEAN :
        /\ Read(n, ok)
        /\ IF ok /\ n = Wanted /\ IsTrailer(Taken(n)) /\ ~cancelled /\ Prints(packet)
             THEN /\ pc' = "loop" /\ packet' = Noise /\ data' = <<>>
                  /\ printed' = Append(printed, [of |-> packet, data |-> data])
           ELSE Abandon
  BY DEF TrailerRead
<1>2. pc = "trailer" /\ Wanted = 2 /\ stream[pos].k = Size[packet] + 4
      /\ data = [j \in 1 .. Size[packet] |-> [of |-> packet, k |-> j + 4]]
  BY DEF TrailerRead, Wanted, Inv, Placed
<1>3. CASE ~(ok /\ n = Wanted /\ ~cancelled)
  BY <1>1, <1>2, <1>3, ReadStep, Abandoned
<1>4. CASE ok /\ n = Wanted /\ ~cancelled
  <2>1. /\ pos' = pos + 2 /\ pos \in Nat /\ packet \in Packets /\ packet # Noise
        /\ Size[packet] \in Nat \ {0}
        /\ Taken(n) = [j \in 1 .. 2 |-> [of |-> packet, k |-> Size[packet] + 4 + j]]
    BY <1>1, <1>2, <1>4, InsideStep
  <2>2. IsTrailer(Taken(n))
    BY <2>1 DEF IsTrailer, Length
  <2>3. CASE packet \notin Text
    BY <1>1, <1>2, <1>4, <2>3, Abandoned DEF Prints
  <2>4. CASE packet \in Text
    <3> DEFINE text == [of |-> packet, data |-> data]
    <3>1. pc' = "loop" /\ packet' = Noise /\ data' = <<>> /\ printed' = Append(printed, text)
      BY <1>1, <1>4, <2>2, <2>4 DEF Prints
    <3>2. /\ text \in [of : Text, data : Seq(Units)]
          /\ printed \in Seq([of : Text, data : Seq(Units)]) /\ Len(printed) \in Nat
          /\ text.of = packet /\ text.data = data
      BY <2>4, LenProperties DEF Inv, TypeOK
    <3>3. /\ printed' \in Seq([of : Text, data : Seq(Units)])
          /\ DOMAIN printed' = 1 .. Len(printed) + 1 /\ DOMAIN printed = 1 .. Len(printed)
          /\ printed'[Len(printed) + 1] = text
          /\ \A m \in 1 .. Len(printed) : printed'[m] = printed[m]
      BY <3>1, <3>2, AppendProperties, LenProperties
    <3> HIDE DEF text
    <3>4. /\ pos' \in 0 .. Len(stream) /\ Len(stream) \in Nat /\ entry' = entry
          /\ entry \in 0 .. pos /\ hurt \subseteq hurt' /\ stream' = stream
          /\ cut' \in BOOLEAN /\ (~cut' => ~cut)
          /\ cancelled' = cancelled /\ hurt' \subseteq Packets \cup {Noise} /\ Aligned'
          /\ entry' \in 0 .. pos'
      BY <1>1, <1>2, ReadStep, StreamUnits DEF Inv, TypeOK
    <3>5. TypeOK'
      BY <3>1, <3>3, <3>4 DEF Inv, TypeOK
    <3>6. Placed' /\ Fresh'
      BY <3>1 DEF Placed, Fresh
    <3>7. Ordered'
      <4>1. SUFFICES ASSUME NEW i \in pos + 3 .. Len(stream), Begins(stream[i])
                     PROVE  /\ \A m \in DOMAIN printed' : printed'[m].of < stream[i].of
                            /\ Noise < stream[i].of
        <5>1. pos' + 1 = pos + 3 /\ packet' = Noise /\ stream' = stream
          BY <2>1, <3>1, <3>4
        <5> QED BY <4>1, <5>1 DEF Ordered
      <4>2. /\ \A m \in DOMAIN printed : printed[m].of < stream[i].of
            /\ packet < stream[i].of /\ Noise < stream[i].of
        <5>1. pos + 2 \in pos .. Len(stream) /\ i \in pos + 2 + 1 .. Len(stream)
          BY <2>1, <3>4, <4>1
        <5> QED BY <4>1, <5>1, OrderedOn
      <4>3. \A m \in 1 .. Len(printed) + 1 : m \in 1 .. Len(printed) \/ m = Len(printed) + 1
        BY <3>2
      <4> QED BY <3>2, <3>3, <4>2, <4>3
    <3>8. Genuine'
      <4>1. Genuine /\ \A m \in DOMAIN printed : printed[m].of < packet
        BY <2>1 DEF Inv, Fresh
      <4>2. SUFFICES ASSUME NEW i \in 1 .. Len(printed) + 1
                     PROVE  /\ printed'[i].data = [j \in 1 .. Size[printed'[i].of] |->
                                                     [of |-> printed'[i].of, k |-> j + 4]]
                            /\ \A h \in 1 .. i - 1 : printed'[h].of < printed'[i].of
        BY <3>3 DEF Genuine
      <4>3. CASE i \in 1 .. Len(printed)
        <5>1. \A h \in 1 .. i : h \in 1 .. Len(printed) /\ printed'[h] = printed[h]
          BY <3>2, <3>3, <4>3
        <5>2. printed'[i] = printed[i] /\ i \in DOMAIN printed
          BY <3>3, <4>3
        <5>3. /\ printed[i].data = [j \in 1 .. Size[printed[i].of] |->
                                      [of |-> printed[i].of, k |-> j + 4]]
              /\ \A h \in 1 .. i - 1 : printed[h].of < printed[i].of
          BY <4>1, <5>2 DEF Genuine
        <5>4. \A h \in 1 .. i - 1 : printed'[h] = printed[h]
          BY <4>3, <5>1
        <5> QED BY <5>2, <5>3, <5>4
      <4>4. CASE i = Len(printed) + 1
        <5>1. \A h \in 1 .. i - 1 : printed'[h] = printed[h] /\ printed[h].of < packet
          BY <3>2, <3>3, <4>1, <4>4
        <5>2. printed'[i].of = packet /\ printed'[i].data = data
          BY <3>2, <3>3, <4>4
        <5> QED BY <1>2, <5>1, <5>2
      <4>5. i \in 1 .. Len(printed) \/ i = Len(printed) + 1
        BY <3>2
      <4> QED BY <4>3, <4>4, <4>5
    <3>9. ~cut' => Met(pos)'
      <4>1. SUFFICES ASSUME ~cut', NEW i \in entry + 1 .. pos + 2, Begins(stream[i]),
                            (i - entry) % 2 = 1, stream[i].of \in Text \ hurt'
                     PROVE  \E m \in DOMAIN printed' : printed'[m].of = stream[i].of
        BY <2>1, <3>1, <3>4 DEF Met
      <4>2. CASE stream[i].of = packet
        <5>1. Len(printed) + 1 \in DOMAIN printed'
          BY <3>2, <3>3
        <5> QED BY <3>2, <3>3, <4>2, <5>1
      <4>3. CASE stream[i].of # packet
        <5>1. i \in pos + 1 .. pos + 2 => FALSE
          BY <1>1, <1>2, <1>4, <4>1, NewHeads
        <5>2. i \in entry + 1 .. pos
          BY <2>1, <3>4, <4>1, <5>1
        <5>3. Met(pos) /\ stream[i].of \in Text \ (hurt \cup {packet})
          BY <3>4, <4>1, <4>3 DEF Inv
        <5>4. \E m \in DOMAIN printed : printed[m].of = stream[i].of
          BY <4>1, <5>2, <5>3 DEF Met
        <5>5. PICK m \in 1 .. Len(printed) : printed[m].of = stream[i].of
          BY <3>3, <5>4
        <5>6. m \in DOMAIN printed' /\ printed'[m] = printed[m]
          BY <3>2, <3>3, <5>5
        <5> QED BY <5>5, <5>6
      <4> QED BY <4>2, <4>3
    <3> QED BY <3>4, <3>5, <3>6, <3>7, <3>8, <3>9 DEF Inv
  <2> QED BY <2>3, <2>4
<1> QED BY <1>3, <1>4
------------------------------------------------------------------------------
(* Theorems *)

\* The program stands where its pc says, in the stream and among the packets, always.
THEOREM Invariance == Spec => []Inv
<1>1. Init => Inv
  <2>1. SUFFICES ASSUME Init PROVE Inv
    OBVIOUS
  <2>2. stream \in Streams /\ pos = 0 /\ entry = 0 /\ pc = "version" /\ packet = Noise
        /\ data = <<>> /\ printed = <<>> /\ cancelled = FALSE /\ cut = FALSE /\ hurt = {}
    BY <2>1 DEF Init
  <2>3. stream \in Seq(Units) /\ Len(stream) \in Nat
    BY <2>2, FifoAssumption, LenProperties
  <2>4. TypeOK
    <3>1. data \in Seq(Units) /\ printed \in Seq([of : Text, data : Seq(Units)])
      BY <2>2, EmptySeq
    <3>2. pos \in 0 .. Len(stream) /\ entry \in 0 .. pos
      BY <2>2, <2>3
    <3>3. hurt \subseteq Packets \cup {Noise} /\ packet \in Packets \cup {Noise}
      BY <2>2
    <3>4. cancelled \in BOOLEAN /\ cut \in BOOLEAN
      BY <2>2
    <3> QED BY <2>2, <3>1, <3>2, <3>3, <3>4 DEF TypeOK
  <2>5. Placed /\ Fresh /\ Aligned /\ Met(pos)
    BY <2>2 DEF Placed, Fresh, Aligned, Met
  <2>6. DOMAIN printed = {}
    BY <2>2
  <2>7. Genuine
    BY <2>6 DEF Genuine
  <2>8. Ordered
    <3>1. \A i \in 1 .. Len(stream) : Begins(stream[i]) => Noise < stream[i].of
      <4>1. \A i \in 1 .. Len(stream) : stream[i] \in Units
        BY <2>3, ElementOfSeq
      <4>2. \A p \in Packets : p \in Nat \ {0}
        BY FifoAssumption DEF Noise
      <4> QED BY <4>1, <4>2 DEF Units, Begins, Noise
    <3> QED BY <2>2, <2>6, <3>1 DEF Ordered
  <2> QED BY <2>4, <2>5, <2>7, <2>8 DEF Inv
<1>2. Inv /\ [Next]_vars => Inv'
  <2>1. SUFFICES ASSUME Inv, [Next]_vars PROVE Inv'
    OBVIOUS
  <2>2. CASE Next
    BY <2>1, <2>2, VersionStep, LoopStep, HeadStep, SizeStep, DataStep, TrailerStep, InterruptStep
       DEF Next, Host
  <2>3. CASE UNCHANGED vars
    BY <2>1, <2>3 DEF vars, Inv, TypeOK, Placed, Ordered, Fresh, Genuine, Aligned, Met
  <2> QED BY <2>1, <2>2, <2>3
<1> QED BY <1>1, <1>2, PTL DEF Spec

\* Every variable of the program keeps its type, and it never reads past the stream.
THEOREM TypeCorrect == Spec => []TypeOK
BY Invariance, PTL DEF Inv

\* What is printed was sent, whole, once and in order (CmdFifoRead).
THEOREM PrintsGenuine == Spec => []Genuine
BY Invariance, PTL DEF Inv

\* Without short reads no whole-word packet after the entry is missed (cmdDebug).
THEOREM MissesNothing == Spec => []NothingMissed
<1>1. Inv => NothingMissed
  <2>1. SUFFICES ASSUME Inv, ~cut, pc \in {"loop", "head", "done"} PROVE NothingMissed
    BY DEF NothingMissed
  <2>2. Met(pos) /\ packet = Noise
    BY <2>1 DEF Inv, Placed
  <2> QED BY <2>2 DEF Met, NothingMissed, Begins
<1> QED BY <1>1, Invariance, PTL

------------------------------------------------------------------------------
(* Ctrl+C *)

\* The reads that are left of a round of the loop.
Stage ==
  CASE pc = "version" -> 6 [] pc = "size" -> 5 [] pc = "data" -> 4 [] pc = "trailer" -> 3
    [] pc = "head" -> 2 [] pc = "loop" -> 1 [] OTHER -> 0

\* After Ctrl+C no header is taken any more, and the loop is not entered again.
LEMMA Stops ==
  ASSUME cancelled, Host
  PROVE  cancelled' /\ Stage \in 1 .. 6 /\ Stage' < Stage
<1>1. CASE Version
  BY <1>1 DEF Version, Stage
<1>2. CASE Loop
  BY <1>2 DEF Loop, Stage
<1>3. CASE HeadRead
  <2>1. pc = "head" /\ pc' = "loop" /\ cancelled' = cancelled
    BY <1>3 DEF HeadRead, Read, Abandon
  <2> QED BY <2>1 DEF Stage
<1>4. CASE SizeRead
  <2>1. pc = "size" /\ pc' \in {"data", "loop"} /\ cancelled' = cancelled
    BY <1>4 DEF SizeRead, Read, Abandon
  <2> QED BY <2>1 DEF Stage
<1>5. CASE DataRead
  <2>1. pc = "data" /\ pc' \in {"trailer", "loop"} /\ cancelled' = cancelled
    BY <1>5 DEF DataRead, Read, Abandon
  <2> QED BY <2>1 DEF Stage
<1>6. CASE TrailerRead
  <2>1. pc = "trailer" /\ pc' = "loop" /\ cancelled' = cancelled
    BY <1>6 DEF TrailerRead, Read, Abandon
  <2> QED BY <2>1 DEF Stage
<1> QED BY <1>1, <1>2, <1>3, <1>4, <1>5, <1>6 DEF Host

(***************************************************************************)
(* After Ctrl+C every step is nearer to the end, wherever the reads were   *)
(* and whatever the ROM goes on to send: at most three reads and a look at *)
(* the context are left (cmdDebug, CmdFifoRead).                           *)
(***************************************************************************)
THEOREM StopsOnInterrupt ==
  Spec => [][cancelled /\ Host => cancelled' /\ Stage \in 1 .. 6 /\ Stage' < Stage]_vars
<1> DEFINE Stopping == cancelled /\ Host => cancelled' /\ Stage \in 1 .. 6 /\ Stage' < Stage
<1>1. Stopping
  BY Stops
<1> HIDE DEF Stopping
<1>2. Spec => [][Stopping]_vars
  BY <1>1, PTL DEF Spec
<1> QED BY <1>2 DEF Stopping
==============================================================================
