------------------------------ MODULE LinkProofs ------------------------------
(***************************************************************************)
(* The safety properties of Link, for all sets of commands and any number  *)
(* of retries.  The inductive invariant says where in the stream of answer *)
(* units the host is: Stream puts what was read of an answer back in front *)
(* of what is on its way, so that no read changes it.  At the end: that a  *)
(* call makes finitely many steps.                                         *)
(***************************************************************************)
EXTENDS Link, SequenceTheorems, TLAPS, Measures

Stream == answer \o (got \o wire)

(***************************************************************************)
(* Answers of the first n commands, cut off at their ends only, except for *)
(* the first of the stream, which may also miss its beginning: before a    *)
(* unit k of an answer come its units 1 .. k - 1, as far as s goes back.   *)
(***************************************************************************)
Framed(s, n) ==
  \A i \in 1 .. Len(s) :
    /\ s[i].of \in 1 .. n
    /\ s[i].k \in Nat \ {0}
    /\ \A j \in 1 .. s[i].k : i + j > s[i].k
         => s[(i + j) - s[i].k] = [of |-> s[i].of, cmd |-> s[i].cmd, k |-> j]

\* Which command is under way and how far the host has come with its answer.
Control ==
  /\ pc \in {"send", "data", "cmp"}
       => cmd = VersionRequest \/ (cmd = call /\ call # VersionRequest)
  /\ pc \in {"send", "data"} => answer = <<>>
  /\ pc \notin {"data", "cmp"} => got = <<>>
  /\ pc = "data" => Len(got) < cmd.data
  /\ pc = "cmp" => Len(answer) = cmd.data /\ Len(got) < 2 /\ cmd.cmp

Frames ==
  /\ Framed(wire, serial)
  /\ pc \in {"data", "cmp"} => Framed(Stream, serial)

\* In step, the stream is the answer to the command under way, or its start.
OwnStream ==
  clean /\ pc \in {"data", "cmp"}
    => \E length \in 0 .. AnswerLength(cmd) : Stream = Part(cmd, serial, length)

\* In step, the cache holds a version, unless it is being read.
GoodVersion ==
  clean /\ pc # "closed" /\ vers # <<>> /\ ~(pc = "data" /\ cmd = VersionRequest)
    => /\ Len(vers) = 2
       /\ \A k \in 1 .. 2 : vers[k].cmd = VersionRequest /\ vers[k].k = k

Inv ==
  /\ TypeOK /\ Control /\ Frames /\ OwnStream /\ GoodVersion
  /\ InStep /\ OwnAnswer /\ FramedAnswer /\ OnlySupported

------------------------------------------------------------------------------
(* Streams of units *)

\* The version request is a command like the others.
LEMMA CommandShape ==
  \A c \in AllCommands :
    /\ c.data \in Nat /\ c.cmp \in BOOLEAN /\ c.gate \in {0, 1, 2}
    /\ AnswerLength(c) \in Nat
    /\ AnswerLength(c) = IF c.cmp THEN c.data + 2 ELSE c.data
<1> SUFFICES ASSUME NEW c \in AllCommands
             PROVE  /\ c.data \in Nat /\ c.cmp \in BOOLEAN /\ c.gate \in {0, 1, 2}
                    /\ AnswerLength(c) \in Nat
                    /\ AnswerLength(c) = IF c.cmp THEN c.data + 2 ELSE c.data
  OBVIOUS
<1>1. c.data \in Nat /\ c.cmp \in BOOLEAN /\ c.gate \in {0, 1, 2}
  <2>1. CASE c = VersionRequest
    BY <2>1 DEF VersionRequest
  <2>2. CASE c \in Commands
    BY <2>2, LinkAssumption
  <2> QED  BY <2>1, <2>2 DEF AllCommands
<1>2. AnswerLength(c) = c.data + (IF c.cmp THEN 2 ELSE 0)
  BY DEF AnswerLength
<1>3. CASE c.cmp
  BY <1>1, <1>2, <1>3
<1>4. CASE ~c.cmp
  BY <1>1, <1>2, <1>4
<1> QED  BY <1>3, <1>4

\* An answer, or the start of one, is a sequence of units.
LEMMA PartProperties ==
  ASSUME NEW c \in AllCommands, NEW n \in Nat, NEW length \in Nat
  PROVE  /\ Part(c, n, length) \in Seq(Units)
         /\ Len(Part(c, n, length)) = length
         /\ \A i \in 1 .. length : Part(c, n, length)[i] = [of |-> n, cmd |-> c, k |-> i]
  BY DEF Part, Units

\* The data of an answer.
LEMMA DataProperties ==
  ASSUME NEW c \in AllCommands, NEW n \in Nat
  PROVE  /\ Data(c, n) \in Seq(Units)
         /\ Len(Data(c, n)) = c.data
<1> DEFINE length == c.data
<1>1. length \in Nat
  BY CommandShape
<1> HIDE DEF length
<1>2. Part(c, n, length) \in Seq(Units) /\ Len(Part(c, n, length)) = length
  BY <1>1, PartProperties
<1> QED  BY <1>2 DEF Data, length

\* What is read from the front of the wire and what stays make up the wire.
LEMMA Split ==
  ASSUME NEW s \in Seq(Units), NEW n \in 0 .. Len(s)
  PROVE  /\ SubSeq(s, 1, n) \in Seq(Units) /\ Len(SubSeq(s, 1, n)) = n
         /\ SubSeq(s, n + 1, Len(s)) \in Seq(Units)
         /\ Len(SubSeq(s, n + 1, Len(s))) = Len(s) - n
         /\ SubSeq(s, 1, n) \o SubSeq(s, n + 1, Len(s)) = s
<1>1. Len(s) \in Nat /\ n \in Nat /\ \A i \in 1 .. Len(s) : s[i] \in Units
  BY LenProperties, ElementOfSeq
<1>2. SubSeq(s, 1, n) \in Seq(Units) /\ Len(SubSeq(s, 1, n)) = n
  BY <1>1, SubSeqProperties
<1>3. /\ SubSeq(s, n + 1, Len(s)) \in Seq(Units)
      /\ Len(SubSeq(s, n + 1, Len(s))) = Len(s) - n
  BY <1>1, SubSeqProperties
<1>4. SubSeq(s, 1, n) \o SubSeq(s, n + 1, Len(s)) = SubSeq(s, 1, Len(s))
  <2>1. 1 \in 1 .. Len(s) + 1 /\ n \in 1 - 1 .. Len(s) /\ Len(s) \in n .. Len(s)
    BY <1>1
  <2> QED  BY <2>1, ConcatAdjacentSubSeq
<1> QED  BY <1>2, <1>3, <1>4, SubSeqFull

\* Where the units before a given one of its answer are.
LEMMA FramedAt ==
  ASSUME NEW s, NEW m \in Nat, Framed(s, m), NEW i \in 1 .. Len(s)
  PROVE  \A j \in 1 .. s[i].k : i + j > s[i].k
           => s[(i + j) - s[i].k] = [of |-> s[i].of, cmd |-> s[i].cmd, k |-> j]
  BY DEF Framed

\* Dropping units from the front leaves a stream of answers.
LEMMA FramedDrop ==
  ASSUME NEW s \in Seq(Units), NEW m \in Nat, NEW n \in 0 .. Len(s), Framed(s, m)
  PROVE  Framed(SubSeq(s, n + 1, Len(s)), m)
<1> DEFINE t == SubSeq(s, n + 1, Len(s))
<1>1. Len(s) \in Nat /\ n \in Nat /\ \A i \in 1 .. Len(s) : s[i] \in Units
  BY LenProperties, ElementOfSeq
<1>2. Len(t) = Len(s) - n /\ \A i \in 1 .. Len(s) - n : t[i] = s[n + i]
  BY <1>1, SubSeqProperties
<1> HIDE DEF t
<1> SUFFICES Framed(t, m)
  BY DEF t
<1> SUFFICES ASSUME NEW i \in 1 .. Len(t)
             PROVE  /\ t[i].of \in 1 .. m /\ t[i].k \in Nat \ {0}
                    /\ \A j \in 1 .. t[i].k : i + j > t[i].k
                         => t[(i + j) - t[i].k] = [of |-> t[i].of, cmd |-> t[i].cmd, k |-> j]
  BY DEF Framed
<1>3. n + i \in 1 .. Len(s) /\ t[i] = s[n + i]
  BY <1>1, <1>2
<1>4. t[i].of \in 1 .. m /\ t[i].k \in Nat \ {0}
  BY <1>3 DEF Framed
<1>5. ASSUME NEW j \in 1 .. t[i].k, i + j > t[i].k
      PROVE  t[(i + j) - t[i].k] = [of |-> t[i].of, cmd |-> t[i].cmd, k |-> j]
  <2>1. (i + j) - t[i].k \in 1 .. Len(t)
    BY <1>1, <1>2, <1>4, <1>5
  <2>a. t[(i + j) - t[i].k] = s[n + ((i + j) - t[i].k)]
    BY <2>1, <1>1, <1>2
  <2>2. t[(i + j) - t[i].k] = s[((n + i) + j) - s[n + i].k]
    <3>1. n + ((i + j) - t[i].k) = ((n + i) + j) - t[i].k
      BY <1>1, <1>4
    <3> QED  BY <3>1, <2>a, <1>3
  <2>3. j \in 1 .. s[n + i].k /\ (n + i) + j > s[n + i].k
    BY <1>1, <1>3, <1>4, <1>5
  <2>4. s[((n + i) + j) - s[n + i].k] = [of |-> s[n + i].of, cmd |-> s[n + i].cmd, k |-> j]
    BY <1>3, <2>3, FramedAt
  <2> QED  BY <2>2, <2>4, <1>3
<1> QED  BY <1>4, <1>5

\* So does the answer to one more command, cut off anywhere, at the end.
LEMMA FramedSend ==
  ASSUME NEW s \in Seq(Units), NEW m \in Nat, NEW c \in AllCommands, NEW length \in Nat,
         Framed(s, m)
  PROVE  Framed(s \o Part(c, m + 1, length), m + 1)
<1> DEFINE p == Part(c, m + 1, length)
           t == s \o p
<1>1. Len(s) \in Nat /\ \A i \in 1 .. Len(s) : s[i] \in Units
  BY LenProperties, ElementOfSeq
<1>2. /\ p \in Seq(Units) /\ Len(p) = length
      /\ \A i \in 1 .. length : p[i] = [of |-> m + 1, cmd |-> c, k |-> i]
  <2>1. m + 1 \in Nat
    OBVIOUS
  <2> QED  BY <2>1, PartProperties
<1> HIDE DEF p
<1>3. /\ Len(t) = Len(s) + length
      /\ \A i \in 1 .. Len(s) : t[i] = s[i]
      /\ \A i \in 1 .. Len(s) + length : i > Len(s) => t[i] = p[i - Len(s)]
  <2>1. /\ Len(s \o p) = Len(s) + Len(p)
        /\ \A i \in 1 .. Len(s) + Len(p) :
             (s \o p)[i] = IF i <= Len(s) THEN s[i] ELSE p[i - Len(s)]
    BY <1>2, ConcatProperties
  <2> QED  BY <2>1, <1>1, <1>2
<1> HIDE DEF t
<1> SUFFICES ASSUME NEW i \in 1 .. Len(t)
             PROVE  /\ t[i].of \in 1 .. m + 1 /\ t[i].k \in Nat \ {0}
                    /\ \A j \in 1 .. t[i].k : i + j > t[i].k
                         => t[(i + j) - t[i].k] = [of |-> t[i].of, cmd |-> t[i].cmd, k |-> j]
  BY DEF Framed, t, p
<1>4. CASE i <= Len(s)
  <2>1. t[i] = s[i] /\ t[i].of \in 1 .. m + 1 /\ t[i].k \in Nat \ {0}
    BY <1>1, <1>3, <1>4 DEF Framed
  <2>2. ASSUME NEW j \in 1 .. t[i].k, i + j > t[i].k
        PROVE  t[(i + j) - t[i].k] = [of |-> t[i].of, cmd |-> t[i].cmd, k |-> j]
    <3>1. (i + j) - t[i].k \in 1 .. Len(s)
      BY <1>1, <1>4, <2>1, <2>2
    <3>2. t[(i + j) - t[i].k] = s[(i + j) - s[i].k]
      BY <3>1, <1>3, <2>1
    <3>3. i \in 1 .. Len(s) /\ j \in 1 .. s[i].k /\ i + j > s[i].k
      BY <1>1, <1>3, <1>4, <2>1, <2>2
    <3>4. s[(i + j) - s[i].k] = [of |-> s[i].of, cmd |-> s[i].cmd, k |-> j]
      BY <3>3 DEF Framed
    <3> QED  BY <3>2, <3>4, <2>1
  <2> QED  BY <2>1, <2>2
<1>5. CASE i > Len(s)
  <2>1. i - Len(s) \in 1 .. length /\ t[i] = [of |-> m + 1, cmd |-> c, k |-> i - Len(s)]
    BY <1>1, <1>2, <1>3, <1>5
  <2>2. ASSUME NEW j \in 1 .. t[i].k, i + j > t[i].k
        PROVE  t[(i + j) - t[i].k] = [of |-> t[i].of, cmd |-> t[i].cmd, k |-> j]
    <3>1. j \in 1 .. length /\ (i + j) - t[i].k = Len(s) + j
      BY <1>1, <2>1, <2>2
    <3>2. Len(s) + j \in 1 .. Len(s) + length /\ Len(s) + j > Len(s) /\ (Len(s) + j) - Len(s) = j
      BY <3>1, <1>1
    <3>3. t[Len(s) + j] = p[j]
      BY <3>2, <1>3
    <3>4. p[j] = [of |-> m + 1, cmd |-> c, k |-> j]
      BY <3>1, <1>2
    <3> QED  BY <3>1, <3>3, <3>4, <2>1
  <2> QED  BY <2>1, <2>2, <1>1
<1> QED  BY <1>4, <1>5, <1>1

\* What stands before the end of a CMP is the whole data of an answer.
LEMMA WholeAnswer ==
  ASSUME NEW s \in Seq(Units), NEW m \in Nat, NEW c \in AllCommands, NEW a \in Seq(Units),
         Framed(s, m), NEW e \in 1 .. Len(s), e = Len(a) + 2, Len(a) = c.data,
         s[e].cmd = c, s[e].k = e, \A i \in 1 .. Len(a) : a[i] = s[i]
  PROVE  s[e].of \in 1 .. m /\ a = Data(c, s[e].of)
<1> DEFINE n == s[e].of
<1>1. c.data \in Nat /\ Len(s) \in Nat /\ e \in Nat
  BY CommandShape, LenProperties
<1>2. n \in 1 .. m
  BY DEF Framed
<1>3. ASSUME NEW i \in 1 .. c.data
      PROVE  a[i] = Data(c, n)[i]
  <2>1. i \in 1 .. s[e].k /\ e + i > s[e].k /\ (e + i) - s[e].k = i
    <3>1. i \in Nat /\ 1 <= i /\ i <= e
      BY <1>1
    <3>2. i \in 1 .. e /\ e + i > e /\ (e + i) - e = i
      BY <1>1, <3>1
    <3> QED  BY <3>2
  <2>2. s[(e + i) - s[e].k] = [of |-> n, cmd |-> c, k |-> i]
    <3>1. \A j \in 1 .. s[e].k : e + j > s[e].k
            => s[(e + j) - s[e].k] = [of |-> s[e].of, cmd |-> s[e].cmd, k |-> j]
      BY FramedAt
    <3> QED  BY <2>1, <3>1
  <2>3. Data(c, n)[i] = [of |-> n, cmd |-> c, k |-> i]
    BY DEF Data, Part
  <2> QED  BY <2>1, <2>2, <2>3
<1>4. Data(c, n) \in Seq(Units) /\ Len(Data(c, n)) = c.data
  <2>1. n \in Nat
    BY <1>2
  <2> QED  BY <2>1, DataProperties
<1>5. a = Data(c, n)
  BY <1>3, <1>4, SeqEqual
<1> QED  BY <1>2, <1>5

\* Nothing is in front of an empty sequence.
LEMMA StreamEmpty ==
  ASSUME NEW a \in Seq(Units), NEW w \in Seq(Units)
  PROVE  /\ <<>> \o (a \o w) = a \o w
         /\ a \o (<<>> \o w) = a \o w
  BY ConcatEmptySeq, ConcatProperties

\* What is read is at the front of the stream, in the order in which it was read.
LEMMA Front ==
  ASSUME NEW a \in Seq(Units), NEW u \in Seq(Units), NEW w \in Seq(Units),
         NEW s, s = a \o (u \o w)
  PROVE  /\ s \in Seq(Units) /\ Len(s) = Len(a) + (Len(u) + Len(w))
         /\ \A i \in 1 .. Len(a) : s[i] = a[i]
         /\ \A i \in 1 .. Len(u) : s[Len(a) + i] = u[i]
<1> DEFINE r == u \o w
<1>1. Len(a) \in Nat /\ Len(u) \in Nat /\ Len(w) \in Nat
  BY LenProperties
<1>2. /\ r \in Seq(Units) /\ Len(r) = Len(u) + Len(w)
      /\ \A i \in 1 .. Len(u) + Len(w) : r[i] = IF i <= Len(u) THEN u[i] ELSE w[i - Len(u)]
  BY ConcatProperties
<1>6. r \in Seq(Units)
  BY <1>2
<1> HIDE DEF r
<1>3. /\ a \o r \in Seq(Units) /\ Len(a \o r) = Len(a) + Len(r)
      /\ \A i \in 1 .. Len(a) + Len(r) :
           (a \o r)[i] = IF i <= Len(a) THEN a[i] ELSE r[i - Len(a)]
  BY <1>6, ConcatProperties
<1>4. s = a \o r
  BY DEF r
<1>5. \A i \in 1 .. Len(u) : s[Len(a) + i] = u[i]
  <2> SUFFICES ASSUME NEW i \in 1 .. Len(u) PROVE s[Len(a) + i] = u[i]
    OBVIOUS
  <2>1. /\ Len(a) + i \in 1 .. Len(a) + Len(r) /\ ~(Len(a) + i <= Len(a))
        /\ (Len(a) + i) - Len(a) = i /\ i \in 1 .. Len(u) + Len(w) /\ i <= Len(u)
    BY <1>1, <1>2
  <2>2. s[Len(a) + i] = r[i]
    BY <2>1, <1>3, <1>4
  <2> QED  BY <2>1, <2>2, <1>2
<1> QED  BY <1>1, <1>2, <1>3, <1>4, <1>5

\* With the data a and the CMP u read off the stream s, a is all the data of an answer.
CmpTells(c, m, a, u, w, s) ==
  Len(a) = c.data /\ Len(u) = 2
    => /\ \A length \in 0 .. c.data + 2 :
            s = Part(c, m, length) => w = <<>> /\ a = Data(c, m)
       /\ Framed(s, m) /\ u[2].cmd = c /\ u[2].k = c.data + 2
            => \E n \in 1 .. m : a = Data(c, n)

\* It does, by the second unit of the CMP, which no other answer has in its place.
LEMMA CmpPlaced ==
  ASSUME NEW c \in AllCommands, NEW m \in Nat,
         NEW a \in Seq(Units), NEW u \in Seq(Units), NEW w \in Seq(Units),
         NEW s \in Seq(Units), Len(s) = Len(a) + (Len(u) + Len(w)),
         \A i \in 1 .. Len(a) : s[i] = a[i],
         \A i \in 1 .. Len(u) : s[Len(a) + i] = u[i]
  PROVE  CmpTells(c, m, a, u, w, s)
<1>1. /\ s \in Seq(Units) /\ Len(s) = Len(a) + (Len(u) + Len(w))
      /\ \A i \in 1 .. Len(a) : s[i] = a[i]
      /\ \A i \in 1 .. Len(u) : s[Len(a) + i] = u[i]
  OBVIOUS
<1>2. c.data \in Nat /\ Len(w) \in Nat
  BY CommandShape, LenProperties
<1>3. ASSUME Len(a) = c.data, Len(u) = 2
      PROVE  /\ Len(s) = c.data + (2 + Len(w)) /\ c.data + 2 <= Len(s)
             /\ s[c.data + 2] = u[2]
             /\ \A i \in 1 .. c.data : a[i] = s[i]
  <2>1. Len(s) = c.data + (2 + Len(w))
    BY <1>1, <1>3
  <2>2. s[Len(a) + 2] = u[2]
    <3>1. 2 \in 1 .. Len(u)
      BY <1>3
    <3> QED  BY <3>1, <1>1
  <2>3. s[c.data + 2] = u[2]
    BY <2>2, <1>3
  <2>4. \A i \in 1 .. c.data : a[i] = s[i]
    <3>1. \A i \in 1 .. Len(a) : a[i] = s[i]
      BY <1>1
    <3> QED  BY <3>1, <1>3
  <2>5. c.data + 2 <= Len(s)
    BY <1>2, <2>1
  <2> QED  BY <2>1, <2>3, <2>4, <2>5
<1>4. ASSUME Len(a) = c.data, Len(u) = 2, NEW length \in 0 .. c.data + 2, s = Part(c, m, length)
      PROVE  w = <<>> /\ a = Data(c, m)
  <2>1. length \in Nat
    BY <1>2
  <2>2. /\ Len(Part(c, m, length)) = length
        /\ \A i \in 1 .. length : Part(c, m, length)[i] = [of |-> m, cmd |-> c, k |-> i]
    BY <2>1, PartProperties
  <2>3. Len(w) = 0 /\ length = c.data + 2
    <3>1. Len(s) = c.data + (2 + Len(w)) /\ Len(s) = length
      BY <1>3, <1>4, <2>2
    <3> QED  BY <1>2, <3>1
  <2>4. ASSUME NEW i \in 1 .. Len(a) PROVE a[i] = Data(c, m)[i]
    <3>1. i \in 1 .. c.data
      BY <1>4
    <3>2. a[i] = s[i]
      BY <1>3, <1>4, <3>1
    <3>3. i \in 1 .. length
      BY <1>2, <2>3, <3>1
    <3>4. s[i] = [of |-> m, cmd |-> c, k |-> i]
      BY <1>4, <2>2, <3>3
    <3>5. Data(c, m)[i] = [of |-> m, cmd |-> c, k |-> i]
      BY <3>1 DEF Data, Part
    <3> QED  BY <3>2, <3>4, <3>5
  <2>5. Data(c, m) \in Seq(Units) /\ Len(Data(c, m)) = Len(a)
    BY <1>4, DataProperties
  <2>6. a = Data(c, m)
    BY <2>4, <2>5, SeqEqual
  <2> QED  BY <2>3, <2>6, EmptySeq
<1>5. ASSUME Len(a) = c.data, Len(u) = 2, Framed(s, m), u[2].cmd = c, u[2].k = c.data + 2
      PROVE  \E n \in 1 .. m : a = Data(c, n)
  <2>1. s[c.data + 2].cmd = c /\ s[c.data + 2].k = c.data + 2
    BY <1>3, <1>5
  <2>2. c.data + 2 <= Len(s) /\ \A i \in 1 .. c.data : a[i] = s[i]
    BY <1>3, <1>5
  <2>3. s \in Seq(Units) /\ Framed(s, m) /\ Len(a) = c.data
    BY <1>1, <1>5
  <2>4. PICK e \in 1 .. Len(s) : e = c.data + 2
    BY <1>2, <2>2
  <2>5. s[e].cmd = c /\ s[e].k = e /\ e = Len(a) + 2 /\ \A i \in 1 .. Len(a) : a[i] = s[i]
    BY <1>5, <2>1, <2>2, <2>4
  <2>6. s[e].of \in 1 .. m /\ a = Data(c, s[e].of)
    BY <2>3, <2>5, WholeAnswer
  <2> QED  BY <2>6
<1> QED  BY <1>4, <1>5 DEF CmpTells

\* What the check of the CMP tells of the place in the stream.
LEMMA CmpUnits ==
  ASSUME NEW c \in AllCommands, NEW m \in Nat,
         NEW a \in Seq(Units), NEW u \in Seq(Units), NEW w \in Seq(Units),
         NEW s, s = a \o (u \o w)
  PROVE  CmpTells(c, m, a, u, w, s)
<1>1. /\ s \in Seq(Units) /\ Len(s) = Len(a) + (Len(u) + Len(w))
      /\ \A i \in 1 .. Len(a) : s[i] = a[i]
      /\ \A i \in 1 .. Len(u) : s[Len(a) + i] = u[i]
  BY Front
<1> QED  BY <1>1, CmpPlaced

------------------------------------------------------------------------------
(* The inductive invariant *)

\* It holds before the 64drive is opened.
LEMMA InvInit == Init => Inv
<1> SUFFICES ASSUME Init PROVE Inv
  OBVIOUS
<1>1. TypeOK
  BY LinkAssumption, EmptySeq DEF Init, TypeOK, AllCommands
<1>2. Framed(wire, serial)
  BY EmptySeq DEF Init, Framed
<1> QED
  BY <1>1, <1>2 DEF Init, Inv, Control, Frames, OwnStream, GoodVersion, InStep, OwnAnswer,
    FramedAnswer, OnlySupported

\* Opening drops the front of the wire and starts with an empty cache.
LEMMA InvOpen == Inv /\ Open => Inv'
<1> SUFFICES ASSUME Inv, Open PROVE Inv'
  OBVIOUS
<1>1. PICK n \in 0 .. Len(wire) :
        wire' = SubSeq(wire, n + 1, Len(wire)) /\ clean' = (n = Len(wire))
  BY DEF Open
<1>2. /\ wire \in Seq(Units) /\ serial \in Nat
      /\ wire' \in Seq(Units) /\ Len(wire') = Len(wire) - n
  BY <1>1, Split DEF Inv, TypeOK
<1>3. TypeOK'
  BY <1>1, <1>2, EmptySeq DEF Inv, TypeOK, Open, callVars
<1>4. Frames'
  <2>1. Framed(wire', serial)
    BY <1>1, <1>2, FramedDrop DEF Inv, Frames
  <2> QED  BY <2>1 DEF Open, Frames
<1>5. InStep'
  <2>1. clean' => n = Len(wire)
    BY <1>1
  <2>2. n = Len(wire) => Len(wire') = 0
    BY <1>2, LenProperties
  <2> QED  BY <2>1, <2>2, <1>2, EmptySeq DEF InStep
<1>6. Control' /\ OwnStream' /\ GoodVersion'
  BY DEF Inv, Open, Control, OwnStream, GoodVersion
<1>7. OwnAnswer' /\ FramedAnswer' /\ OnlySupported'
  BY DEF Open, OwnAnswer, FramedAnswer, OnlySupported
<1> QED  BY <1>3, <1>4, <1>5, <1>6, <1>7 DEF Inv

\* The end of the process forgets what was read of an answer.
LEMMA InvClose == Inv /\ Close => Inv'
<1> SUFFICES ASSUME Inv, Close PROVE Inv'
  OBVIOUS
<1>1. TypeOK'
  BY LinkAssumption, EmptySeq DEF Inv, TypeOK, Close, callVars
<1>2. Frames'
  BY DEF Inv, Frames, Framed, Close
<1>3. Control' /\ OwnStream' /\ GoodVersion' /\ InStep'
  BY DEF Close, Control, OwnStream, GoodVersion, InStep
<1>4. OwnAnswer' /\ FramedAnswer' /\ OnlySupported'
  BY DEF Close, OwnAnswer, FramedAnswer, OnlySupported
<1> QED  BY <1>1, <1>2, <1>3, <1>4 DEF Inv

\* A command that looks at the version is not sent before the gate.
LEMMA InvCall ==
  ASSUME NEW c \in AllCommands, Inv, Call(c)
  PROVE  Inv'
<1>1. /\ pc = "idle" /\ got = <<>> /\ pc' \in {"send", "gate"}
      /\ call' = c /\ answer' = <<>> /\ result' = "none"
      /\ serial' = serial /\ wire' = wire /\ got' = got /\ zeros' = zeros /\ vers' = vers
      /\ clean' = clean
  BY DEF Inv, Control, Call
<1>2. cmd' \in AllCommands /\ (pc' = "send" => cmd' = VersionRequest \/ (cmd' = c /\ c # VersionRequest))
  BY <1>1 DEF Inv, TypeOK, Call, AllCommands
<1>3. calls' \in 0 .. MaxCalls
  BY LinkAssumption DEF Inv, TypeOK, Call
<1>4. TypeOK'
  BY <1>1, <1>2, <1>3, EmptySeq DEF Inv, TypeOK
<1>5. Control'
  BY <1>1, <1>2 DEF Control
<1>6. Frames'
  BY <1>1 DEF Inv, Frames
<1>7. OwnStream' /\ GoodVersion' /\ InStep'
  BY <1>1 DEF Inv, OwnStream, GoodVersion, InStep
<1>8. OnlySupported'
  <2>1. pc' = "send" => cmd'.gate = 0
    BY <1>1 DEF Call, VersionRequest
  <2> QED  BY <1>1, <2>1 DEF OnlySupported
<1>9. OwnAnswer' /\ FramedAnswer'
  BY <1>1 DEF OwnAnswer, FramedAnswer
<1> QED  BY <1>4, <1>5, <1>6, <1>7, <1>8, <1>9 DEF Inv

\* What a call leaves behind when it ends in a failure, or is refused.
LEMMA InvReturn ==
  ASSUME Inv, NEW r \in {"unsupported", "io", "frozen", "invalid"}, Return(r, <<>>),
         pc \in {"gate", "send", "data", "cmp"},
         r = "unsupported" => pc = "gate" /\ wire' = wire /\ vers' = vers,
         serial' \in Nat, serial <= serial',
         wire' \in Seq(Units), Framed(wire', serial'), vers' \in Seq(Units)
  PROVE  Inv'
<1>1. /\ pc' = "idle" /\ result' = r /\ answer' = <<>> /\ got' = <<>> /\ zeros' = 0
      /\ cmd' = cmd /\ call' = call /\ calls' = calls
  BY DEF Return, callVars
<1>2. clean' = (clean /\ r = "unsupported")
  BY DEF Return
<1>3. TypeOK'
  <2>1. clean' \in BOOLEAN
    BY <1>2
  <2>2. zeros' \in 0 .. Retries - 1
    BY <1>1, LinkAssumption
  <2> QED  BY <1>1, <2>1, <2>2, EmptySeq DEF Inv, TypeOK
<1>4. Control' /\ OwnStream'
  BY <1>1 DEF Control, OwnStream
<1>5. Frames'
  BY <1>1 DEF Frames
<1>6. GoodVersion' /\ InStep'
  <2>1. clean' => clean /\ pc = "gate" /\ wire' = wire /\ vers' = vers
    BY <1>2
  <2> QED  BY <1>1, <2>1 DEF Inv, GoodVersion, InStep
<1>7. OwnAnswer' /\ FramedAnswer' /\ OnlySupported'
  BY <1>1 DEF OwnAnswer, FramedAnswer, OnlySupported
<1> QED  BY <1>3, <1>4, <1>5, <1>6, <1>7 DEF Inv

\* In step, what passes the gate is supported.
LEMMA InvGate == Inv /\ Gate => Inv'
<1> SUFFICES ASSUME Inv, Gate PROVE Inv'
  OBVIOUS
<1>1. pc = "gate" /\ serial' = serial /\ wire' = wire /\ vers' = vers /\ got = <<>>
  BY DEF Inv, Control, Gate
<1>2. CASE call = VersionRequest /\ Return("ok", vers)
  <2>1. /\ pc' = "idle" /\ answer' = vers /\ got' = <<>> /\ zeros' = 0
        /\ cmd' = cmd /\ call' = call /\ calls' = calls /\ result' = "ok"
    BY <1>2 DEF Return, callVars
  <2>2. clean' = clean
    BY <1>2 DEF Return, Inv, TypeOK
  <2>3. TypeOK'
    BY <1>1, <2>1, <2>2, LinkAssumption, EmptySeq DEF Inv, TypeOK
  <2>4. Control' /\ OwnStream'
    BY <2>1 DEF Control, OwnStream
  <2>5. Frames'
    BY <1>1, <2>1 DEF Inv, Frames
  <2>6. GoodVersion' /\ InStep'
    BY <1>1, <2>1, <2>2 DEF Inv, GoodVersion, InStep
  <2>7. OwnAnswer' /\ FramedAnswer' /\ OnlySupported'
    BY <1>2, <2>1 DEF OwnAnswer, FramedAnswer, OnlySupported
  <2> QED  BY <2>3, <2>4, <2>5, <2>6, <2>7 DEF Inv
<1>3. CASE /\ call # VersionRequest /\ TRUE \in Allowed
           /\ Goto("send") /\ cmd' = call /\ answer' = <<>> /\ UNCHANGED <<got, zeros>>
  <2>1. /\ pc' = "send" /\ answer' = <<>> /\ got' = got /\ zeros' = zeros
        /\ cmd' = call /\ call' = call /\ calls' = calls /\ result' = result /\ clean' = clean
    BY <1>3 DEF Goto, callVars
  <2>3. TypeOK'
    BY <1>1, <2>1, EmptySeq DEF Inv, TypeOK
  <2>4. Control' /\ OwnStream'
    BY <1>1, <1>3, <2>1 DEF Control, OwnStream
  <2>5. Frames'
    BY <1>1, <2>1 DEF Inv, Frames
  <2>6. GoodVersion' /\ InStep'
    BY <1>1, <2>1 DEF Inv, GoodVersion, InStep
  <2>7. OnlySupported'
    <3> SUFFICES ASSUME clean, call.gate # 0 PROVE call \in Supported
      BY <2>1 DEF OnlySupported
    <3>1. call.gate \in 1 .. 2
      BY CommandShape DEF Inv, TypeOK
    <3>2. ~(call.gate > Len(vers))
      BY <1>3 DEF Allowed
    <3>3. vers # <<>>
      BY <3>1, <3>2, EmptySeq
    <3>4. vers[call.gate].cmd = VersionRequest /\ vers[call.gate].k = call.gate
      BY <1>1, <3>1, <3>3 DEF Inv, GoodVersion
    <3>5. Allowed = {call \in Supported}
      BY <3>2, <3>4 DEF Allowed
    <3> QED  BY <1>3, <3>5
  <2>8. OwnAnswer' /\ FramedAnswer'
    BY <2>1 DEF OwnAnswer, FramedAnswer
  <2> QED  BY <2>3, <2>4, <2>5, <2>6, <2>7, <2>8 DEF Inv
<1>4. CASE call # VersionRequest /\ FALSE \in Allowed /\ Return("unsupported", <<>>)
  <2>1. serial' \in Nat /\ serial <= serial' /\ wire' \in Seq(Units) /\ vers' \in Seq(Units)
    BY <1>1 DEF Inv, TypeOK
  <2>2. Framed(wire', serial')
    BY <1>1 DEF Inv, Frames
  <2> QED  BY <1>1, <1>4, <2>1, <2>2, InvReturn
<1> QED  BY <1>2, <1>3, <1>4 DEF Gate

\* The answer is as long as it may be: in step, the wire was empty before it.
LEMMA InvSend == Inv /\ Send => Inv'
<1> SUFFICES ASSUME Inv, Send PROVE Inv'
  OBVIOUS
<1>1. /\ pc = "send" /\ serial' = serial + 1 /\ vers' = vers
      /\ cmd \in AllCommands /\ serial \in Nat /\ serial' \in Nat /\ wire \in Seq(Units)
      /\ answer = <<>> /\ got = <<>>
  BY DEF Inv, TypeOK, Control, Send
<1>2. PICK length \in 0 .. AnswerLength(cmd) : wire' = wire \o Part(cmd, serial', length)
  BY DEF Send
<1>3. /\ cmd.data \in Nat /\ cmd.cmp \in BOOLEAN /\ length \in Nat /\ AnswerLength(cmd) \in Nat
      /\ AnswerLength(cmd) = IF cmd.cmp THEN cmd.data + 2 ELSE cmd.data
  BY <1>1, CommandShape
<1>4. /\ Part(cmd, serial', length) \in Seq(Units)
      /\ Len(Part(cmd, serial', length)) = length
  BY <1>1, <1>3, PartProperties
<1>5. wire' \in Seq(Units) /\ Framed(wire', serial')
  <2>1. wire' \in Seq(Units)
    BY <1>1, <1>2, <1>4, ConcatProperties
  <2>2. Framed(wire \o Part(cmd, serial + 1, length), serial + 1)
    BY <1>1, <1>3, FramedSend DEF Inv, Frames
  <2> QED  BY <2>1, <2>2, <1>1, <1>2
<1>6. clean => wire' = Part(cmd, serial', length)
  BY <1>1, <1>2, <1>4, ConcatEmptySeq DEF Inv, InStep
<1>7. CASE /\ AnswerLength(cmd) > 0
           /\ Goto(IF cmd.data > 0 THEN "data" ELSE "cmp") /\ UNCHANGED <<cmd, got, zeros, answer>>
  <2>1. /\ pc' = IF cmd.data > 0 THEN "data" ELSE "cmp"
        /\ cmd' = cmd /\ call' = call /\ calls' = calls /\ result' = result /\ clean' = clean
        /\ got' = <<>> /\ answer' = <<>> /\ zeros' = zeros
    BY <1>1, <1>7 DEF Goto, callVars
  <2>2. TypeOK'
    BY <1>1, <1>5, <2>1, EmptySeq DEF Inv, TypeOK
  <2>3. Control'
    <3>1. cmd = VersionRequest \/ (cmd = call /\ call # VersionRequest)
      BY <1>1 DEF Inv, Control
    <3>2. CASE cmd.data > 0
      BY <1>3, <2>1, <3>1, <3>2, EmptySeq DEF Control
    <3>3. CASE ~(cmd.data > 0)
      <4>1. cmd.data = 0 /\ cmd.cmp
        BY <1>3, <1>7, <3>3
      <4> QED  BY <2>1, <3>1, <3>3, <4>1, EmptySeq DEF Control
    <3> QED  BY <3>2, <3>3
  <2>4. Stream' = wire'
    BY <1>5, <2>1, ConcatEmptySeq DEF Stream
  <2>5. Frames'
    BY <1>5, <2>4 DEF Frames
  <2>6. OwnStream'
    BY <1>6, <2>1, <2>4 DEF OwnStream
  <2>7. GoodVersion' /\ InStep'
    BY <1>1, <2>1 DEF Inv, GoodVersion, InStep
  <2>8. OnlySupported'
    BY <1>1, <2>1 DEF Inv, OnlySupported
  <2>9. OwnAnswer' /\ FramedAnswer'
    BY <2>1 DEF OwnAnswer, FramedAnswer
  <2> QED  BY <2>2, <2>3, <2>5, <2>6, <2>7, <2>8, <2>9 DEF Inv
<1>8. CASE AnswerLength(cmd) = 0 /\ Return("ok", <<>>)
  <2>1. /\ pc' = "idle" /\ result' = "ok" /\ answer' = <<>> /\ got' = <<>> /\ zeros' = 0
        /\ cmd' = cmd /\ call' = call /\ calls' = calls
    BY <1>8 DEF Return, callVars
  <2>2. clean' = clean
    BY <1>8 DEF Return, Inv, TypeOK
  <2>3. ~cmd.cmp /\ cmd.data = 0 /\ cmd = call
    <3>1. ~cmd.cmp /\ cmd.data = 0
      BY <1>3, <1>8
    <3> QED  BY <1>1, <3>1 DEF VersionRequest, Inv, Control
  <2>4. TypeOK'
    BY <1>1, <1>5, <2>1, <2>2, LinkAssumption, EmptySeq DEF Inv, TypeOK
  <2>5. Control' /\ OwnStream'
    BY <2>1 DEF Control, OwnStream
  <2>6. Frames'
    BY <1>5, <2>1 DEF Frames
  <2>7. InStep'
    <3>1. length = 0
      BY <1>3, <1>8
    <3> QED  BY <3>1, <1>4, <1>5, <1>6, <2>2, EmptySeq DEF InStep
  <2>8. GoodVersion'
    BY <1>1, <2>1, <2>2 DEF Inv, GoodVersion
  <2>9. OwnAnswer'
    <3>1. Data(cmd, serial') = <<>>
      BY <1>1, <2>3, DataProperties, EmptySeq
    <3> QED  BY <2>1, <2>3, <3>1 DEF OwnAnswer
  <2>10. FramedAnswer' /\ OnlySupported'
    BY <2>1, <2>3 DEF FramedAnswer, OnlySupported
  <2> QED  BY <2>4, <2>5, <2>6, <2>7, <2>8, <2>9, <2>10 DEF Inv
<1>9. CASE Return("io", <<>>)
  <2>1. vers' \in Seq(Units) /\ serial <= serial'
    BY <1>1 DEF Inv, TypeOK
  <2> QED  BY <1>1, <1>5, <1>9, <2>1, InvReturn
<1> QED  BY <1>7, <1>8, <1>9 DEF Send

\* An empty read changes nothing of the stream.
LEMMA InvReadNothing == Inv /\ ReadNothing => Inv'
<1> SUFFICES ASSUME Inv, ReadNothing PROVE Inv'
  OBVIOUS
<1>1. pc \in {"data", "cmp"} /\ serial' = serial /\ wire' = wire /\ vers' = vers
  BY DEF ReadNothing
<1>2. CASE /\ zeros + 1 < Retries
           /\ zeros' = zeros + 1 /\ Goto(pc) /\ UNCHANGED <<cmd, got, answer>>
  <2>1. /\ pc' = pc /\ cmd' = cmd /\ got' = got /\ answer' = answer
        /\ call' = call /\ calls' = calls /\ result' = result /\ clean' = clean
    BY <1>2 DEF Goto, callVars
  <2>2. zeros' \in 0 .. Retries - 1
    BY <1>2, LinkAssumption DEF Inv, TypeOK
  <2>3. TypeOK'
    BY <1>1, <2>1, <2>2 DEF Inv, TypeOK
  <2>4. Control'
    BY <2>1 DEF Inv, Control
  <2>5. Frames'
    BY <1>1, <2>1 DEF Inv, Frames, Stream
  <2>6. OwnStream'
    BY <1>1, <2>1 DEF Inv, OwnStream, Stream
  <2>7. GoodVersion' /\ InStep' /\ OnlySupported'
    BY <1>1, <2>1 DEF Inv, GoodVersion, InStep, OnlySupported
  <2>8. OwnAnswer' /\ FramedAnswer'
    BY <1>1, <2>1 DEF OwnAnswer, FramedAnswer
  <2> QED  BY <2>3, <2>4, <2>5, <2>6, <2>7, <2>8 DEF Inv
<1>3. CASE zeros + 1 = Retries /\ Return("frozen", <<>>)
  BY <1>1, <1>3, InvReturn DEF Inv, TypeOK, Frames
<1> QED  BY <1>2, <1>3 DEF ReadNothing

\* Nor does a read that fails.
LEMMA InvReadFails == Inv /\ ReadFails => Inv'
<1> SUFFICES ASSUME Inv, ReadFails PROVE Inv'
  OBVIOUS
<1>1. /\ pc \in {"data", "cmp"} /\ Return("io", <<>>)
      /\ serial' = serial /\ wire' = wire /\ vers' = vers
  BY DEF ReadFails
<1> QED  BY <1>1, InvReturn DEF Inv, TypeOK, Frames

\* A read that brings less than is wanted moves units from the wire to the host.
LEMMA InvReadPart ==
  ASSUME Inv, pc \in {"data", "cmp"},
         NEW units \in Seq(Units), Len(units) < Wanted, units \o wire' = got \o wire,
         wire' \in Seq(Units), Framed(wire', serial),
         vers' = IF pc = "data" /\ cmd = VersionRequest THEN units ELSE vers,
         serial' = serial, Goto(pc), got' = units, zeros' = 0, UNCHANGED <<cmd, answer>>
  PROVE  Inv'
<1>1. /\ pc' = pc /\ cmd' = cmd /\ answer' = answer
      /\ call' = call /\ calls' = calls /\ result' = result /\ clean' = clean
  BY DEF Goto, callVars
<1>2. Stream' = Stream
  BY <1>1 DEF Stream
<1>3. TypeOK'
  BY <1>1, LinkAssumption DEF Inv, TypeOK
<1>4. Control'
  BY <1>1 DEF Inv, Control, Wanted
<1>5. Frames'
  BY <1>1, <1>2 DEF Inv, Frames
<1>6. OwnStream'
  BY <1>1, <1>2 DEF Inv, OwnStream
<1>7. GoodVersion'
  BY <1>1 DEF Inv, GoodVersion
<1>8. InStep' /\ OnlySupported' /\ OwnAnswer' /\ FramedAnswer'
  BY <1>1 DEF Inv, InStep, OnlySupported, OwnAnswer, FramedAnswer
<1> QED  BY <1>3, <1>4, <1>5, <1>6, <1>7, <1>8 DEF Inv

(***************************************************************************)
(* In step, the first units of the stream are the start of the answer, and *)
(* when the whole answer has been read nothing is left.                    *)
(***************************************************************************)
LEMMA OwnUnits ==
  ASSUME Inv, clean, pc \in {"data", "cmp"},
         NEW head \in Seq(Units), NEW rest \in Seq(Units), Stream = head \o rest
  PROVE  /\ \A i \in 1 .. Len(head) : head[i] = [of |-> serial, cmd |-> cmd, k |-> i]
         /\ Len(head) = AnswerLength(cmd) => rest = <<>>
<1>1. PICK length \in 0 .. AnswerLength(cmd) : Stream = Part(cmd, serial, length)
  BY DEF Inv, OwnStream
<1>2. cmd \in AllCommands /\ serial \in Nat /\ AnswerLength(cmd) \in Nat /\ length \in Nat
  BY CommandShape DEF Inv, TypeOK
<1>3. /\ Len(Stream) = length
      /\ \A i \in 1 .. length : Stream[i] = [of |-> serial, cmd |-> cmd, k |-> i]
  <2>1. /\ Len(Part(cmd, serial, length)) = length
        /\ \A i \in 1 .. length :
             Part(cmd, serial, length)[i] = [of |-> serial, cmd |-> cmd, k |-> i]
    BY <1>2, PartProperties
  <2> QED  BY <2>1, <1>1
<1>4. /\ Len(Stream) = Len(head) + Len(rest)
      /\ \A i \in 1 .. Len(head) + Len(rest) :
           Stream[i] = IF i <= Len(head) THEN head[i] ELSE rest[i - Len(head)]
  BY ConcatProperties
<1>5. Len(head) \in Nat /\ Len(rest) \in Nat
  BY LenProperties
<1>6. ASSUME NEW i \in 1 .. Len(head)
      PROVE  head[i] = [of |-> serial, cmd |-> cmd, k |-> i]
  <2>1. i \in 1 .. length /\ i \in 1 .. Len(head) + Len(rest) /\ i <= Len(head)
    BY <1>3, <1>4, <1>5
  <2> QED  BY <2>1, <1>3, <1>4
<1>7. Len(head) = AnswerLength(cmd) => Len(rest) = 0
  BY <1>1, <1>2, <1>3, <1>4, <1>5
<1> QED  BY <1>6, <1>7, EmptySeq

\* With its data read, a command with a CMP goes on to read that.
LEMMA InvReadData ==
  ASSUME Inv, pc = "data", cmd.cmp,
         NEW units \in Seq(Units), Len(units) = cmd.data, units \o wire' = got \o wire,
         wire' \in Seq(Units), Framed(wire', serial),
         vers' = IF cmd = VersionRequest THEN units ELSE vers,
         serial' = serial,
         Goto("cmp"), answer' = units, got' = <<>>, zeros' = 0, UNCHANGED cmd
  PROVE  Inv'
<1>1. /\ pc' = "cmp" /\ cmd' = cmd
      /\ call' = call /\ calls' = calls /\ result' = result /\ clean' = clean
  BY DEF Goto, callVars
<1>2. answer = <<>> /\ got \in Seq(Units) /\ wire \in Seq(Units) /\ cmd \in AllCommands
  BY DEF Inv, TypeOK, Control
<1>3. Stream = units \o wire'
  BY <1>2, StreamEmpty DEF Stream
<1>4. Stream' = Stream
  BY <1>3, StreamEmpty DEF Stream
<1>5. TypeOK'
  BY <1>1, LinkAssumption, EmptySeq DEF Inv, TypeOK
<1>6. Control'
  BY <1>1, EmptySeq DEF Inv, Control
<1>7. Frames'
  BY <1>1, <1>4 DEF Inv, Frames
<1>8. OwnStream'
  BY <1>1, <1>4 DEF Inv, OwnStream
<1>9. GoodVersion'
  <2>1. CASE cmd = VersionRequest
    <3>1. vers' = units /\ Len(units) = 2
      BY <2>1 DEF VersionRequest
    <3>2. clean => \A i \in 1 .. Len(units) : units[i] = [of |-> serial, cmd |-> cmd, k |-> i]
      <4> SUFFICES ASSUME clean
                   PROVE  \A i \in 1 .. Len(units) : units[i] = [of |-> serial, cmd |-> cmd, k |-> i]
        OBVIOUS
      <4> QED  BY <1>3, OwnUnits
    <3>3. clean => \A k \in 1 .. 2 : units[k].cmd = VersionRequest /\ units[k].k = k
      <4> SUFFICES ASSUME clean, NEW k \in 1 .. 2
                   PROVE  units[k].cmd = VersionRequest /\ units[k].k = k
        OBVIOUS
      <4>1. units[k] = [of |-> serial, cmd |-> cmd, k |-> k]
        BY <3>1, <3>2
      <4> QED  BY <2>1, <4>1
    <3> QED  BY <1>1, <3>1, <3>3 DEF GoodVersion
  <2>2. CASE cmd # VersionRequest
    BY <1>1, <2>2 DEF Inv, GoodVersion
  <2> QED  BY <2>1, <2>2
<1>10. InStep' /\ OnlySupported'
  BY <1>1 DEF Inv, InStep, OnlySupported
<1>11. OwnAnswer' /\ FramedAnswer'
  BY <1>1 DEF OwnAnswer, FramedAnswer
<1> QED  BY <1>5, <1>6, <1>7, <1>8, <1>9, <1>10, <1>11 DEF Inv

\* A command without a CMP returns what it has read of data.
LEMMA InvReadBurst ==
  ASSUME Inv, pc = "data", ~cmd.cmp,
         NEW units \in Seq(Units), Len(units) = cmd.data, units \o wire' = got \o wire,
         wire' \in Seq(Units), Framed(wire', serial),
         vers' = IF cmd = VersionRequest THEN units ELSE vers,
         serial' = serial, Return("ok", units)
  PROVE  Inv'
<1>1. /\ pc' = "idle" /\ result' = "ok" /\ answer' = units /\ got' = <<>> /\ zeros' = 0
      /\ cmd' = cmd /\ call' = call /\ calls' = calls
  BY DEF Return, callVars
<1>2. clean' = clean
  BY DEF Return, Inv, TypeOK
<1>3. /\ answer = <<>> /\ got \in Seq(Units) /\ wire \in Seq(Units)
      /\ cmd \in AllCommands /\ serial \in Nat /\ cmd = call /\ vers' = vers
  BY DEF Inv, TypeOK, Control, VersionRequest
<1>4. Stream = units \o wire'
  BY <1>3, StreamEmpty DEF Stream
<1>5. AnswerLength(cmd) = cmd.data
  BY <1>3, CommandShape
<1>6. TypeOK'
  BY <1>1, <1>2, <1>3, LinkAssumption, EmptySeq DEF Inv, TypeOK
<1>7. Control' /\ OwnStream'
  BY <1>1 DEF Control, OwnStream
<1>8. Frames'
  BY <1>1 DEF Frames
<1>9. GoodVersion'
  BY <1>1, <1>2, <1>3 DEF Inv, GoodVersion, VersionRequest
<1>10. InStep'
  BY <1>2, <1>4, <1>5, OwnUnits DEF InStep
<1>11. OwnAnswer'
  <2>1. clean => \A i \in 1 .. Len(units) : units[i] = [of |-> serial, cmd |-> cmd, k |-> i]
    BY <1>4, OwnUnits
  <2>2. clean => \A i \in 1 .. Len(units) : units[i] = Data(cmd, serial)[i]
    BY <2>1 DEF Data, Part
  <2>3. Data(cmd, serial) \in Seq(Units) /\ Len(Data(cmd, serial)) = Len(units)
    BY <1>3, DataProperties
  <2>4. clean => units = Data(cmd, serial)
    BY <2>2, <2>3, SeqEqual
  <2> QED  BY <1>1, <1>2, <1>3, <2>4 DEF OwnAnswer
<1>12. FramedAnswer' /\ OnlySupported'
  BY <1>1, <1>3 DEF FramedAnswer, OnlySupported
<1> QED  BY <1>6, <1>7, <1>8, <1>9, <1>10, <1>11, <1>12 DEF Inv

\* When the CMP of the command under way has been read, so has its answer.
LEMMA CmpRead ==
  ASSUME Inv, pc = "cmp", NEW units \in Seq(Units), wire' \in Seq(Units)
  PROVE  Len(units) = 2 /\ units \o wire' = got \o wire
         => /\ clean => wire' = <<>> /\ answer = Data(cmd, serial)
            /\ CmpOk(units) => \E n \in 1 .. serial : answer = Data(cmd, n)
<1>1. cmd \in AllCommands /\ serial \in Nat /\ answer \in Seq(Units)
  BY DEF Inv, TypeOK
<1>2. \A s : s = answer \o (units \o wire') => CmpTells(cmd, serial, answer, units, wire', s)
  BY <1>1, CmpUnits
<1>3. ASSUME Len(units) = 2, units \o wire' = got \o wire
      PROVE  /\ clean => wire' = <<>> /\ answer = Data(cmd, serial)
             /\ CmpOk(units) => \E n \in 1 .. serial : answer = Data(cmd, n)
  <2>1. cmd.cmp /\ Len(answer) = cmd.data
    BY DEF Inv, Control
  <2>2. AnswerLength(cmd) = cmd.data + 2
    BY <1>1, <2>1, CommandShape
  <2>3. Stream = answer \o (units \o wire')
    BY <1>3 DEF Stream
  <2>4. /\ \A length \in 0 .. cmd.data + 2 :
              Stream = Part(cmd, serial, length) => wire' = <<>> /\ answer = Data(cmd, serial)
        /\ Framed(Stream, serial) /\ units[2].cmd = cmd /\ units[2].k = cmd.data + 2
              => \E n \in 1 .. serial : answer = Data(cmd, n)
    <3>1. CmpTells(cmd, serial, answer, units, wire', Stream)
      BY <1>2, <2>3
    <3> QED  BY <3>1, <1>3, <2>1 DEF CmpTells
  <2>5. clean => wire' = <<>> /\ answer = Data(cmd, serial)
    BY <2>2, <2>4 DEF Inv, OwnStream
  <2>6. CmpOk(units) => \E n \in 1 .. serial : answer = Data(cmd, n)
    BY <2>4 DEF CmpOk, Inv, Frames
  <2> QED  BY <2>5, <2>6
<1> QED  BY <1>3

\* After the CMP of a version request the cache is looked at.
LEMMA InvReadVersion ==
  ASSUME Inv, pc = "cmp", cmd = VersionRequest, NEW units \in Seq(Units),
         Len(units) = 2, units \o wire' = got \o wire,
         wire' \in Seq(Units), Framed(wire', serial), vers' = vers, serial' = serial,
         Goto("gate"), got' = <<>>, zeros' = 0, UNCHANGED <<cmd, answer>>
  PROVE  Inv'
<1>1. /\ pc' = "gate" /\ cmd' = cmd /\ answer' = answer
      /\ call' = call /\ calls' = calls /\ result' = result /\ clean' = clean
  BY DEF Goto, callVars
<1>2. TypeOK'
  BY <1>1, LinkAssumption, EmptySeq DEF Inv, TypeOK
<1>3. Control' /\ OwnStream'
  BY <1>1 DEF Control, OwnStream
<1>4. Frames'
  BY <1>1 DEF Frames
<1>5. GoodVersion'
  BY <1>1 DEF Inv, GoodVersion
<1>6. InStep'
  BY <1>1, CmpRead DEF InStep
<1>7. OnlySupported' /\ OwnAnswer' /\ FramedAnswer'
  BY <1>1 DEF OnlySupported, OwnAnswer, FramedAnswer
<1> QED  BY <1>2, <1>3, <1>4, <1>5, <1>6, <1>7 DEF Inv

\* After the CMP of any other command its data is returned.
LEMMA InvReadCmp ==
  ASSUME Inv, pc = "cmp", cmd # VersionRequest, NEW units \in Seq(Units), CmpOk(units),
         Len(units) = 2, units \o wire' = got \o wire,
         wire' \in Seq(Units), Framed(wire', serial), vers' = vers, serial' = serial,
         Return("ok", answer)
  PROVE  Inv'
<1>1. /\ pc' = "idle" /\ result' = "ok" /\ answer' = answer /\ got' = <<>> /\ zeros' = 0
      /\ cmd' = cmd /\ call' = call /\ calls' = calls
  BY DEF Return, callVars
<1>2. clean' = clean
  BY DEF Return, Inv, TypeOK
<1>3. cmd = call
  BY DEF Inv, Control
<1>4. TypeOK'
  BY <1>1, <1>2, LinkAssumption, EmptySeq DEF Inv, TypeOK
<1>5. Control' /\ OwnStream'
  BY <1>1 DEF Control, OwnStream
<1>6. Frames'
  BY <1>1 DEF Frames
<1>7. GoodVersion'
  BY <1>1, <1>2 DEF Inv, GoodVersion
<1>8. InStep' /\ OwnAnswer'
  BY <1>1, <1>2, <1>3, CmpRead DEF InStep, OwnAnswer
<1>9. FramedAnswer'
  BY <1>1, <1>3, CmpRead DEF FramedAnswer
<1>10. OnlySupported'
  BY <1>1 DEF OnlySupported
<1> QED  BY <1>4, <1>5, <1>6, <1>7, <1>8, <1>9, <1>10 DEF Inv

\* A read keeps the invariant, however many units it brings.
LEMMA InvRead == Inv /\ Read => Inv'
<1> SUFFICES ASSUME Inv, Read PROVE Inv'
  OBVIOUS
<1>1. pc \in {"data", "cmp"} /\ serial' = serial
  BY DEF Read
<1>2. PICK n \in 1 .. Len(wire) :
        /\ wire' = SubSeq(wire, n + 1, Len(wire))
        /\ vers' = IF pc = "data" /\ cmd = VersionRequest
                   THEN got \o SubSeq(wire, 1, n) ELSE vers
        /\ \/ /\ Len(got \o SubSeq(wire, 1, n)) < Wanted
              /\ Goto(pc) /\ got' = got \o SubSeq(wire, 1, n) /\ zeros' = 0
              /\ UNCHANGED <<cmd, answer>>
           \/ Len(got \o SubSeq(wire, 1, n)) = Wanted /\ ReadAll(got \o SubSeq(wire, 1, n))
  BY DEF Read
<1> DEFINE units == got \o SubSeq(wire, 1, n)
<1>3. got \in Seq(Units) /\ wire \in Seq(Units) /\ serial \in Nat /\ n \in 0 .. Len(wire)
  BY DEF Inv, TypeOK
<1>4. units \in Seq(Units) /\ wire' \in Seq(Units) /\ units \o wire' = got \o wire
  <2>1. /\ SubSeq(wire, 1, n) \in Seq(Units) /\ wire' \in Seq(Units)
        /\ SubSeq(wire, 1, n) \o wire' = wire
    BY <1>2, <1>3, Split
  <2>2. (got \o SubSeq(wire, 1, n)) \o wire' = got \o (SubSeq(wire, 1, n) \o wire')
    BY <1>3, <2>1, ConcatAssociative
  <2>3. units \in Seq(Units)
    BY <1>3, <2>1, ConcatProperties
  <2> QED  BY <2>1, <2>2, <2>3
<1>5. Framed(wire', serial)
  BY <1>2, <1>3, FramedDrop DEF Inv, Frames
<1>6. /\ vers' = IF pc = "data" /\ cmd = VersionRequest THEN units ELSE vers
      /\ \/ /\ Len(units) < Wanted
            /\ Goto(pc) /\ got' = units /\ zeros' = 0 /\ UNCHANGED <<cmd, answer>>
         \/ Len(units) = Wanted /\ ReadAll(units)
  BY <1>2
<1> HIDE DEF units
<1>7. CASE /\ Len(units) < Wanted
           /\ Goto(pc) /\ got' = units /\ zeros' = 0 /\ UNCHANGED <<cmd, answer>>
  BY <1>1, <1>4, <1>5, <1>6, <1>7, InvReadPart
<1>8. CASE Len(units) = Wanted /\ ReadAll(units)
  <2>1. CASE pc = "data"
    <3>1. Len(units) = cmd.data /\ vers' = IF cmd = VersionRequest THEN units ELSE vers
      BY <1>6, <1>8, <2>1 DEF Wanted
    <3>2. CASE /\ cmd.cmp /\ Goto("cmp") /\ answer' = units /\ got' = <<>> /\ zeros' = 0
               /\ UNCHANGED cmd
      BY <1>1, <1>4, <1>5, <2>1, <3>1, <3>2, InvReadData
    <3>3. CASE ~cmd.cmp /\ Return("ok", units)
      BY <1>1, <1>4, <1>5, <2>1, <3>1, <3>3, InvReadBurst
    <3> QED  BY <1>8, <2>1, <3>2, <3>3 DEF ReadAll
  <2>2. CASE pc = "cmp"
    <3>1. Len(units) = 2 /\ vers' = vers
      BY <1>6, <1>8, <2>2 DEF Wanted
    <3>2. CASE /\ CmpOk(units) /\ cmd = VersionRequest
               /\ Goto("gate") /\ got' = <<>> /\ zeros' = 0 /\ UNCHANGED <<cmd, answer>>
      BY <1>1, <1>4, <1>5, <2>2, <3>1, <3>2, InvReadVersion
    <3>3. CASE CmpOk(units) /\ cmd # VersionRequest /\ Return("ok", answer)
      BY <1>1, <1>4, <1>5, <2>2, <3>1, <3>3, InvReadCmp
    <3>4. CASE Return("invalid", <<>>)
      <4>1. vers' \in Seq(Units) /\ serial' \in Nat /\ serial <= serial' /\ Framed(wire', serial')
        BY <1>1, <1>3, <1>5, <3>1 DEF Inv, TypeOK
      <4> QED  BY <1>4, <2>2, <3>4, <4>1, InvReturn
    <3> QED  BY <1>8, <2>2, <3>2, <3>3, <3>4 DEF ReadAll
  <2> QED  BY <1>1, <2>1, <2>2
<1> QED  BY <1>6, <1>7, <1>8

\* Stuttering.
LEMMA InvStutter == Inv /\ UNCHANGED vars => Inv'
<1> SUFFICES ASSUME Inv, UNCHANGED vars PROVE Inv'
  OBVIOUS
<1>1. /\ pc' = pc /\ cmd' = cmd /\ serial' = serial /\ wire' = wire /\ got' = got
      /\ zeros' = zeros /\ vers' = vers /\ answer' = answer /\ result' = result
      /\ clean' = clean /\ call' = call /\ calls' = calls
  BY DEF vars, callVars
<1>2. TypeOK' /\ Control'
  BY <1>1 DEF Inv, TypeOK, Control
<1>3. Frames' /\ OwnStream'
  BY <1>1 DEF Inv, Frames, Framed, OwnStream, Stream
<1>4. GoodVersion' /\ InStep' /\ OnlySupported'
  BY <1>1 DEF Inv, GoodVersion, InStep, OnlySupported
<1>5. OwnAnswer' /\ FramedAnswer'
  BY <1>1 DEF Inv, OwnAnswer, FramedAnswer
<1> QED  BY <1>2, <1>3, <1>4, <1>5 DEF Inv

------------------------------------------------------------------------------
(* The theorems *)

\* The invariant is inductive.
THEOREM Invariance == Spec => []Inv
<1>1. Inv /\ [Next]_vars => Inv'
  <2> SUFFICES ASSUME Inv, [Next]_vars PROVE Inv'
    OBVIOUS
  <2>1. CASE Open
    BY <2>1, InvOpen
  <2>2. CASE Close
    BY <2>2, InvClose
  <2>3. CASE \E c \in AllCommands : Call(c)
    BY <2>3, InvCall
  <2>4. CASE Gate
    BY <2>4, InvGate
  <2>5. CASE Send
    BY <2>5, InvSend
  <2>6. CASE Read
    BY <2>6, InvRead
  <2>7. CASE ReadNothing
    BY <2>7, InvReadNothing
  <2>8. CASE ReadFails
    BY <2>8, InvReadFails
  <2>9. CASE UNCHANGED vars
    BY <2>9, InvStutter
  <2> QED  BY <2>1, <2>2, <2>3, <2>4, <2>5, <2>6, <2>7, <2>8, <2>9 DEF Next, Host
<1> QED  BY <1>1, InvInit, PTL DEF Spec

\* Every variable of the connection keeps its type, and empty reads are bounded.
THEOREM TypeCorrect == Spec => []TypeOK
<1>1. Inv => TypeOK
  BY DEF Inv
<1> QED  BY <1>1, Invariance, PTL

(***************************************************************************)
(* After any failures, restarts and late answers a command with a CMP that *)
(* succeeds returns the whole data of an answer to a command of its kind   *)
(* (drive64.go:230).                                                       *)
(***************************************************************************)
THEOREM AnswersFramed == Spec => []FramedAnswer
<1>1. Inv => FramedAnswer
  BY DEF Inv
<1> QED  BY <1>1, Invariance, PTL

\* As long as nothing fails, no call leaves anything of its answer behind.
THEOREM StaysInStep == Spec => []InStep
<1>1. Inv => InStep
  BY DEF Inv
<1> QED  BY <1>1, Invariance, PTL

\* And each call that succeeds returns the answer to its own command, not a late one.
THEOREM AnswersOwn == Spec => []OwnAnswer
<1>1. Inv => OwnAnswer
  BY DEF Inv
<1> QED  BY <1>1, Invariance, PTL

\* As long as no call has failed, no command is sent that the version does not allow.
THEOREM CommandsSupported == Spec => []OnlySupported
<1>1. Inv => OnlySupported
  BY DEF Inv
<1> QED  BY <1>1, Invariance, PTL

------------------------------------------------------------------------------
(* Every call comes to an end *)

\* What a call has still to do, part by part.
Stage ==
  CASE pc = "gate" -> 4
    [] pc = "send" -> IF cmd = VersionRequest THEN 7 ELSE 3
    [] pc = "data" -> IF cmd = VersionRequest THEN 6 ELSE 2
    [] pc = "cmp" -> IF cmd = VersionRequest THEN 5 ELSE 1
    [] OTHER -> 0

Missing == Wanted - Len(got)

Measure == <<Stage, Missing, Retries - zeros>>

\* One part of the measure gets smaller, and those before it stay.
Lowers ==
  \/ Stage' < Stage
  \/ Stage' = Stage /\ Missing' < Missing
  \/ Stage' = Stage /\ Missing' = Missing /\ zeros' = zeros + 1

\* What is missing of an answer, and the empty reads that are still allowed, are numbers.
LEMMA MeasureTyped == Inv => Measure \in Measures(3)
PROOF
<1> SUFFICES ASSUME Inv PROVE Measure \in Measures(3)
  OBVIOUS
<1>1. zeros \in 0 .. Retries - 1 /\ Retries \in Nat
  BY LinkAssumption DEF Inv, TypeOK
<1>2. cmd.data \in Nat /\ Len(got) \in Nat
  BY CommandShape, LenProperties DEF Inv, TypeOK
<1>3. Len(got) < Wanted \/ Len(got) = 0
  BY DEF Inv, Control, Wanted
<1>4. Wanted \in Nat
  BY <1>2 DEF Wanted
<1>5. Missing \in Nat
  BY <1>2, <1>3, <1>4 DEF Missing
<1>6. Stage \in Nat /\ Retries - zeros \in Nat
  BY <1>1 DEF Stage
<1> HIDE DEF Stage
<1> QED
  BY <1>5, <1>6 DEF Measures, Measure

\* The measure follows its parts.
LEMMA LowersMeasure ==
  ASSUME Inv, Lowers
  PROVE  Lower(Measure', Measure)
PROOF
<1> DEFINE m == Measure'
           n == Measure
<1>1. /\ DOMAIN n = 1 .. 3 /\ n[1] = Stage /\ n[2] = Missing /\ n[3] = Retries - zeros
      /\ m[1] = Stage' /\ m[2] = Missing' /\ m[3] = Retries - zeros'
  BY DEF Measure
<1>2. zeros \in Nat /\ Retries \in Nat
  BY LinkAssumption DEF Inv, TypeOK
<1> HIDE DEF m, n
<1>3. CASE Stage' = Stage /\ Missing' < Missing
  <2>1. m[2] < n[2] /\ \A j \in 1 .. 2 - 1 : m[j] = n[j]
    BY <1>1, <1>3
  <2> QED
    BY <1>1, <2>1 DEF Lower, m, n
<1>4. CASE Stage' = Stage /\ Missing' = Missing /\ zeros' = zeros + 1
  <2>1. m[3] < n[3]
    BY <1>1, <1>2, <1>4
  <2>2. m[3] < n[3] /\ \A j \in 1 .. 3 - 1 : m[j] = n[j]
    BY <1>1, <1>4, <2>1
  <2> QED
    BY <1>1, <2>2 DEF Lower, m, n
<1>5. CASE Stage' < Stage
  <2>1. m[1] < n[1] /\ \A j \in 1 .. 1 - 1 : m[j] = n[j]
    BY <1>1, <1>5
  <2> QED
    BY <1>1, <2>1 DEF Lower, m, n
<1> QED
  BY <1>3, <1>4, <1>5 DEF Lowers

\* A read that gets something gets nearer to the whole of it.
LEMMA ReadLowers ==
  ASSUME Inv, Read
  PROVE  Lowers
PROOF
<1>1. PICK n \in 1 .. Len(wire) :
        LET units == got \o SubSeq(wire, 1, n)
        IN  \/ Len(units) < Wanted /\ pc' = pc /\ cmd' = cmd /\ got' = units
            \/ Len(units) = Wanted /\ ReadAll(units)
  BY DEF Read, Goto
<1>2. PICK units \in Seq(Units) :
        /\ Len(units) = Len(got) + n
        /\ \/ Len(units) < Wanted /\ pc' = pc /\ cmd' = cmd /\ got' = units
           \/ ReadAll(units)
  <2>1. n \in 0 .. Len(wire) /\ wire \in Seq(Units) /\ got \in Seq(Units)
    BY DEF Inv, TypeOK
  <2>2. SubSeq(wire, 1, n) \in Seq(Units) /\ Len(SubSeq(wire, 1, n)) = n
    BY <2>1, Split
  <2>3. got \o SubSeq(wire, 1, n) \in Seq(Units)
        /\ Len(got \o SubSeq(wire, 1, n)) = Len(got) + n
    BY <2>1, <2>2, ConcatProperties
  <2> QED
    BY <1>1, <2>3
<1>3. pc \in {"data", "cmp"} /\ Stage \in 1 .. 6 /\ n \in Nat \ {0}
  BY DEF Read, Stage
<1>4. CASE Len(units) < Wanted /\ pc' = pc /\ cmd' = cmd /\ got' = units
  <2>1. Stage' = Stage /\ Wanted' = Wanted
    BY <1>4 DEF Stage, Wanted
  <2>2. Missing' = Wanted - Len(units) /\ Len(got) \in Nat /\ Wanted \in Nat
    BY <1>4, <2>1, CommandShape, LenProperties DEF Missing, Inv, TypeOK, Wanted
  <2>3. Missing' < Missing
    BY <1>2, <1>3, <2>2 DEF Missing
  <2> QED
    BY <2>1, <2>3 DEF Lowers
<1>5. CASE ReadAll(units)
  <2>1. \/ pc = "data" /\ pc' = "cmp" /\ cmd' = cmd
        \/ pc = "cmp" /\ pc' = "gate" /\ cmd = VersionRequest
        \/ pc' = "idle"
    BY <1>5 DEF ReadAll, Goto, Return
  <2>2. Stage' < Stage
    BY <1>3, <2>1 DEF Stage
  <2> QED
    BY <2>2 DEF Lowers
<1> QED
  BY <1>2, <1>4, <1>5

\* So do the other steps of a call: its next part, one empty read more, or its end.
LEMMA HostLowers ==
  ASSUME Inv, Host
  PROVE  Lowers
PROOF
<1>1. CASE Gate
  <2>1. pc = "gate" /\ (pc' = "idle" \/ (pc' = "send" /\ cmd' # VersionRequest))
    BY <1>1 DEF Gate, Goto, Return
  <2> QED
    BY <2>1 DEF Lowers, Stage
<1>2. CASE Send
  <2>1. pc = "send" /\ (pc' = "idle" \/ (pc' \in {"data", "cmp"} /\ cmd' = cmd))
    BY <1>2 DEF Send, Goto, Return
  <2> QED
    BY <2>1 DEF Lowers, Stage
<1>3. CASE Read
  BY <1>3, ReadLowers
<1>4. CASE ReadNothing
  <2>1. pc \in {"data", "cmp"}
        /\ (pc' = "idle" \/ (zeros' = zeros + 1 /\ UNCHANGED <<pc, cmd, got>>))
    BY <1>4 DEF ReadNothing, Goto, Return
  <2>2. CASE pc' = "idle"
    BY <2>1, <2>2 DEF Lowers, Stage
  <2>3. CASE zeros' = zeros + 1 /\ UNCHANGED <<pc, cmd, got>>
    <3>1. Stage' = Stage /\ Missing' = Missing
      BY <2>3 DEF Stage, Missing, Wanted
    <3> QED
      BY <2>3, <3>1 DEF Lowers
  <2> QED
    BY <2>1, <2>2, <2>3
<1>5. CASE ReadFails
  BY <1>5 DEF ReadFails, Return, Lowers, Stage
<1> QED
  BY <1>1, <1>2, <1>3, <1>4, <1>5 DEF Host

(***************************************************************************)
(* Every step that the host makes in a call, whatever it reads or does not *)
(* read, brings it nearer to its end in a well-founded order: SendCmd      *)
(* makes finitely many.                                                    *)
(***************************************************************************)
THEOREM CallsAdvance ==
  Spec => [](Measure \in Measures(3)) /\ [][Host => Lower(Measure', Measure)]_vars
PROOF
<1> DEFINE Counts == Measure \in Measures(3)
           Advance == Host => Lower(Measure', Measure)
<1>1. Inv => Counts
  BY MeasureTyped
<1>2. Inv /\ [Next]_vars => [Advance]_vars
  BY HostLowers, LowersMeasure
<1> HIDE DEF Counts, Advance
<1>3. Spec => []Counts /\ [][Advance]_vars
  BY <1>1, <1>2, Invariance, PTL DEF Spec
<1> QED
  BY <1>3 DEF Counts, Advance
=============================================================================
