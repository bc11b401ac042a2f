----------------------------- MODULE SessionProofs -----------------------------
(***************************************************************************)
(* What the commands in standalone mode promise, for any cart, device and  *)
(* chip, any options, and any number of commands, and that they get to     *)
(* their end.                                                              *)
(***************************************************************************)
EXTENDS Session, SequenceTheorems, TLAPS, Measures

JobType ==
  [cmd : Cmds, size : Int, address : 0 .. Space - 1, burst : Int, group : {1, 2}, offset : Int,
   length : Nat, device : Devices \cup {NoJob.device}]

\* Each command is at one of its own places.
Where ==
  /\ pc = "burst" => job.cmd = "download"
  /\ pc = "probe" => job.cmd = "probe"
  /\ pc \in {"info", "rtc", "nothing", "again"} => job.cmd = "siprobe"
  /\ pc \in {"new", "ask", "range", "access"} => job.cmd \notin {"download", "probe", "siprobe"}
  /\ pc \in {"idle", "version", "enter"} => out = <<>> /\ probed = <<>> /\ guess = 0 /\ counter = 0
  /\ pc \notin {"leave", "done"} => result = "none"

Types == TypeOK /\ job \in JobType /\ Where

\* The mode that the 64drive is in between two commands, and its freezing.
Mode ==
  /\ ~lost => ~frozen
  /\ ~lost /\ pc \in {"idle", "version", "enter", "done"} => ~standalone
  /\ pc = "again" => found \in job.device.knows \/ Misleading(job.device)

\* A device that can be identified, as far as the command has come.
Identifying ==
  /\ job.cmd = "siprobe" /\ ~hurt
  /\ job.device.id # NoDevice /\ job.device.knows # {} /\ ~Misleading(job.device)
  => /\ pc \in {"info", "rtc", "again"} => ~frozen
     /\ pc = "rtc" => 0 \notin job.device.knows
     /\ pc = "again" => found \in job.device.knows
     /\ pc # "nothing"
     /\ pc \in {"leave", "done"} => result = "ok" /\ id = job.device.id

\* The place of a download in its file and in the address space.
Downloading ==
  job.cmd = "download" =>
    /\ pc \in {"version", "enter", "burst"}
         => /\ left \in Nat /\ left = job.size - Len(out)
            /\ addr = (job.address + Len(out)) % Space
    /\ result = "ok" => Len(out) = job.size
    /\ DownloadExact

\* What counter and guess say of the words of a probe.
Repeats(words, k) == \A j \in 1 .. 5 : words[k + j] = words[k]
Counting ==
  pc = "probe" =>
    /\ guess = Len(probed) /\ counter \in 0 .. 4 /\ counter <= Len(probed)
    /\ \A k \in DOMAIN probed : probed[k] # Open
    /\ \A k \in 1 .. Len(probed) - 5 : ~Repeats(probed, k)
    /\ \A k \in DOMAIN probed : k >= Len(probed) - counter => probed[k] = LastData
    /\ counter = Len(probed) => LastData = Zero
    /\ counter + 1 < Len(probed) => probed[Len(probed) - counter - 1] # LastData

\* The guess of a probe that has found the end.
Guessed ==
  pc \in {"leave", "done"} /\ result = "ok" /\ job.cmd = "probe" /\ ~BeginsEmpty(probed)
    => guess = Min(RomEnds(probed))

Inv == Types /\ Mode /\ Identifying /\ Downloading /\ RequestInside /\ Counting /\ Guessed
------------------------------------------------------------------------------
(* Arithmetic *)

\* A remainder may be taken early.
LEMMA Wrapped ==
  ASSUME NEW a \in Nat, NEW b \in Nat, NEW n \in Nat \ {0}
  PROVE  a % n \in 0 .. n - 1 /\ ((a % n) + b) % n = (a + b) % n
PROOF
<1> DEFINE k == a \div n
           r == a % n
           l == (r + b) \div n
           q == (r + b) % n
<1>1. k \in Nat /\ r \in 0 .. n - 1 /\ a = n * k + r
  OBVIOUS
<1>2. r + b \in Nat
  BY <1>1
<1>3. l \in Nat /\ q \in 0 .. n - 1 /\ r + b = n * l + q
  <2> HIDE DEF r
  <2> QED
    BY <1>2
<1> HIDE DEF k, r, l, q
<1>4. a + b = n * (k + l) + q /\ k + l \in Nat
  <2>1. n * (k + l) = n * k + n * l
    BY <1>1, <1>3
  <2> QED
    BY <1>1, <1>3, <2>1
<1>5. \A m \in Nat : (n * m + q) % n = q
  BY <1>3
<1>6. (a + b) % n = q
  BY <1>4, <1>5
<1> QED
  BY <1>1, <1>6 DEF q, r

\* The least element of a set is its minimum.
LEMMA Least ==
  ASSUME NEW S \in SUBSET Int, NEW m \in S, \A x \in S : m <= x
  PROVE  Min(S) = m
PROOF
<1>1. \A x \in S : (\A y \in S : x <= y) <=> x = m
  OBVIOUS
<1>2. Min(S) = CHOOSE x \in S : \A y \in S : x <= y
  BY DEF Min
<1> QED
  BY <1>1, <1>2

\* The minimum of two numbers.
LEMMA LeastOfTwo ==
  ASSUME NEW a \in Int, NEW b \in Int
  PROVE  Min({a, b}) = IF a <= b THEN a ELSE b
PROOF
<1>1. CASE a <= b
  BY <1>1, Least
<1>2. CASE ~(a <= b)
  BY <1>2, Least
<1> QED
  BY <1>1, <1>2

\* A chunk of downloadPi is not longer than what is left.
LEMMA ChunkFits ==
  ASSUME job \in JobType, left \in Int, left > 0, job.burst >= 0
  PROVE  Chunk \in Nat /\ Chunk <= left
PROOF
<1>1. job.burst \in Int
  BY DEF JobType
<1> QED
  BY <1>1, LeastOfTwo DEF Chunk

\* A range of the FlashRAM is inside of the chip.
LEMMA SpanFits ==
  ASSUME job \in JobType, ~BadRange
  PROVE  /\ Span \in Nat \ {0} /\ job.offset + Span <= ChipSize
         /\ job.size > 0 => Span = Min({job.size, ChipSize - job.offset}) /\ Span <= job.size
PROOF
<1>1. job.size \in Nat /\ job.offset \in Nat /\ job.offset < ChipSize /\ ChipSize \in Nat
  BY SessionAssumption DEF JobType, BadRange
<1>2. Min({job.size, ChipSize - job.offset})
        = IF job.size <= ChipSize - job.offset THEN job.size ELSE ChipSize - job.offset
  BY <1>1, LeastOfTwo
<1> QED
  BY <1>1, <1>2 DEF Span

------------------------------------------------------------------------------
(* Types *)

\* The types of the command line's options.
LEMMA NoJobTyped == NoJob \in JobType
PROOF
<1>1. 0 \in 0 .. Space - 1
  BY SessionAssumption
<1> QED
  BY <1>1 DEF NoJob, JobType, Cmds

\* Every call has options of those types.
LEMMA JobTyped == ASSUME Calls PROVE \E j \in JobType : j.cmd # "none" /\ Call(j)
PROOF
<1>1. NoJob \in JobType
  BY NoJobTyped
<1>2. CASE \E size \in Sizes, address \in Addresses, burst \in Bursts, group \in {1, 2} :
             Call([NoJob EXCEPT !.cmd = "download", !.size = size, !.address = address,
                                !.burst = burst, !.group = group])
  <2>1. PICK size \in Sizes, address \in Addresses, burst \in Bursts, group \in {1, 2} :
             Call([NoJob EXCEPT !.cmd = "download", !.size = size, !.address = address,
                                !.burst = burst, !.group = group])
    BY <1>2
  <2>2. [NoJob EXCEPT !.cmd = "download", !.size = size, !.address = address,
                      !.burst = burst, !.group = group] \in JobType
    BY <1>1, SessionAssumption DEF JobType, Cmds
  <2>3. [NoJob EXCEPT !.cmd = "download", !.size = size, !.address = address,
                      !.burst = burst, !.group = group].cmd = "download"
    BY DEF NoJob
  <2> QED
    BY <2>1, <2>2, <2>3
<1>3. CASE \E device \in Devices : Call([NoJob EXCEPT !.cmd = "siprobe", !.device = device])
  <2>1. PICK device \in Devices : Call([NoJob EXCEPT !.cmd = "siprobe", !.device = device])
    BY <1>3
  <2>2. /\ [NoJob EXCEPT !.cmd = "siprobe", !.device = device] \in JobType
        /\ [NoJob EXCEPT !.cmd = "siprobe", !.device = device].cmd = "siprobe"
    BY <1>1, SessionAssumption DEF JobType, Cmds, NoJob
  <2> QED
    BY <2>1, <2>2
<1>4. CASE \E cmd \in {"probe", "siliconid", "status"} : Call([NoJob EXCEPT !.cmd = cmd])
  <2>1. PICK cmd \in {"probe", "siliconid", "status"} : Call([NoJob EXCEPT !.cmd = cmd])
    BY <1>4
  <2>2. [NoJob EXCEPT !.cmd = cmd] \in JobType /\ [NoJob EXCEPT !.cmd = cmd].cmd = cmd
    BY <1>1 DEF JobType, Cmds, NoJob
  <2> QED
    BY <2>1, <2>2
<1>5. CASE \E size \in Sizes \cup {0}, offset \in Offsets :
             Call([NoJob EXCEPT !.cmd = "read", !.size = size, !.offset = offset])
  <2>1. PICK size \in Sizes \cup {0}, offset \in Offsets :
             Call([NoJob EXCEPT !.cmd = "read", !.size = size, !.offset = offset])
    BY <1>5
  <2>2. /\ [NoJob EXCEPT !.cmd = "read", !.size = size, !.offset = offset] \in JobType
        /\ [NoJob EXCEPT !.cmd = "read", !.size = size, !.offset = offset].cmd = "read"
    BY <1>1, SessionAssumption DEF JobType, Cmds, NoJob
  <2> QED
    BY <2>1, <2>2
<1>6. CASE \E size \in Sizes \cup {0}, offset \in Offsets, length \in Files :
             Call([NoJob EXCEPT !.cmd = "write", !.size = size, !.offset = offset,
                                !.length = length])
  <2>1. PICK size \in Sizes \cup {0}, offset \in Offsets, length \in Files :
             Call([NoJob EXCEPT !.cmd = "write", !.size = size, !.offset = offset,
                                !.length = length])
    BY <1>6
  <2>2. /\ [NoJob EXCEPT !.cmd = "write", !.size = size, !.offset = offset,
                         !.length = length] \in JobType
        /\ [NoJob EXCEPT !.cmd = "write", !.size = size, !.offset = offset,
                         !.length = length].cmd = "write"
    BY <1>1, SessionAssumption DEF JobType, Cmds, NoJob
  <2> QED
    BY <2>1, <2>2
<1> QED
  BY <1>2, <1>3, <1>4, <1>5, <1>6 DEF Calls

\* What a device knows.
LEMMA KnownTyped == ASSUME Types PROVE job.device.knows \in SUBSET {0, 6}
PROOF
<1>1. job.device \in Devices \cup {NoJob.device}
  BY DEF Types, JobType
<1>2. NoJob.device.knows = {}
  BY DEF NoJob
<1> QED
  BY <1>1, <1>2, SessionAssumption

\* Every step keeps the types; counting bounds the guess.
LEMMA TypesKept ==
  ASSUME Types, Counting, [Next]_vars
  PROVE  Types'
PROOF
<1> USE DEF Types, TypeOK, Where, drive, command, transfer, probe, outcome
<1>1. CASE Calls
  <2>1. PICK j \in JobType : j.cmd # "none" /\ Call(j)
    BY <1>1, JobTyped
  <2>2. j.size \in Int /\ j.address \in 0 .. Space - 1 /\ j.cmd \in Cmds
    BY DEF JobType
  <2>3. calls' \in 0 .. MaxCalls /\ job' = j /\ left' \in Int /\ addr' \in 0 .. Space - 1
    BY <2>1, <2>2, SessionAssumption DEF Call
  <2>4. pc = "idle" /\ ((pc' = "version" /\ result' = "none") \/ (pc' = "done" /\ result' = "error"))
    BY <2>1 DEF Call
  <2>5. UNCHANGED <<drive, cancelled, hurt, lost, out, probe, outcome>>
    BY <2>1 DEF Call
  <2> QED
    BY <2>2, <2>3, <2>4, <2>5
<1>2. CASE Version
  BY <1>2 DEF Version, Goto
<1>3. CASE Enter
  BY <1>3 DEF Enter, Goto, Body, Lose
<1>4. CASE Leave
  BY <1>4 DEF Leave
<1>5. CASE Exit
  <2>1. NoJob \in JobType /\ 0 \in 0 .. Space - 1
    BY NoJobTyped, SessionAssumption
  <2>2. NoJob.cmd \in Cmds
    BY <2>1 DEF JobType
  <2>3. out' = <<>> /\ probed' = <<>> /\ <<>> \in Seq(0 .. Space - 1) /\ <<>> \in Seq(Words)
    BY <1>5 DEF Exit
  <2>4. left' \in Int /\ addr' \in 0 .. Space - 1 /\ guess' \in -1 .. Reads /\ counter' \in 0 .. 5
    BY <1>5, <2>1, SessionAssumption DEF Exit
  <2>5. /\ pc' = "idle" /\ result' = "none" /\ job' = NoJob /\ cancelled' = FALSE /\ hurt' = FALSE /\ found' = 0
        /\ guess' = 0 /\ counter' = 0 /\ UNCHANGED <<drive, calls, lost>>
    BY <1>5 DEF Exit
  <2> QED
    BY <2>1, <2>2, <2>3, <2>4, <2>5
<1>6. CASE ReadBurst
  <2>1. CASE out' = out \o [i \in 1 .. Chunk |-> (addr + i - 1) % Space]
                /\ addr' = Beyond(addr, Chunk) /\ left' = left - Chunk /\ pc' = "burst"
    <3>1. Chunk \in Nat
      BY <1>6, ChunkFits DEF ReadBurst
    <3>2. addr \in Nat /\ Space \in Nat \ {0} /\ left \in Int
      BY SessionAssumption
    <3>3. \A i \in 1 .. Chunk : (addr + i - 1) % Space \in 0 .. Space - 1
      BY <3>1, <3>2
    <3>4. [i \in 1 .. Chunk |-> (addr + i - 1) % Space] \in Seq(0 .. Space - 1)
      BY <3>1, <3>3
    <3>5. out' \in Seq(0 .. Space - 1)
      BY <2>1, <3>4, ConcatProperties
    <3>6. addr' \in 0 .. Space - 1 /\ left' \in Int
      BY <2>1, <3>1, <3>2 DEF Beyond
    <3> QED
      BY <1>6, <2>1, <3>5, <3>6 DEF ReadBurst, Goto, Return
  <2>2. CASE UNCHANGED transfer /\ pc' = "leave" /\ result' = "error"
    BY <1>6, <2>2 DEF ReadBurst, Goto, Return
  <2> QED
    BY <1>6, <2>1, <2>2 DEF ReadBurst, Goto, Return
<1>7. CASE Downloaded
  BY <1>7 DEF Downloaded, Return
<1>8. CASE ProbeRead
  <2>1. PICK data \in Words :
          /\ probed' = Append(probed, data)
          /\ \/ pc' = "leave" /\ result' = "ok" /\ UNCHANGED <<counter, guess>>
             \/ /\ counter' = (IF data = LastData THEN counter + 1 ELSE 0)
                /\ guess' = Count(IF data = LastData THEN counter + 1 ELSE 0)
                /\ IF (IF data = LastData THEN counter + 1 ELSE 0) >= 5
                     THEN pc' = "leave" /\ result' = "ok" ELSE pc' = "probe" /\ UNCHANGED result
    BY <1>8 DEF ProbeRead, Goto, Return
  <2>2. probed' \in Seq(Words)
    BY <2>1, AppendProperties
  <2>3. guess = Len(probed) /\ counter \in 0 .. 4 /\ counter <= Len(probed) /\ Len(probed) < Reads
    BY <1>8 DEF ProbeRead, Counting
  <2>4. Len(probed) \in Nat /\ Reads \in Nat
    BY SessionAssumption
  <2>5. counter' \in 0 .. 5 /\ guess' \in -1 .. Reads
    <3> DEFINE r == IF data = LastData THEN counter + 1 ELSE 0
               n == Len(probed)
    <3>1. r \in 0 .. 5 /\ (r = 5 => counter = 4)
      BY <2>3
    <3>2. \/ UNCHANGED <<counter, guess>>
          \/ counter' = r /\ guess' = IF r >= 5 THEN guess - 5 ELSE guess + 1
      BY <2>1 DEF Count
    <3>3. n \in Nat /\ Reads \in Nat /\ guess = n /\ counter \in 0 .. 4 /\ counter <= n /\ n < Reads
      BY <2>3, <2>4
    <3> HIDE DEF r, n
    <3> QED
      BY <3>1, <3>2, <3>3
  <2>6. pc = "probe" /\ UNCHANGED <<drive, cancelled, command, transfer, outcome>>
    BY <1>8 DEF ProbeRead
  <2>7. /\ (pc' = "leave" /\ result' = "ok") \/ (pc' = "probe" /\ result' = result)
        /\ UNCHANGED <<hurt, lost>>
    BY <1>8, <2>1 DEF ProbeRead, Goto, Return
  <2> QED
    BY <2>2, <2>5, <2>6, <2>7
<1>9. CASE ProbeEnd
  BY <1>9 DEF ProbeEnd, Return
<1>10. CASE Info
  BY <1>10 DEF Info, Goto, Reset, TimesOut, Ask
<1>11. CASE RtcInfo
  BY <1>11 DEF RtcInfo, Goto, Return, Reset, TimesOut, Ask
<1>12. CASE NothingFound
  BY <1>12 DEF NothingFound, Return
<1>13. CASE InfoAgain
  BY <1>13 DEF InfoAgain, Return, Lose
<1>14. CASE New
  BY <1>14 DEF New, Goto
<1>15. CASE AskChip
  BY <1>15 DEF AskChip, Return
<1>16. CASE ReadRange
  BY <1>16 DEF ReadRange, Goto, Return
<1>17. CASE WriteRange
  BY <1>17 DEF WriteRange, Goto, Return
<1>18. CASE Access
  BY <1>18 DEF Access, Return
<1>19. CASE BusFails
  BY <1>19 DEF BusFails, Fail
<1>20. CASE Interrupt
  BY <1>20 DEF Interrupt
<1>21. CASE Kill
  BY <1>21 DEF Kill, Lose
<1>22. CASE UNCHANGED vars
  BY <1>22 DEF vars
<1> QED
  BY <1>1, <1>2, <1>3, <1>4, <1>5, <1>6, <1>7, <1>8, <1>9, <1>10, <1>11, <1>12, <1>13, <1>14,
     <1>15, <1>16, <1>17, <1>18, <1>19, <1>20, <1>21, <1>22 DEF Next, Host

------------------------------------------------------------------------------
(* The mode of the 64drive, and what freezes it *)

\* No step forgets a 64drive in standalone mode, or frozen.
LEMMA ModeKept ==
  ASSUME Types, Mode, [Next]_vars
  PROVE  Mode'
PROOF
<1> USE DEF Types, TypeOK, Mode, drive, command, transfer, probe, outcome
<1>1. CASE Calls
  <2>1. PICK j \in JobType : j.cmd # "none" /\ Call(j)
    BY <1>1, JobTyped
  <2> QED
    BY <2>1 DEF Call
<1>2. CASE Version
  BY <1>2 DEF Version, Goto
<1>3. CASE Enter
  BY <1>3 DEF Enter, Goto, Body, Lose
<1>4. CASE Leave
  BY <1>4 DEF Leave
<1>5. CASE Exit
  BY <1>5 DEF Exit, NoRequest
<1>6. CASE ReadBurst
  BY <1>6 DEF ReadBurst, Goto, Return
<1>7. CASE Downloaded
  BY <1>7 DEF Downloaded, Return
<1>8. CASE ProbeRead
  BY <1>8 DEF ProbeRead, Goto, Return
<1>9. CASE ProbeEnd
  BY <1>9 DEF ProbeEnd, Return
<1>10. CASE Info
  BY <1>10 DEF Info, Goto, Reset, TimesOut, Ask, Answers
<1>11. CASE RtcInfo
  <2>1. job.device.knows \in SUBSET {0, 6} /\ job' = job
    BY <1>11, KnownTyped DEF RtcInfo
  <2>2. pc' = "again" => found' \in job.device.knows \/ Misleading(job.device)
    <3>1. SUFFICES ASSUME pc' = "again" PROVE found' \in job.device.knows \/ Misleading(job.device)
      OBVIOUS
    <3>2. 6 \in job.device.knows /\ found' = IF job.device.id = RtcId THEN 6 ELSE 0
      BY <1>11, <3>1 DEF RtcInfo, Goto, Return, Reset, TimesOut, Ask, Answers
    <3>3. 0 \notin job.device.knows => job.device.knows = {6}
      BY <2>1, <3>2
    <3> QED
      BY <3>2, <3>3 DEF Misleading
  <2>3. ~lost' => ~frozen'
    BY <1>11 DEF RtcInfo, Goto, Return, Reset, TimesOut
  <2>4. pc' \in {"again", "leave", "nothing"}
    BY <1>11 DEF RtcInfo, Goto, Return, Reset, TimesOut
  <2> QED
    BY <2>1, <2>2, <2>3, <2>4
<1>12. CASE NothingFound
  BY <1>12 DEF NothingFound, Return
<1>13. CASE InfoAgain
  <2>1. pc' = "leave"
    BY <1>13 DEF InfoAgain, Return
  <2>2. CASE Answers(found)
    BY <1>13, <2>1, <2>2 DEF InfoAgain, Return, Answers
  <2>3. CASE ~Answers(found)
    <3>1. lost' = (lost \/ Misleading(job.device))
      BY <1>13, <2>3 DEF InfoAgain, Lose
    <3>2. lost \/ Misleading(job.device)
      BY <1>13, <2>3 DEF InfoAgain, Answers
    <3> QED
      BY <2>1, <3>1, <3>2
  <2> QED
    BY <2>2, <2>3
<1>14. CASE New
  BY <1>14 DEF New, Goto
<1>15. CASE AskChip
  BY <1>15 DEF AskChip, Return
<1>16. CASE ReadRange
  BY <1>16 DEF ReadRange, Goto, Return
<1>17. CASE WriteRange
  BY <1>17 DEF WriteRange, Goto, Return
<1>18. CASE Access
  BY <1>18 DEF Access, Return
<1>19. CASE BusFails
  BY <1>19 DEF BusFails, Fail
<1>20. CASE Interrupt
  BY <1>20 DEF Interrupt
<1>21. CASE Kill
  BY <1>21 DEF Kill, Lose
<1>22. CASE UNCHANGED vars
  BY <1>22 DEF vars
<1> QED
  BY <1>1, <1>2, <1>3, <1>4, <1>5, <1>6, <1>7, <1>8, <1>9, <1>10, <1>11, <1>12, <1>13, <1>14,
     <1>15, <1>16, <1>17, <1>18, <1>19, <1>20, <1>21, <1>22 DEF Next, Host

\* What a probe of a joybus device has come to.
LEMMA IdentifyingKept ==
  ASSUME Types, Identifying, [Next]_vars
  PROVE  Identifying'
PROOF
<1> USE DEF Types, TypeOK, Where, Identifying, drive, command, transfer, probe, outcome
<1>1. CASE Calls
  <2>1. PICK j \in JobType : j.cmd # "none" /\ Call(j)
    BY <1>1, JobTyped
  <2> QED
    BY <2>1 DEF Call
<1>2. CASE Version
  BY <1>2 DEF Version, Goto
<1>3. CASE Enter
  BY <1>3 DEF Enter, Goto, Body, Lose
<1>4. CASE Leave
  BY <1>4 DEF Leave
<1>5. CASE Exit
  BY <1>5 DEF Exit, NoRequest, NoJob
<1>6. CASE ReadBurst
  BY <1>6 DEF ReadBurst, Goto, Return
<1>7. CASE Downloaded
  BY <1>7 DEF Downloaded, Return
<1>8. CASE ProbeRead
  BY <1>8 DEF ProbeRead, Goto, Return
<1>9. CASE ProbeEnd
  BY <1>9 DEF ProbeEnd, Return
<1>10. CASE Info
  BY <1>10 DEF Info, Goto, Reset, TimesOut, Ask, Answers, Misleading
<1>11. CASE RtcInfo
  <2>1. job.device.knows \in SUBSET {0, 6}
    BY KnownTyped
  <2> DEFINE good == /\ job.cmd = "siprobe" /\ ~hurt
                     /\ job.device.id # NoDevice /\ job.device.knows # {}
                     /\ ~Misleading(job.device)
  <2>2. ~hurt' /\ job' = job => ~hurt
    BY <1>11 DEF RtcInfo, Goto, Return, Reset, TimesOut
  <2>3. good => ~frozen /\ job.device.knows = {6} /\ job.device.id = RtcId
    BY <1>11, <2>1 DEF RtcInfo, Misleading
  <2>4. good => Answers(6)
    BY <2>3 DEF Answers
  <2>5. good => \/ pc' = "again" /\ found' = 6 /\ frozen' = frozen
                \/ hurt'
    BY <1>11, <2>3, <2>4 DEF RtcInfo, Goto, Return, Reset, TimesOut, Ask
  <2> QED
    BY <1>11, <2>2, <2>3, <2>5 DEF RtcInfo
<1>12. CASE NothingFound
  BY <1>12 DEF NothingFound, Return
<1>13. CASE InfoAgain
  BY <1>13 DEF InfoAgain, Return, Lose, Answers
<1>14. CASE New
  BY <1>14 DEF New, Goto
<1>15. CASE AskChip
  BY <1>15 DEF AskChip, Return
<1>16. CASE ReadRange
  BY <1>16 DEF ReadRange, Goto, Return
<1>17. CASE WriteRange
  BY <1>17 DEF WriteRange, Goto, Return
<1>18. CASE Access
  BY <1>18 DEF Access, Return
<1>19. CASE BusFails
  BY <1>19 DEF BusFails, Fail
<1>20. CASE Interrupt
  BY <1>20 DEF Interrupt
<1>21. CASE Kill
  BY <1>21 DEF Kill, Lose
<1>22. CASE UNCHANGED vars
  BY <1>22 DEF vars
<1> QED
  BY <1>1, <1>2, <1>3, <1>4, <1>5, <1>6, <1>7, <1>8, <1>9, <1>10, <1>11, <1>12, <1>13, <1>14,
     <1>15, <1>16, <1>17, <1>18, <1>19, <1>20, <1>21, <1>22 DEF Next, Host

------------------------------------------------------------------------------
(* The range of a read or a write *)

\* The range of a request is inside of the chip from its beginning.
LEMMA RequestKept ==
  ASSUME Types, RequestInside, [Next]_vars
  PROVE  RequestInside'
PROOF
<1> USE DEF RequestInside, command, outcome
<1>1. CASE Calls
  <2>1. PICK j \in JobType : j.cmd # "none" /\ Call(j)
    BY <1>1, JobTyped
  <2> QED
    BY <2>1 DEF Call
<1>2. CASE Version
  BY <1>2 DEF Version, Goto
<1>3. CASE Enter
  BY <1>3 DEF Enter, Goto, Body, Lose
<1>4. CASE Leave
  BY <1>4 DEF Leave
<1>5. CASE Exit
  BY <1>5 DEF Exit, NoRequest
<1>6. CASE ReadBurst
  BY <1>6 DEF ReadBurst, Goto, Return
<1>7. CASE Downloaded
  BY <1>7 DEF Downloaded, Return
<1>8. CASE ProbeRead
  BY <1>8 DEF ProbeRead, Goto, Return
<1>9. CASE ProbeEnd
  BY <1>9 DEF ProbeEnd, Return
<1>10. CASE Info
  BY <1>10 DEF Info, Goto, Reset, TimesOut, Ask
<1>11. CASE RtcInfo
  BY <1>11 DEF RtcInfo, Goto, Return, Reset, TimesOut, Ask
<1>12. CASE NothingFound
  BY <1>12 DEF NothingFound, Return
<1>13. CASE InfoAgain
  BY <1>13 DEF InfoAgain, Return, Lose
<1>14. CASE New
  BY <1>14 DEF New, Goto
<1>15. CASE AskChip
  BY <1>15 DEF AskChip, Return
<1>16. CASE ReadRange
  <2>1. CASE Return("error")
    BY <2>1 DEF Return
  <2>2. CASE ~BadRange /\ pc' = "access"
    <3>1. /\ Span \in Nat \ {0} /\ job.offset + Span <= ChipSize
          /\ job.size > 0 => Span = Min({job.size, ChipSize - job.offset})
      BY <2>2, SpanFits DEF Types
    <3>2. request' = [offset |-> job.offset, data |-> [i \in 1 .. Span |-> Zero]]
      BY <1>16, <2>2 DEF ReadRange, Return, Goto
    <3>3. Len(request'.data) = Span /\ request'.data # <<>> /\ request'.offset = job.offset
      BY <3>1, <3>2
    <3>4. job' = job /\ job.cmd = "read"
      BY <1>16 DEF ReadRange, command
    <3> QED
      BY <3>1, <3>3, <3>4
  <2> QED
    BY <1>16, <2>1, <2>2 DEF ReadRange, Goto
<1>17. CASE WriteRange
  <2>1. PICK read \in 0 .. Min({job.length, ChipSize}) :
          \/ Return("error") \/ Return("panic")
          \/ /\ ~BadRange /\ job.size <= read /\ Goto("access")
             /\ request' = [offset |-> job.offset,
                            data |-> [i \in 1 .. Span |-> IF i <= read THEN "file" ELSE Zero]]
    BY <1>17 DEF WriteRange
  <2>2. CASE Return("error") \/ Return("panic")
    BY <2>2 DEF Return
  <2>3. CASE /\ ~BadRange /\ job.size <= read
             /\ request' = [offset |-> job.offset,
                            data |-> [i \in 1 .. Span |-> IF i <= read THEN "file" ELSE Zero]]
    <3>1. /\ Span \in Nat \ {0} /\ job.offset + Span <= ChipSize
          /\ job.size > 0 => Span = Min({job.size, ChipSize - job.offset}) /\ Span <= job.size
      BY <2>3, SpanFits DEF Types
    <3>2. /\ Len(request'.data) = Span /\ request'.data # <<>> /\ request'.offset = job.offset
          /\ DOMAIN request'.data = 1 .. Span
          /\ \A i \in 1 .. Span : i <= read => request'.data[i] = "file"
      BY <2>3, <3>1
    <3>3. job' = job /\ job.size \in Int /\ read \in Int
      BY <1>17 DEF WriteRange, command, Types, JobType
    <3>4. job.size > 0 => \A i \in 1 .. Span : i <= read
      BY <2>3, <3>1, <3>3
    <3> QED
      BY <3>1, <3>2, <3>3, <3>4
  <2> QED
    BY <2>1, <2>2, <2>3
<1>18. CASE Access
  BY <1>18 DEF Access, Return
<1>19. CASE BusFails
  BY <1>19 DEF BusFails, Fail
<1>20. CASE Interrupt
  BY <1>20 DEF Interrupt
<1>21. CASE Kill
  BY <1>21 DEF Kill, Lose
<1>22. CASE UNCHANGED vars
  BY <1>22 DEF vars
<1> QED
  BY <1>1, <1>2, <1>3, <1>4, <1>5, <1>6, <1>7, <1>8, <1>9, <1>10, <1>11, <1>12, <1>13, <1>14,
     <1>15, <1>16, <1>17, <1>18, <1>19, <1>20, <1>21, <1>22 DEF Next, Host

------------------------------------------------------------------------------
(* The units of a download *)

\* Every burst adds the units that follow, and nothing else does.
LEMMA DownloadingKept ==
  ASSUME Types, Downloading, [Next]_vars
  PROVE  Downloading'
PROOF
<1>1. CASE Calls
  <2>1. PICK j \in JobType : j.cmd # "none" /\ Call(j)
    BY <1>1, JobTyped
  <2>2. j.size \in Int /\ (j.address + 0) % Space = j.address
    <3>1. j.size \in Int /\ j.address \in 0 .. Space - 1 /\ Space \in Nat \ {0}
      BY SessionAssumption DEF JobType
    <3> QED
      BY <3>1
  <2>3. /\ out' = <<>> /\ Len(out') = 0 /\ left' = j.size /\ addr' = j.address /\ job' = j
        /\ \/ j.cmd # "download"
           \/ j.size < 0 /\ pc' = "done" /\ result' = "error"
           \/ j.size \in Nat /\ pc' = "version" /\ result' = "none"
    BY <2>1, <2>2 DEF Call, Types, Where
  <2> QED
    BY <2>2, <2>3 DEF Downloading, DownloadExact
<1>2. CASE Version
  BY <1>2 DEF Version, Goto, Types, TypeOK, Where, Downloading, DownloadExact, command, transfer
<1>3. CASE Enter
  BY <1>3 DEF Enter, Goto, Body, Lose, Types, TypeOK, Where, Downloading, DownloadExact,
     command, transfer
<1>4. CASE Leave
  BY <1>4 DEF Leave, Types, TypeOK, Where, Downloading, DownloadExact, command, transfer
<1>5. CASE Exit
  BY <1>5 DEF Exit, NoRequest, NoJob, Types, TypeOK, Where, Downloading, DownloadExact,
     command, transfer
<1>6. CASE ReadBurst
  <2>1. /\ pc = "burst" /\ job.cmd = "download" /\ job' = job /\ job.size \in Int
        /\ job.address \in Nat /\ Space \in Nat \ {0} /\ out \in Seq(Int) /\ Len(out) \in Nat
        /\ left > 0 /\ left \in Nat /\ left = job.size - Len(out) /\ job.burst >= 0 /\ job \in JobType
        /\ addr = (job.address + Len(out)) % Space /\ addr \in Nat /\ result = "none"
    <3>1. pc = "burst" /\ job' = job /\ left > 0 /\ job.burst >= 0 /\ job.cmd = "download" /\ job \in JobType
          /\ result = "none"
      BY <1>6 DEF ReadBurst, command, Types, Where
    <3>2. job.size \in Int /\ job.address \in Nat /\ Space \in Nat \ {0}
      BY <3>1, SessionAssumption DEF JobType
    <3>3. out \in Seq(Int) /\ Len(out) \in Nat /\ addr \in Nat
      <4>1. out \in Seq(0 .. Space - 1) /\ addr \in 0 .. Space - 1
        BY DEF Types, TypeOK
      <4> QED
        BY <3>2, <4>1
    <3>4. left \in Nat /\ left = job.size - Len(out) /\ addr = (job.address + Len(out)) % Space
      BY <3>1 DEF Downloading
    <3> QED
      BY <3>1, <3>2, <3>3, <3>4
  <2>0. \A i \in DOMAIN out : out[i] = (job.address + i - 1) % Space
    BY <2>1 DEF Downloading, DownloadExact
  <2>2. CASE /\ out' = out \o [i \in 1 .. Chunk |-> (addr + i - 1) % Space]
             /\ addr' = Beyond(addr, Chunk) /\ left' = left - Chunk /\ pc' = "burst" /\ result' = "none"
    <3>1. Chunk \in Nat /\ Chunk <= left
      BY <2>1, ChunkFits
    <3>2. \A b \in Nat : (addr + b) % Space = (job.address + Len(out) + b) % Space
      <4>1. job.address + Len(out) \in Nat
        BY <2>1
      <4> QED
        BY <2>1, <4>1, Wrapped
    <3>3. addr' = (job.address + Len(out) + Chunk) % Space
      BY <2>2, <3>1, <3>2 DEF Beyond
    <3>4. \A i \in 1 .. Chunk : (addr + i - 1) % Space = (job.address + (Len(out) + i) - 1) % Space
      <4> SUFFICES ASSUME NEW i \in 1 .. Chunk
                   PROVE  (addr + i - 1) % Space = (job.address + (Len(out) + i) - 1) % Space
        OBVIOUS
      <4>1. i - 1 \in Nat /\ addr \in Nat
        BY <2>1, <3>1
      <4>2. (addr + (i - 1)) % Space = (job.address + Len(out) + (i - 1)) % Space
        BY <3>2, <4>1
      <4>3. /\ addr + (i - 1) = addr + i - 1
            /\ job.address + Len(out) + (i - 1) = job.address + (Len(out) + i) - 1
        BY <2>1, <3>1, <4>1
      <4> QED
        BY <4>2, <4>3
    <3> DEFINE more == [i \in 1 .. Chunk |-> (addr + i - 1) % Space]
    <3>5. Len(more) = Chunk /\ \A i \in 1 .. Chunk : more[i] = (job.address + (Len(out) + i) - 1) % Space
      BY <3>1, <3>4
    <3>6. more \in Seq(Int)
      <4>1. \A i \in 1 .. Chunk : (addr + i - 1) % Space \in Int
        BY <2>1, <3>1
      <4> QED
        BY <3>1, <4>1
    <3>7. out \in Seq(Int)
      BY <2>1
    <3> HIDE DEF more
    <3>8. /\ Len(out') = Len(out) + Chunk
          /\ \A i \in 1 .. Len(out) : out'[i] = out[i]
          /\ \A i \in Len(out) + 1 .. Len(out) + Chunk : out'[i] = more[i - Len(out)]
          /\ DOMAIN out' = 1 .. Len(out')
      <4>1. out' = out \o more
        BY <2>2 DEF more
      <4>2. /\ Len(out \o more) = Len(out) + Len(more)
            /\ \A i \in 1 .. Len(out) + Len(more) :
                 (out \o more)[i] = IF i <= Len(out) THEN out[i] ELSE more[i - Len(out)]
        BY <3>6, <3>7, ConcatProperties
      <4>3. out' \in Seq(Int)
        BY <3>6, <3>7, <4>1, ConcatProperties
      <4>4. Len(out') = Len(out) + Chunk /\ DOMAIN out' = 1 .. Len(out')
        BY <3>5, <4>1, <4>2, <4>3
      <4>5. \A i \in 1 .. Len(out) : i \in 1 .. Len(out) + Chunk /\ i <= Len(out)
        BY <2>1, <3>1
      <4>6. \A i \in Len(out) + 1 .. Len(out) + Chunk :
              i \in 1 .. Len(out) + Chunk /\ ~(i <= Len(out))
        BY <2>1, <3>1
      <4> QED
        BY <3>5, <4>1, <4>2, <4>4, <4>5, <4>6
    <3>9. \A i \in DOMAIN out' : out'[i] = (job.address + i - 1) % Space
      <4> SUFFICES ASSUME NEW i \in 1 .. Len(out) + Chunk
                   PROVE  out'[i] = (job.address + i - 1) % Space
        BY <3>8
      <4>1. CASE i <= Len(out)
        <5>1. i \in DOMAIN out
          BY <2>1, <4>1
        <5> QED
          BY <2>0, <2>1, <3>8, <5>1, <4>1
      <4>2. CASE i > Len(out)
        <5>1. i - Len(out) \in 1 .. Chunk /\ Len(out) + (i - Len(out)) = i
          BY <2>1, <3>1, <4>2
        <5>2. i \in Len(out) + 1 .. Len(out) + Chunk
          BY <2>1, <3>1, <4>2
        <5>3. more[i - Len(out)] = (job.address + (Len(out) + (i - Len(out))) - 1) % Space
          BY <3>5, <5>1
        <5> QED
          BY <3>8, <5>1, <5>2, <5>3
      <4> QED
        BY <2>1, <4>1, <4>2
    <3>10. left' \in Nat /\ left' = job.size - Len(out')
      <4>1. left \in Nat /\ left = job.size - Len(out) /\ job.size \in Int /\ Len(out) \in Nat
        BY <2>1
      <4>2. left' = left - Chunk /\ Len(out') = Len(out) + Chunk
        BY <2>2, <3>8
      <4> QED
        BY <3>1, <4>1, <4>2
    <3>11. addr' = (job.address + Len(out')) % Space
      <4>1. job.address + Len(out') = job.address + Len(out) + Chunk
        BY <2>1, <3>1, <3>8
      <4> QED
        BY <3>3, <4>1
    <3>12. Len(out') <= job.size
      BY <2>1, <3>1, <3>8
    <3> QED
      BY <2>1, <2>2, <3>9, <3>10, <3>11, <3>12 DEF Downloading, DownloadExact
  <2>3. CASE UNCHANGED transfer /\ Return("error")
    <3>1. pc' = "leave" /\ result' = "error" /\ UNCHANGED <<out, left, addr, job>>
      BY <2>1, <2>3 DEF Return, transfer
    <3> QED
      BY <2>0, <2>1, <3>1 DEF Downloading, DownloadExact
  <2> QED
    BY <1>6, <2>1, <2>2, <2>3 DEF ReadBurst, Goto
<1>7. CASE Downloaded
  <2>1. /\ pc = "burst" /\ job.cmd = "download" /\ pc' = "leave" /\ UNCHANGED <<job, out, left, addr>>
        /\ result' = "ok" => left <= 0
    BY <1>7 DEF Downloaded, Return, command, transfer, Types, Where
  <2>2. left \in Nat /\ left = job.size - Len(out)
    BY <2>1 DEF Downloading
  <2>3. job.size \in Int /\ Len(out) \in Nat
    BY DEF Types, TypeOK, JobType
  <2>4. result' = "ok" => Len(out) = job.size
    BY <2>1, <2>2, <2>3
  <2> QED
    BY <2>1, <2>4 DEF Downloading, DownloadExact
<1>8. CASE ProbeRead
  BY <1>8 DEF ProbeRead, Goto, Return, Types, TypeOK, Where, Downloading, DownloadExact,
     command, transfer
<1>9. CASE ProbeEnd
  BY <1>9 DEF ProbeEnd, Return, Types, TypeOK, Where, Downloading, DownloadExact, command,
     transfer
<1>10. CASE Info
  BY <1>10 DEF Info, Goto, Reset, TimesOut, Ask, Types, TypeOK, Where, Downloading,
     DownloadExact, command, transfer
<1>11. CASE RtcInfo
  BY <1>11 DEF RtcInfo, Goto, Return, Reset, TimesOut, Ask, Types, TypeOK, Where, Downloading,
     DownloadExact, command, transfer
<1>12. CASE NothingFound
  BY <1>12 DEF NothingFound, Return, Types, TypeOK, Where, Downloading, DownloadExact,
     command, transfer
<1>13. CASE InfoAgain
  BY <1>13 DEF InfoAgain, Return, Lose, Types, TypeOK, Where, Downloading, DownloadExact,
     command, transfer
<1>14. CASE New
  BY <1>14 DEF New, Goto, Types, TypeOK, Where, Downloading, DownloadExact, command, transfer
<1>15. CASE AskChip
  BY <1>15 DEF AskChip, Return, Types, TypeOK, Where, Downloading, DownloadExact, command,
     transfer
<1>16. CASE ReadRange
  BY <1>16 DEF ReadRange, Goto, Return, Types, TypeOK, Where, Downloading, DownloadExact,
     command, transfer
<1>17. CASE WriteRange
  BY <1>17 DEF WriteRange, Goto, Return, Types, TypeOK, Where, Downloading, DownloadExact,
     command, transfer
<1>18. CASE Access
  BY <1>18 DEF Access, Return, Types, TypeOK, Where, Downloading, DownloadExact, command,
     transfer
<1>19. CASE BusFails
  BY <1>19 DEF BusFails, Fail, Types, TypeOK, Where, Downloading, DownloadExact, command,
     transfer
<1>20. CASE Interrupt
  BY <1>20 DEF Interrupt, Types, TypeOK, Where, Downloading, DownloadExact, command, transfer
<1>21. CASE Kill
  BY <1>21 DEF Kill, Lose, Types, TypeOK, Where, Downloading, DownloadExact, command, transfer
<1>22. CASE UNCHANGED vars
  BY <1>22 DEF vars, Types, TypeOK, Where, Downloading, DownloadExact, command, transfer
<1> QED
  BY <1>1, <1>2, <1>3, <1>4, <1>5, <1>6, <1>7, <1>8, <1>9, <1>10, <1>11, <1>12, <1>13, <1>14,
     <1>15, <1>16, <1>17, <1>18, <1>19, <1>20, <1>21, <1>22 DEF Next, Host

------------------------------------------------------------------------------
(* The size of a ROM *)

\* The first end that there is.
LEMMA FirstEnd ==
  ASSUME NEW words, Len(words) \in Nat, DOMAIN words = 1 .. Len(words),
         NEW m \in RomEnds(words), m \in Nat, m <= Len(words),
         \A k \in 1 .. m : words[k] # Open,
         \A k \in 1 .. m : k <= Len(words) - 5 => ~Repeats(words, k)
  PROVE  Min(RomEnds(words)) = m
PROOF
<1>1. \A x \in RomEnds(words) : x \in Int /\ m <= x
  <2> SUFFICES ASSUME NEW x \in RomEnds(words) PROVE x \in Int /\ m <= x
    OBVIOUS
  <2>1. CASE x = Len(words)
    BY <2>1
  <2>2. CASE \E k \in DOMAIN words : words[k] = Open /\ x = k - 1
    BY <2>2
  <2>3. CASE \E k \in 1 .. Len(words) - 5 : Repeats(words, k) /\ x = k - 1
    BY <2>3
  <2> QED
    BY <2>1, <2>2, <2>3 DEF RomEnds, Repeats
<1> QED
  BY <1>1, Least

\* A word more.
LEMMA WordsRead ==
  ASSUME NEW words \in Seq(Words), NEW data \in Words
  PROVE  /\ Append(words, data) \in Seq(Words)
         /\ Len(Append(words, data)) = Len(words) + 1 /\ Len(words) \in Nat
         /\ DOMAIN words = 1 .. Len(words)
         /\ DOMAIN Append(words, data) = 1 .. Len(words) + 1
         /\ \A k \in 1 .. Len(words) : Append(words, data)[k] = words[k]
         /\ Append(words, data)[Len(words) + 1] = data
PROOF
BY AppendProperties

\* A probe that goes on, or has found the end.
LEMMA ProbeStep ==
  ASSUME Types, Counting, ProbeRead
  PROVE  /\ Counting'
         /\ pc' # "probe" /\ ~BeginsEmpty(probed)' => guess' = Min(RomEnds(probed))'
PROOF
<1> DEFINE n == Len(probed)
           words == probed'
<1>1. PICK data \in Words :
        /\ probed' = Append(probed, data)
        /\ \/ data = Open /\ pc' = "leave" /\ guess' = guess
           \/ /\ data # Open
              /\ counter' = (IF data = LastData THEN counter + 1 ELSE 0)
              /\ guess' = Count(IF data = LastData THEN counter + 1 ELSE 0)
              /\ IF (IF data = LastData THEN counter + 1 ELSE 0) >= 5
                   THEN pc' = "leave" ELSE pc' = "probe"
  BY DEF ProbeRead, Goto, Return
<1>2. /\ guess = n /\ counter \in 0 .. 4 /\ counter <= n
      /\ \A k \in DOMAIN probed : probed[k] # Open
      /\ \A k \in 1 .. n - 5 : ~Repeats(probed, k)
      /\ \A k \in DOMAIN probed : k >= n - counter => probed[k] = LastData
      /\ counter = n => LastData = Zero
      /\ counter + 1 < n => probed[n - counter - 1] # LastData
  BY DEF Counting, ProbeRead
<1>3. /\ n \in Nat /\ DOMAIN probed = 1 .. n /\ Len(words) = n + 1 /\ DOMAIN words = 1 .. n + 1
      /\ \A k \in 1 .. n : words[k] = probed[k]
      /\ words[n + 1] = data
  <2>1. probed \in Seq(Words)
    BY DEF Types, TypeOK
  <2> QED
    BY <1>1, <2>1, WordsRead
<1>4. n >= 1 => LastData = probed[n]
  BY <1>3 DEF LastData, Last
<1> HIDE DEF n, words
<1>5. \A k \in 1 .. n : words[k] # Open
  BY <1>2, <1>3
<1>6. \A k \in 1 .. n - 5 : ~Repeats(words, k)
  <2> SUFFICES ASSUME NEW k \in 1 .. n - 5 PROVE ~Repeats(words, k)
    OBVIOUS
  <2>1. k \in 1 .. n /\ \A j \in 1 .. 5 : k + j \in 1 .. n
    BY <1>3
  <2>2. words[k] = probed[k] /\ \A j \in 1 .. 5 : words[k + j] = probed[k + j]
    BY <1>3, <2>1
  <2> QED
    BY <1>2, <2>2 DEF Repeats
<1>7. CASE data = Open
  <2>1. pc' = "leave" /\ guess' = n
    BY <1>1, <1>2, <1>7
  <2>2. n \in RomEnds(words)
    <3>1. n + 1 \in DOMAIN words /\ words[n + 1] = Open /\ n = (n + 1) - 1
      BY <1>3, <1>7
    <3> QED
      BY <3>1 DEF RomEnds
  <2>3. \A k \in 1 .. n : k <= (n + 1) - 5 => ~Repeats(words, k)
    <3> SUFFICES ASSUME NEW k \in 1 .. n, k <= (n + 1) - 5, Repeats(words, k) PROVE FALSE
      OBVIOUS
    <3>1. k = n - 4
      BY <1>3, <1>6
    <3>2. words[k + 5] = words[k] /\ k + 5 = n + 1
      BY <1>3, <3>1 DEF Repeats
    <3> QED
      BY <1>3, <1>5, <1>7, <3>2
  <2>4. guess' = Min(RomEnds(words))
    BY <1>3, <1>5, <2>1, <2>2, <2>3, FirstEnd
  <2> QED
    BY <2>1, <2>4 DEF Counting, words
<1>8. CASE data # Open /\ data = LastData /\ counter = 4
  <2>1. pc' = "leave" /\ guess' = n - 5
    BY <1>1, <1>2, <1>3, <1>8 DEF Count
  <2>2. CASE n = 4
    <3>1. \A k \in 1 .. 4 : words[k] = Zero
      BY <1>2, <1>3, <1>8, <2>2
    <3>2. words[5] = Zero
      BY <1>2, <1>3, <1>8, <2>2
    <3>3. BeginsEmpty(words)
      BY <1>3, <2>2, <3>1, <3>2 DEF BeginsEmpty
    <3> QED
      BY <2>1, <3>3 DEF Counting, words
  <2>3. CASE n >= 5
    <3>1. \A k \in n - 4 .. n + 1 : words[k] = LastData
      BY <1>2, <1>3, <1>8, <2>3
    <3>2. Repeats(words, n - 4)
      <4>1. \A j \in 1 .. 5 : (n - 4) + j \in n - 4 .. n + 1
        BY <1>3
      <4>2. n - 4 \in n - 4 .. n + 1
        BY <1>3
      <4> QED
        BY <3>1, <4>1, <4>2 DEF Repeats
    <3>3. n - 5 \in RomEnds(words)
      <4>1. n - 4 \in 1 .. Len(words) - 5 /\ n - 5 = (n - 4) - 1
        BY <1>3, <2>3
      <4> QED
        BY <3>2, <4>1 DEF RomEnds, Repeats
    <3>4. guess' = Min(RomEnds(words))
      <4>1. n - 5 \in Nat /\ n - 5 <= Len(words) /\ Len(words) \in Nat /\ DOMAIN words = 1 .. Len(words)
        BY <1>3, <2>3
      <4>2. \A k \in 1 .. n - 5 : words[k] # Open
        BY <1>3, <1>5
      <4> QED
        BY <1>6, <2>1, <3>3, <4>1, <4>2, FirstEnd
    <3> QED
      BY <2>1, <3>4 DEF Counting, words
  <2> QED
    BY <1>2, <1>3, <1>8, <2>2, <2>3
<1>9. CASE data # Open /\ ~(data = LastData /\ counter = 4)
  <2>1. /\ pc' = "probe" /\ guess' = n + 1
        /\ counter' = IF data = LastData THEN counter + 1 ELSE 0
        /\ counter' \in 0 .. 4 /\ counter' <= n + 1
    BY <1>1, <1>2, <1>3, <1>9 DEF Count
  <2>2. LastData' = data
    <3>1. probed' # <<>>
      BY <1>3 DEF words
    <3> QED
      BY <1>3, <3>1 DEF LastData, Last, words
  <2>3. \A k \in 1 .. n + 1 : words[k] # Open
    BY <1>3, <1>5, <1>9
  <2>4. \A k \in 1 .. (n + 1) - 5 : ~Repeats(words, k)
    <3> SUFFICES ASSUME NEW k \in 1 .. (n + 1) - 5, Repeats(words, k) PROVE FALSE
      OBVIOUS
    <3>1. k = n - 4 /\ n >= 5
      BY <1>3, <1>6
    <3>2. \A i \in n - 3 .. n + 1 : words[i] = words[n - 4]
      <4> SUFFICES ASSUME NEW i \in n - 3 .. n + 1 PROVE words[i] = words[n - 4]
        OBVIOUS
      <4>1. i - (n - 4) \in 1 .. 5 /\ (n - 4) + (i - (n - 4)) = i
        BY <1>3
      <4> QED
        BY <3>1, <4>1 DEF Repeats
    <3>3. \A i \in n - 4 .. n + 1 : words[i] = data
      BY <1>3, <3>1, <3>2
    <3>4. data = LastData
      BY <1>3, <1>4, <3>1, <3>3
    <3>5. counter + 1 < n /\ n - counter - 1 \in n - 4 .. n
      BY <1>2, <1>3, <1>9, <3>1, <3>4
    <3>6. words[n - counter - 1] = probed[n - counter - 1]
      BY <1>3, <3>1, <3>5
    <3> QED
      BY <1>2, <1>3, <3>1, <3>3, <3>4, <3>5, <3>6
  <2>5. \A k \in 1 .. n + 1 : k >= (n + 1) - counter' => words[k] = data
    BY <1>2, <1>3, <2>1
  <2>6. counter' = n + 1 => data = Zero
    BY <1>2, <1>3, <2>1
  <2>7. counter' + 1 < n + 1 => words[(n + 1) - counter' - 1] # data
    <3>1. CASE data = LastData
      BY <1>2, <1>3, <2>1, <3>1
    <3>2. CASE data # LastData
      BY <1>3, <1>4, <2>1, <3>2
    <3> QED
      BY <3>1, <3>2
  <2> QED
    BY <1>3, <2>1, <2>2, <2>3, <2>4, <2>5, <2>6, <2>7 DEF Counting, words
<1> QED
  BY <1>2, <1>7, <1>8, <1>9

\* Every read keeps what counter and guess say.
LEMMA CountingKept ==
  ASSUME Types, Counting, [Next]_vars
  PROVE  Counting'
PROOF
<1>1. CASE Calls
  <2>1. PICK j \in JobType : j.cmd # "none" /\ Call(j)
    BY <1>1, JobTyped
  <2> QED
    BY <2>1 DEF Call, Counting
<1>2. CASE Version
  BY <1>2 DEF Version, Goto, Counting, LastData, probe
<1>3. CASE Enter
  <2>1. probed = <<>> /\ guess = 0 /\ counter = 0 /\ UNCHANGED probe
    BY <1>3 DEF Enter, Types, Where
  <2>2. probed' = <<>> /\ guess' = 0 /\ counter' = 0
    BY <2>1 DEF probe
  <2>3. Len(probed') = 0 /\ LastData' = Zero
    BY <2>2 DEF LastData
  <2> QED
    BY <2>2, <2>3 DEF Counting
<1>4. CASE Leave
  BY <1>4 DEF Leave, Counting, LastData, probe
<1>5. CASE Exit
  BY <1>5 DEF Exit, NoRequest, Counting, LastData, probe
<1>6. CASE ReadBurst
  BY <1>6 DEF ReadBurst, Goto, Return, Counting, LastData, probe
<1>7. CASE Downloaded
  BY <1>7 DEF Downloaded, Return, Counting, LastData, probe
<1>8. CASE ProbeRead
  BY <1>8, ProbeStep
<1>9. CASE ProbeEnd
  BY <1>9 DEF ProbeEnd, Return, Counting, LastData, probe
<1>10. CASE Info
  BY <1>10 DEF Info, Goto, Reset, TimesOut, Ask, Counting, LastData, probe
<1>11. CASE RtcInfo
  BY <1>11 DEF RtcInfo, Goto, Return, Reset, TimesOut, Ask, Counting, LastData, probe
<1>12. CASE NothingFound
  BY <1>12 DEF NothingFound, Return, Counting, LastData, probe
<1>13. CASE InfoAgain
  BY <1>13 DEF InfoAgain, Return, Lose, Counting, LastData, probe
<1>14. CASE New
  BY <1>14 DEF New, Goto, Counting, LastData, probe
<1>15. CASE AskChip
  BY <1>15 DEF AskChip, Return, Counting, LastData, probe
<1>16. CASE ReadRange
  BY <1>16 DEF ReadRange, Goto, Return, Counting, LastData, probe
<1>17. CASE WriteRange
  BY <1>17 DEF WriteRange, Goto, Return, Counting, LastData, probe
<1>18. CASE Access
  BY <1>18 DEF Access, Return, Counting, LastData, probe
<1>19. CASE BusFails
  BY <1>19 DEF BusFails, Fail, Counting, LastData, probe
<1>20. CASE Interrupt
  BY <1>20 DEF Interrupt, Counting, LastData, probe
<1>21. CASE Kill
  BY <1>21 DEF Kill, Lose, Counting, LastData, probe
<1>22. CASE UNCHANGED vars
  BY <1>22 DEF vars, Counting, LastData, probe
<1> QED
  BY <1>1, <1>2, <1>3, <1>4, <1>5, <1>6, <1>7, <1>8, <1>9, <1>10, <1>11, <1>12, <1>13, <1>14,
     <1>15, <1>16, <1>17, <1>18, <1>19, <1>20, <1>21, <1>22 DEF Next, Host

\* What was guessed at the end stays.
LEMMA GuessKept ==
  ASSUME Types, Counting, Guessed, [Next]_vars
  PROVE  Guessed'
PROOF
<1>1. CASE Calls
  <2>1. PICK j \in JobType : j.cmd # "none" /\ Call(j)
    BY <1>1, JobTyped
  <2> QED
    BY <2>1 DEF Call, Guessed
<1>2. CASE Version
  BY <1>2 DEF Version, Goto, Guessed, Types, Where, probe, command
<1>3. CASE Enter
  BY <1>3 DEF Enter, Goto, Body, Lose, Guessed, Types, Where, probe, command
<1>4. CASE Leave
  BY <1>4 DEF Leave, Guessed, Types, Where, probe, command
<1>5. CASE Exit
  BY <1>5 DEF Exit, NoRequest, Guessed, Types, Where, probe, command
<1>6. CASE ReadBurst
  BY <1>6 DEF ReadBurst, Goto, Return, Guessed, Types, Where, probe, command
<1>7. CASE Downloaded
  BY <1>7 DEF Downloaded, Return, Guessed, Types, Where, probe, command
<1>8. CASE ProbeRead
  <2>1. pc' # "probe" /\ ~BeginsEmpty(probed)' => guess' = Min(RomEnds(probed))'
    BY <1>8, ProbeStep
  <2> QED
    BY <2>1 DEF Guessed
<1>9. CASE ProbeEnd
  <2>1. probed' = probed /\ guess' = Len(probed)
    BY <1>9 DEF ProbeEnd, Counting, probe
  <2>2. probed \in Seq(Words) /\ Len(probed) \in Nat /\ DOMAIN probed = 1 .. Len(probed)
    BY DEF Types, TypeOK
  <2>3. /\ \A k \in 1 .. Len(probed) : probed[k] # Open
        /\ \A k \in 1 .. Len(probed) - 5 : ~Repeats(probed, k)
    BY <1>9, <2>2 DEF ProbeEnd, Counting
  <2>4. Len(probed) \in RomEnds(probed)
    BY DEF RomEnds
  <2>5. Len(probed) = Min(RomEnds(probed))
    BY <2>2, <2>3, <2>4, FirstEnd
  <2> QED
    BY <2>1, <2>5 DEF Guessed
<1>10. CASE Info
  BY <1>10 DEF Info, Goto, Reset, TimesOut, Ask, Guessed, Types, Where, probe, command
<1>11. CASE RtcInfo
  BY <1>11 DEF RtcInfo, Goto, Return, Reset, TimesOut, Ask, Guessed, Types, Where, probe,
     command
<1>12. CASE NothingFound
  BY <1>12 DEF NothingFound, Return, Guessed, Types, Where, probe, command
<1>13. CASE InfoAgain
  BY <1>13 DEF InfoAgain, Return, Lose, Guessed, Types, Where, probe, command
<1>14. CASE New
  BY <1>14 DEF New, Goto, Guessed, Types, Where, probe, command
<1>15. CASE AskChip
  BY <1>15 DEF AskChip, Return, Guessed, Types, Where, probe, command
<1>16. CASE ReadRange
  BY <1>16 DEF ReadRange, Goto, Return, Guessed, Types, Where, probe, command
<1>17. CASE WriteRange
  BY <1>17 DEF WriteRange, Goto, Return, Guessed, Types, Where, probe, command
<1>18. CASE Access
  BY <1>18 DEF Access, Return, Guessed, Types, Where, probe, command
<1>19. CASE BusFails
  BY <1>19 DEF BusFails, Fail, Guessed, Types, Where, probe, command
<1>20. CASE Interrupt
  BY <1>20 DEF Interrupt, Guessed, Types, Where, probe, command
<1>21. CASE Kill
  BY <1>21 DEF Kill, Lose, Guessed, Types, Where, probe, command
<1>22. CASE UNCHANGED vars
  BY <1>22 DEF vars, Guessed, Types, Where, probe, command
<1> QED
  BY <1>1, <1>2, <1>3, <1>4, <1>5, <1>6, <1>7, <1>8, <1>9, <1>10, <1>11, <1>12, <1>13, <1>14,
     <1>15, <1>16, <1>17, <1>18, <1>19, <1>20, <1>21, <1>22 DEF Next, Host

------------------------------------------------------------------------------
(* The theorems *)

\* The invariant holds at first.
LEMMA InitInv == Init => Inv
PROOF
<1> SUFFICES ASSUME Init PROVE Inv
  OBVIOUS
<1>1. NoJob \in JobType /\ 0 \in 0 .. Space - 1 /\ {Reads, Space} \subseteq Nat /\ MaxCalls \in Nat
  BY NoJobTyped, SessionAssumption
<1>2. NoJob.cmd = "none"
  BY DEF NoJob
<1>3. Types
  <2>1. /\ pc = "idle" /\ job = NoJob /\ result = "none" /\ calls = 0 /\ cancelled = FALSE
        /\ standalone = FALSE /\ frozen = FALSE /\ lost = FALSE /\ hurt = FALSE
        /\ left = 0 /\ addr = 0 /\ out = <<>> /\ probed = <<>> /\ counter = 0 /\ guess = 0 /\ found = 0
    BY DEF Init
  <2>2. <<>> \in Seq(0 .. Space - 1) /\ <<>> \in Seq(Words)
    OBVIOUS
  <2>3. NoJob.cmd \in Cmds
    BY <1>2 DEF Cmds
  <2>4. guess \in -1 .. Reads /\ counter \in 0 .. 5 /\ calls \in 0 .. MaxCalls /\ found \in {0, 6}
        /\ left \in Int /\ addr \in 0 .. Space - 1
    BY <1>1, <2>1
  <2>5. TypeOK
    BY <1>1, <2>1, <2>2, <2>3, <2>4 DEF TypeOK
  <2> QED
    BY <1>1, <2>1, <2>5 DEF Types, Where
<1>4. Mode /\ Identifying /\ Downloading /\ RequestInside /\ Counting /\ Guessed
  BY <1>2 DEF Init, Mode, Identifying, Downloading, DownloadExact, RequestInside, Counting,
     Guessed
<1> QED
  BY <1>3, <1>4 DEF Inv

(***************************************************************************)
(* The invariant holds of every behaviour of the commands, with every      *)
(* failure, Ctrl+C, kill and frozen 64drive (main.go:146, main.go:782).    *)
(***************************************************************************)
THEOREM Invariance == Spec => []Inv
PROOF
<1>1. Inv /\ [Next]_vars => Inv'
  BY TypesKept, ModeKept, IdentifyingKept, DownloadingKept, RequestKept, CountingKept, GuessKept
     DEF Inv
<1> QED
  BY InitInv, <1>1, PTL DEF Spec

\* Types hold for any carts, devices, chip and options (main.go:767-1248).
THEOREM TypeCorrect == Spec => []TypeOK
PROOF
BY Invariance, PTL DEF Inv, Types

(***************************************************************************)
(* Every command leaves the 64drive in its normal mode and not frozen, but *)
(* for the reasons that Restored names (withStandaloneMode).               *)
(***************************************************************************)
THEOREM ModeRestored == Spec => []Restored
PROOF
<1>1. Inv => Restored
  BY DEF Inv, Mode, Restored
<1> QED
  BY <1>1, Invariance, PTL

(***************************************************************************)
(* A download has the units asked for, in order, for every size, address   *)
(* and length of bursts, in an address space of any size (downloadPi).     *)
(***************************************************************************)
THEOREM DownloadsExact == Spec => []DownloadExact
PROOF
<1>1. Inv => DownloadExact
  BY DEF Inv, Downloading, DownloadExact
<1> QED
  BY <1>1, Invariance, PTL

(***************************************************************************)
(* The size of a ROM is that before its first open bus or six equal words, *)
(* for carts of any size that do not begin with five zero words, and any   *)
(* number of reads (cmdUltraSaveProbe).                                    *)
(***************************************************************************)
THEOREM SizesGuessed == Spec => []SizeGuessed
PROOF
<1>1. Inv => SizeGuessed
  BY DEF Inv, Guessed, SizeGuessed
<1> QED
  BY <1>1, Invariance, PTL

(***************************************************************************)
(* Every joybus device that can be identified is (joybusIdentify,          *)
(* cmdSiProbe).                                                            *)
(***************************************************************************)
THEOREM DevicesIdentified == Spec => []Identified
PROOF
<1>1. Inv => Identified
  BY DEF Inv, Identifying, Identified
<1> QED
  BY <1>1, Invariance, PTL

(***************************************************************************)
(* The driver is asked for a range inside of the chip, of any size         *)
(* (cmdFlashRead, cmdFlashWrite).                                          *)
(***************************************************************************)
THEOREM RequestsInside == Spec => []RequestInside
PROOF
<1>1. Inv => RequestInside
  BY DEF Inv
<1> QED
  BY <1>1, Invariance, PTL

------------------------------------------------------------------------------
(* Every command comes to an end *)

\* What a command has still to do, part by part.
Stage ==
  CASE pc = "version" -> 8
    [] pc = "enter" -> 7
    [] pc \in {"burst", "probe", "info", "new"} -> 6
    [] pc \in {"rtc", "ask", "range"} -> 5
    [] pc \in {"again", "nothing", "access"} -> 4
    [] pc = "leave" -> 2
    [] pc = "done" -> 1
    [] OTHER -> 0

\* And the bursts or the words of the part that takes many.
Rest == CASE pc = "burst" -> left [] pc = "probe" -> Reads - Len(probed) [] OTHER -> 0

Measure == <<Stage, Rest>>

\* What is left is a number, part by part.
LEMMA MeasureTyped == Inv => Measure \in Measures(2)
PROOF
<1> SUFFICES ASSUME Inv PROVE Measure \in Measures(2)
  OBVIOUS
<1>1. Stage \in Nat
  BY DEF Stage
<1>2. pc = "burst" => left \in Nat
  BY DEF Inv, Types, Where, Downloading
<1>3. pc = "probe" => Reads - Len(probed) \in Nat
  <2> SUFFICES ASSUME pc = "probe" PROVE Reads - Len(probed) \in Nat
    OBVIOUS
  <2>1. guess = Len(probed) /\ guess \in -1 .. Reads /\ Reads \in Nat
    BY SessionAssumption DEF Inv, Counting, Types, TypeOK
  <2>2. Len(probed) \in Nat
    BY LenProperties DEF Inv, Types, TypeOK
  <2> QED
    BY <2>1, <2>2
<1>4. Rest \in Nat
  BY <1>2, <1>3 DEF Rest
<1> HIDE DEF Stage, Rest
<1> QED
  BY <1>1, <1>4 DEF Measures, Measure

\* The measure follows its parts.
LEMMA LowersMeasure ==
  ASSUME Stage' < Stage \/ (Stage' = Stage /\ Rest' < Rest)
  PROVE  Lower(Measure', Measure)
PROOF
<1> DEFINE m == Measure'
           n == Measure
<1>1. DOMAIN n = 1 .. 2 /\ n[1] = Stage /\ n[2] = Rest /\ m[1] = Stage' /\ m[2] = Rest'
  BY DEF Measure
<1> HIDE DEF m, n
<1>2. \/ m[1] < n[1] /\ \A j \in 1 .. 1 - 1 : m[j] = n[j]
      \/ m[2] < n[2] /\ \A j \in 1 .. 2 - 1 : m[j] = n[j]
  BY <1>1
<1> QED
  BY <1>1, <1>2 DEF Lower, m, n

\* A burst of a download is a part of what is left of it.
LEMMA BurstLowers ==
  ASSUME Inv, ReadBurst, job.burst # 0
  PROVE  Stage' < Stage \/ (Stage' = Stage /\ Rest' < Rest)
PROOF
<1>1. pc = "burst" /\ job.burst >= 0 /\ left > 0
  BY DEF ReadBurst
<1>2. CASE pc' = "leave"
  BY <1>1, <1>2 DEF Stage
<1>3. CASE pc' = "burst" /\ left' = left - Chunk
  <2>1. job.burst \in Nat \ {0} /\ left \in Nat
    BY <1>1 DEF Inv, Types, JobType, Where, Downloading
  <2>2. Chunk \in Nat \ {0}
    BY <1>1, <2>1, LeastOfTwo DEF Chunk
  <2>3. Rest' < Rest /\ Stage' = Stage
    BY <1>1, <1>3, <2>1, <2>2 DEF Rest, Stage
  <2> QED
    BY <2>3
<1> QED
  BY <1>2, <1>3 DEF ReadBurst, Goto, Return

\* And so is a word of a probe.
LEMMA ReadLowers ==
  ASSUME Inv, ProbeRead
  PROVE  Stage' < Stage \/ (Stage' = Stage /\ Rest' < Rest)
PROOF
<1>1. pc = "probe" /\ \E data \in Words : probed' = Append(probed, data)
      /\ pc' \in {"leave", "probe"}
  BY DEF ProbeRead, Goto, Return
<1>2. probed \in Seq(Words) /\ Len(probed) \in Nat /\ Reads \in Nat
  BY SessionAssumption, LenProperties DEF Inv, Types, TypeOK
<1>3. Len(probed') = Len(probed) + 1
  BY <1>1, <1>2, AppendProperties
<1>4. CASE pc' = "leave"
  BY <1>1, <1>4 DEF Stage
<1>5. CASE pc' = "probe"
  <2>1. Rest' < Rest /\ Stage' = Stage
    BY <1>1, <1>2, <1>3, <1>5 DEF Rest, Stage
  <2> QED
    BY <2>1
<1> QED
  BY <1>1, <1>4, <1>5

\* Every other step is on to a later part of the command.
LEMMA StepLowers ==
  ASSUME Inv, Host \/ BusFails \/ Kill, job.burst # 0
  PROVE  Stage' < Stage \/ (Stage' = Stage /\ Rest' < Rest)
PROOF
<1>1. CASE Version \/ Enter
  <2>1. Body \in {"burst", "probe", "info", "new"}
    BY DEF Body
  <2>2. \/ pc = "version" /\ pc' \in {"enter", "done"}
        \/ pc = "enter" /\ pc' \in {"burst", "probe", "info", "new", "done"}
    BY <1>1, <2>1 DEF Version, Enter, Goto
  <2> QED
    BY <2>2 DEF Stage
<1>2. CASE Leave \/ Exit
  <2>1. (pc = "leave" /\ pc' = "done") \/ (pc = "done" /\ pc' = "idle")
    BY <1>2 DEF Leave, Exit
  <2> QED
    BY <2>1 DEF Stage
<1>3. CASE ReadBurst
  BY <1>3, BurstLowers
<1>4. CASE ProbeRead
  BY <1>4, ReadLowers
<1>5. CASE Downloaded \/ ProbeEnd \/ NothingFound \/ AskChip \/ Access \/ BusFails
  <2>1. pc \in {"burst", "probe", "info", "rtc", "again", "nothing", "new", "ask", "access"}
        /\ pc' = "leave"
    BY <1>5 DEF Downloaded, ProbeEnd, NothingFound, AskChip, Access, BusFails, Return, Fail
  <2> QED
    BY <2>1 DEF Stage
<1>6. CASE Info \/ RtcInfo
  <2>1. \/ pc = "info" /\ pc' \in {"rtc", "again"}
        \/ pc = "rtc" /\ pc' \in {"leave", "again", "nothing"}
    BY <1>6 DEF Info, RtcInfo, Goto, Return, Reset, TimesOut
  <2> QED
    BY <2>1 DEF Stage
<1>7. CASE InfoAgain
  <2>1. pc = "again" /\ pc' = "leave"
    BY <1>7 DEF InfoAgain, Return
  <2> QED
    BY <2>1 DEF Stage
<1>8. CASE New
  <2>1. pc = "new" /\ pc' \in {"ask", "range"}
    BY <1>8 DEF New, Goto
  <2> QED
    BY <2>1 DEF Stage
<1>9. CASE ReadRange \/ WriteRange
  <2>1. pc = "range" /\ pc' \in {"access", "leave"}
    BY <1>9 DEF ReadRange, WriteRange, Goto, Return
  <2> QED
    BY <2>1 DEF Stage
<1>10. CASE Kill
  <2>1. pc \notin {"idle", "done"} /\ pc' = "done"
    BY <1>10 DEF Kill
  <2>2. pc \in {"version", "enter", "burst", "probe", "info", "rtc", "nothing", "again",
               "new", "ask", "range", "access", "leave"}
    BY <2>1 DEF Inv, Types, TypeOK
  <2> QED
    BY <2>1, <2>2 DEF Stage
<1> QED
  BY <1>1, <1>2, <1>3, <1>4, <1>5, <1>6, <1>7, <1>8, <1>9, <1>10 DEF Host

(***************************************************************************)
(* Every step of a command, whatever fails in it, brings it nearer to its  *)
(* end in a well-founded order, which Ctrl+C does not set back, unless it  *)
(* is a download in bursts of nothing: withStandaloneMode always comes to  *)
(* its CmdStandAloneLeave.                                                 *)
(***************************************************************************)
THEOREM CommandsAdvance ==
  Spec => /\ [](Measure \in Measures(2))
          /\ [][/\ job.burst # 0 /\ (Host \/ BusFails \/ Kill) => Lower(Measure', Measure)
                /\ Interrupt => Measure' = Measure]_vars
PROOF
<1> DEFINE Counts == Measure \in Measures(2)
           Advance ==
             /\ job.burst # 0 /\ (Host \/ BusFails \/ Kill) => Lower(Measure', Measure)
             /\ Interrupt => Measure' = Measure
<1>1. Inv => Counts
  BY MeasureTyped
<1>2. Interrupt => Measure' = Measure
  BY DEF Interrupt, transfer, probe, Measure, Stage, Rest
<1>3. Inv /\ [Next]_vars => [Advance]_vars
  BY <1>2, StepLowers, LowersMeasure
<1> HIDE DEF Counts, Advance
<1>4. Spec => []Counts /\ [][Advance]_vars
  BY <1>1, <1>3, Invariance, PTL DEF Spec
<1> QED
  BY <1>4 DEF Counts, Advance
==============================================================================
