----------------------------- MODULE UpgradeProofs -----------------------------
(***************************************************************************)
(* The upgrade is started with a verified image only, and its outcome is   *)
(* told truly, for any archives and 64drive, any number of commands and of *)
(* late answers.                                                           *)
(***************************************************************************)
EXTENDS Upgrade, SequenceTheorems, TLAPS

\* From the version request to the start nothing is under way, and once it
\* was verified the image stays.
Before ==
  /\ pc \in {"upload", "verify", "report", "confirm", "start"} => wire = <<>>
  /\ pc \in {"confirm", "start"} => status = Ready
  /\ pc \notin {"idle", "version"} => Fits(archive)
  /\ pc \in {"report", "confirm", "start", "poll"}
       => archive.asset = NoAsset \/ cartrom = archive.asset

\* How far the firmware is written, as long as it is polled.
Written ==
  pc = "poll"
    => /\ status \in 2 .. 15
       /\ status \in 4 .. 7 => flashed = {}
       /\ status \in 8 .. 12 => flashed = {cartrom}

\* Reports of this upgrade, seen or on their way, end as it has ended.
Seen ==
  pc = "poll"
    => \A stat \in {curstat} \cup {wire[i] : i \in 1 .. Len(wire)} :
         /\ stat = Success => status = Success
         /\ stat \in Failed => status \in Failed

\* A result outlives its command only as long as its upgrade is the last one.
Ended ==
  /\ pc # "idle" => result = "none"
  /\ pc # "poll" => curstat = Ready /\ pbidx = 0
  /\ result = "success" => status = Success

\* During the poll there is a status between any two completion packets.
Framed ==
  pc = "poll" => \A i \in 1 .. Len(wire) - 1 : wire[i] # Cmp \/ wire[i + 1] # Cmp

\* An upgrade only goes on: reports are met in the order in which they were
\* made, and the progress bar is at the last one that was seen.
InOrder ==
  pc = "poll"
    => /\ \A i \in 1 .. Len(wire) : wire[i] # Cmp => wire[i] \in curstat .. status
       /\ \A i \in 1 .. Len(wire) : \A j \in i .. Len(wire) :
            wire[i] # Cmp /\ wire[j] # Cmp => wire[i] <= wire[j]
       /\ curstat \in Ready .. status
       /\ curstat \in Ready .. 10 => pbidx = curstat - 1

PollTypeOK == curstat \in 0 .. 15 /\ pbidx \in 0 .. 10

Course == PollTypeOK /\ Before /\ Written /\ Seen /\ Ended /\ OutcomeTrue

Inv == DriveTypeOK /\ CommandTypeOK /\ Framed /\ InOrder /\ Course
------------------------------------------------------------------------------
(* Types *)

\* An asset is an image, and never garbage.
LEMMA ArchiveAsset ==
  \A a \in Archives \cup {NoArchive} :
    a.asset # NoAsset => a.asset \in Images /\ a.asset # Garbage
PROOF
<1>1. \A a \in Archives : a.asset \in Images
  BY DEF Images
<1>2. \A a \in Archives : a.asset \in STRING \ {Garbage}
  BY UpgradeAssumption
<1>3. NoArchive.asset = NoAsset
  BY DEF NoArchive
<1> QED
  BY <1>1, <1>2, <1>3

\* Garbage may be anywhere.
LEMMA GarbageIsImage == Garbage \in Images
PROOF
  BY DEF Images

\* What is left of a sequence without its first n elements.
LEMMA Rest ==
  ASSUME NEW s \in Seq(0 .. Cmp), NEW n \in 0 .. Len(s)
  PROVE  /\ SubSeq(s, n + 1, Len(s)) \in Seq(0 .. Cmp)
         /\ Len(SubSeq(s, n + 1, Len(s))) = Len(s) - n
         /\ \A i \in 1 .. Len(s) - n : SubSeq(s, n + 1, Len(s))[i] = s[n + i]
PROOF
<1>1. Len(s) \in Nat /\ \A i \in 1 .. Len(s) : s[i] \in 0 .. Cmp
  BY ElementOfSeq, LenProperties DEF Cmp
<1>2. n \in Nat
  BY <1>1
<1> QED
  BY <1>1, <1>2, SubSeqProperties

\* A late completion packet is one more half of an answer.
LEMMA LateKept ==
  ASSUME DriveTypeOK, Late
  PROVE  wire' \in Seq(0 .. Cmp) /\ Len(wire') <= MaxLate + 2
PROOF
<1>1. wire \in Seq(0 .. Cmp) /\ Len(wire) \in Nat /\ Cmp \in 0 .. Cmp
  BY DEF DriveTypeOK, Cmp
<1>2. CASE wire' = wire
  BY <1>2 DEF DriveTypeOK
<1>3. CASE Len(wire) <= MaxLate /\ wire' = Append(wire, Cmp)
  <2>1. wire' \in Seq(0 .. Cmp) /\ Len(wire') = Len(wire) + 1
    BY <1>1, <1>3, AppendProperties
  <2> QED
    BY <1>1, <1>3, <2>1, UpgradeAssumption
<1> QED
  BY <1>2, <1>3 DEF Late

\* Halves of answers come from the wire or from the answer to this report.
LEMMA WireKept ==
  ASSUME DriveTypeOK, NEW n \in 0 .. 2, Taken(n)
  PROVE  /\ wire' \in Seq(0 .. Cmp) /\ Len(wire') = (Len(wire) + 2) - n
         /\ \A i \in 1 .. Len(wire') :
              wire'[i] \in {status, Cmp} \cup {wire[j] : j \in 1 .. Len(wire)}
         /\ Sent[1] \in {status} \cup {wire[j] : j \in 1 .. Len(wire)}
         /\ Sent[1] \in 0 .. Cmp
PROOF
<1>1. wire \in Seq(0 .. Cmp) /\ Len(wire) \in Nat /\ status \in 0 .. Cmp
  BY DEF DriveTypeOK, Cmp
<1>2. Sent \in Seq(0 .. Cmp) /\ Len(Sent) = Len(wire) + 2
  BY <1>1 DEF Sent, Cmp
<1>3. \A i \in 1 .. Len(Sent) :
        Sent[i] \in {status, Cmp} \cup {wire[j] : j \in 1 .. Len(wire)}
  BY <1>1, <1>2 DEF Sent, Cmp
<1>4. Sent[1] \in {status} \cup {wire[j] : j \in 1 .. Len(wire)}
  BY <1>1 DEF Sent
<1>5. n \in 0 .. Len(Sent)
  BY <1>1, <1>2
<1>6. /\ wire' \in Seq(0 .. Cmp) /\ Len(wire') = Len(Sent) - n
      /\ \A i \in 1 .. Len(Sent) - n : wire'[i] = Sent[n + i]
  BY <1>2, <1>5, Rest DEF Taken
<1>7. \A i \in 1 .. Len(wire') :
        wire'[i] \in {status, Cmp} \cup {wire[j] : j \in 1 .. Len(wire)}
  <2> SUFFICES ASSUME NEW i \in 1 .. Len(wire')
               PROVE  wire'[i] \in {status, Cmp} \cup {wire[j] : j \in 1 .. Len(wire)}
    OBVIOUS
  <2>1. n + i \in 1 .. Len(Sent) /\ wire'[i] = Sent[n + i]
    BY <1>1, <1>2, <1>6
  <2> QED
    BY <2>1, <1>3
<1>8. Sent[1] \in 0 .. Cmp
  <2>1. 1 \in 1 .. Len(Sent)
    BY <1>1, <1>2
  <2> QED
    BY <1>2, <2>1, ElementOfSeq
<1> QED
  BY <1>1, <1>2, <1>4, <1>6, <1>7, <1>8

\* The 64drive keeps its types.
LEMMA DriveTypes ==
  ASSUME DriveTypeOK, CommandTypeOK, Before, [Next]_vars
  PROVE  DriveTypeOK'
PROOF
<1> USE DEF DriveTypeOK
<1>1. CASE Call
  <2>1. PICK n \in 0 .. Len(wire) : wire' = SubSeq(wire, n + 1, Len(wire))
    BY <1>1 DEF Call
  <2>2. wire' \in Seq(0 .. Cmp) /\ Len(wire') = Len(wire) - n /\ Len(wire) \in Nat
    BY <2>1, Rest
  <2> QED
    BY <1>1, <2>2, UpgradeAssumption DEF Call, module
<1>2. CASE Upload
  BY <1>2, ArchiveAsset, GarbageIsImage DEF Upload, module, CommandTypeOK
<1>3. CASE UploadStops
  BY <1>3, GarbageIsImage, LateKept DEF UploadStops, module
<1>4. CASE Report
  <2>1. wire = <<>> /\ Len(wire) = 0
    BY <1>4 DEF Report, Before
  <2>2. PICK n \in 0 .. 2 : Taken(n)
    BY <1>4 DEF Report
  <2>3. wire' \in Seq(0 .. Cmp) /\ Len(wire') = (Len(wire) + 2) - n
    BY <2>2, WireKept
  <2>4. Len(wire') <= MaxLate + 2
    BY <2>1, <2>3, UpgradeAssumption
  <2> QED
    BY <1>4, <2>3, <2>4 DEF Report, module
<1>5. CASE Poll
  BY <1>5, WireKept DEF Poll, module
<1>6. CASE PollFails
  <2>1. PICK n \in 0 .. 2 : Taken(n)
    BY <1>6 DEF PollFails
  <2>2. Len(wire) <= MaxLate /\ cartrom' = cartrom /\ flashed' = flashed /\ status' = status
    BY <1>6 DEF PollFails, module
  <2>3. wire' \in Seq(0 .. Cmp) /\ Len(wire') = (Len(wire) + 2) - n
    BY <2>1, WireKept
  <2>4. Len(wire') <= MaxLate + 2
    <3>1. Len(wire) \in Nat /\ MaxLate \in Nat
      BY UpgradeAssumption, LenProperties
    <3> QED
      BY <2>2, <2>3, <3>1
  <2>5. cartrom \in Images /\ flashed \subseteq Images /\ status \in 0 .. 15
    OBVIOUS
  <2> QED
    BY <2>2, <2>3, <2>4, <2>5
<1>7. CASE Start
  <2>1. wire' \in Seq(0 .. Cmp) /\ Len(wire') <= MaxLate + 2
    BY <1>7, LateKept DEF Start
  <2>2. cartrom' = cartrom /\ flashed' = flashed /\ status' \in {status, Verifying}
    BY <1>7 DEF Start
  <2>3. cartrom' \in Images /\ flashed' \subseteq Images
    BY <2>2
  <2>4. status' \in 0 .. 15
    BY <2>2 DEF Verifying
  <2> QED
    BY <2>1, <2>3, <2>4
<1>8. CASE Advance
  <2>1. status' \in 0 .. 15
    BY <1>8 DEF Advance, Upgrading, Verifying, Erasing, Writing, Success, GeneralFail, BadVariant,
                VerifyFail
  <2>2. flashed' \subseteq Images
    BY <1>8 DEF Advance, Upgrading, Verifying, Erasing, Writing
  <2> QED
    BY <1>8, <2>1, <2>2 DEF Advance
<1>9. CASE PowerCycle
  BY <1>9, GarbageIsImage, UpgradeAssumption DEF PowerCycle, Ready
<1>10. CASE Version \/ Verify \/ Confirm \/ Fail \/ Finished \/ Interrupt \/ Kill
  BY <1>10, LateKept DEF Version, Verify, Confirm, Fail, Finished, Interrupt, Kill, module
<1>11. CASE UNCHANGED vars
  BY <1>11 DEF vars, module
<1> QED
  BY <1>1, <1>2, <1>3, <1>4, <1>5, <1>6, <1>7, <1>8, <1>9, <1>10, <1>11 DEF Next, Host

\* The command does.
LEMMA CommandTypes ==
  ASSUME CommandTypeOK, [Next]_vars
  PROVE  CommandTypeOK'
PROOF
<1> USE DEF CommandTypeOK
<1>1. CASE Call
  BY <1>1, UpgradeAssumption DEF Call
<1>2. CASE Version
  BY <1>2 DEF Version, Goto, Exit, command
<1>3. CASE Upload \/ UploadStops
  BY <1>3 DEF Upload, UploadStops, Goto, Exit, command
<1>4. CASE Verify
  BY <1>4 DEF Verify, Goto, Exit, command
<1>5. CASE Report
  BY <1>5 DEF Report, Prompt, Exit, command
<1>6. CASE Confirm \/ Start
  BY <1>6 DEF Confirm, Start, Goto, Exit, command
<1>7. CASE Fail \/ Finished \/ Kill
  BY <1>7 DEF Fail, Finished, Kill, Exit, command
<1>8. CASE Poll \/ PollFails \/ Interrupt
  BY <1>8 DEF Poll, PollFails, Interrupt, command
<1>9. CASE Advance \/ PowerCycle
  BY <1>9 DEF Advance, PowerCycle, command
<1>10. CASE UNCHANGED vars
  BY <1>10 DEF vars, command
<1> QED
  BY <1>1, <1>2, <1>3, <1>4, <1>5, <1>6, <1>7, <1>8, <1>9, <1>10 DEF Next, Host

------------------------------------------------------------------------------
(* Answers *)

\* What is left of framed halves is framed.
LEMMA FramedRest ==
  ASSUME NEW s \in Seq(0 .. Cmp), NEW n \in 0 .. Len(s), wire' = SubSeq(s, n + 1, Len(s)),
         \A i \in 1 .. Len(s) - 1 : s[i] # Cmp \/ s[i + 1] # Cmp
  PROVE  Framed'
PROOF
<1>1. Len(s) \in Nat /\ n \in Nat
  BY LenProperties
<1>2. Len(wire') = Len(s) - n /\ \A i \in 1 .. Len(s) - n : wire'[i] = s[n + i]
  BY Rest
<1> SUFFICES ASSUME NEW i \in 1 .. Len(wire') - 1
             PROVE  wire'[i] # Cmp \/ wire'[i + 1] # Cmp
  BY DEF Framed
<1>3. wire'[i] = s[n + i] /\ wire'[i + 1] = s[n + (i + 1)]
  BY <1>1, <1>2
<1>4. n + i \in 1 .. Len(s) - 1 /\ n + (i + 1) = (n + i) + 1
  BY <1>1, <1>2
<1> QED
  BY <1>3, <1>4

\* The answer to a report keeps the order.
LEMMA SentFramed ==
  ASSUME DriveTypeOK, Framed, pc = "poll"
  PROVE  /\ Sent \in Seq(0 .. Cmp) /\ Len(Sent) = Len(wire) + 2 /\ Len(wire) \in Nat
         /\ \A i \in 1 .. Len(Sent) - 1 : Sent[i] # Cmp \/ Sent[i + 1] # Cmp
PROOF
<1>1. wire \in Seq(0 .. Cmp) /\ Len(wire) \in Nat /\ status \in 0 .. Cmp /\ status # Cmp
  BY DEF DriveTypeOK, Cmp
<1>2. Sent \in Seq(0 .. Cmp) /\ Len(Sent) = Len(wire) + 2
  BY <1>1 DEF Sent, Cmp
<1>3. /\ \A i \in 1 .. Len(wire) : Sent[i] = wire[i]
      /\ Sent[Len(wire) + 1] = status
  BY <1>1 DEF Sent, Cmp
<1>4. ASSUME NEW i \in 1 .. Len(Sent) - 1
      PROVE  Sent[i] # Cmp \/ Sent[i + 1] # Cmp
  <2>1. CASE i <= Len(wire) - 1
    <3>1. i \in 1 .. Len(wire) - 1 /\ i \in 1 .. Len(wire) /\ i + 1 \in 1 .. Len(wire)
      BY <1>1, <2>1
    <3> QED
      BY <1>3, <3>1 DEF Framed
  <2>2. CASE i = Len(wire)
    BY <1>1, <1>3, <2>2
  <2>3. CASE i = Len(wire) + 1
    BY <1>1, <1>3, <2>3
  <2> QED
    BY <1>1, <1>2, <2>1, <2>2, <2>3
<1> QED
  BY <1>1, <1>2, <1>4

\* No step puts two completion packets next to each other during the poll.
LEMMA FramesKept ==
  ASSUME DriveTypeOK, Before, Framed, [Next]_vars
  PROVE  Framed'
PROOF
<1>1. CASE Start
  <2>1. pc' = "poll" => wire' = <<>>
    BY <1>1 DEF Start, Goto, Exit, Before
  <2> QED
    BY <2>1 DEF Framed
<1>2. CASE Poll \/ PollFails
  <2>1. PICK n \in 0 .. 2 : Taken(n)
    BY <1>2 DEF Poll, PollFails
  <2>2. pc = "poll"
    BY <1>2 DEF Poll, PollFails
  <2>3. n \in 0 .. Len(Sent)
    BY <2>2, SentFramed
  <2> QED
    BY <2>1, <2>2, <2>3, SentFramed, FramedRest DEF Taken
<1>3. CASE Advance \/ Interrupt \/ UNCHANGED vars
  BY <1>3 DEF Advance, Interrupt, vars, Framed
<1>4. CASE pc' # "poll"
  BY <1>4 DEF Framed
<1> QED
  BY <1>1, <1>2, <1>3, <1>4
  DEF Next, Host, Call, Version, Upload, UploadStops, Verify, Report, Confirm, Fail, Finished,
      Kill, PowerCycle, Goto, Prompt, Exit

------------------------------------------------------------------------------
(* The course of a command *)

\* Nothing has happened at first.
LEMMA Starts == Init => Inv
PROOF
<1> SUFFICES ASSUME Init PROVE Inv
  OBVIOUS
<1>1. DriveTypeOK
  BY UpgradeAssumption DEF Init, DriveTypeOK, Images, Reset, Ready
<1>2. CommandTypeOK
  <2>1. calls \in 0 .. MaxCalls
    BY UpgradeAssumption DEF Init
  <2> QED
    BY <2>1 DEF Init, CommandTypeOK
<1>3. Framed /\ InOrder
  BY DEF Init, Framed, InOrder
<1>4. PollTypeOK /\ Before /\ Written /\ Seen /\ Ended /\ OutcomeTrue
  BY DEF Init, PollTypeOK, Before, Written, Seen, Ended, OutcomeTrue, Ready
<1> QED
  BY <1>1, <1>2, <1>3, <1>4 DEF Inv, Course

\* A command that ends without an outcome of the upgrade leaves nothing to be true.
LEMMA Leaving ==
  ASSUME NEW r \in {"error", "interrupted", "killed", "powercycle", "declined"}, Exit(r)
  PROVE  Course'
PROOF
<1>1. pc' = "idle" /\ result' = r /\ curstat' = Ready /\ pbidx' = 0
  BY DEF Exit
<1>2. PollTypeOK' /\ Before' /\ Written' /\ Seen' /\ Ended' /\ OutcomeTrue'
  BY <1>1 DEF PollTypeOK, Before, Written, Seen, Ended, OutcomeTrue, Ready
<1> QED
  BY <1>2 DEF Course

\* The steps before and between the transfers, and those that end them.
LEMMA Prepares ==
  ASSUME Inv, Call \/ Version \/ Fail \/ Kill \/ Confirm \/ Interrupt
  PROVE  Course'
PROOF
<1> USE DEF Inv, Course
<1>1. CASE Call
  <2>1. (pc' = "version" /\ result' = "none") \/ (pc' = "idle" /\ result' = "error")
    BY <1>1 DEF Call
  <2>2. curstat' = curstat /\ pbidx' = pbidx /\ curstat = Ready /\ pbidx = 0
    BY <1>1 DEF Call, Ended
  <2> QED
    BY <2>1, <2>2 DEF PollTypeOK, Before, Written, Seen, Ended, OutcomeTrue
<1>2. CASE Version
  <2>1. CASE wire = <<>> /\ Fits(archive) /\ Goto("upload")
    BY <1>2, <2>1
    DEF Version, Goto, command, module, PollTypeOK, Before, Written, Seen, Ended, OutcomeTrue, Fits
  <2> QED
    BY <1>2, <2>1, Leaving DEF Version
<1>3. CASE Fail \/ Kill
  BY <1>3, Leaving DEF Fail, Kill
<1>4. CASE Confirm
  <2>1. CASE Goto("start")
    BY <1>4, <2>1
    DEF Confirm, Goto, command, module, PollTypeOK, Before, Written, Seen, Ended, OutcomeTrue, Fits
  <2> QED
    BY <1>4, <2>1, Leaving DEF Confirm
<1>5. CASE Interrupt
  BY <1>5
  DEF Interrupt, command, module, PollTypeOK, Before, Written, Seen, Ended, OutcomeTrue, Fits
<1> QED
  BY <1>1, <1>2, <1>3, <1>4, <1>5

\* The transfers, after which the image is in CARTROM.
LEMMA Transfers ==
  ASSUME Inv, Upload \/ UploadStops \/ Verify
  PROVE  Course'
PROOF
<1> USE DEF Inv, Course
<1>1. CASE Goto("verify") /\ Upload
  BY <1>1
  DEF Upload, Goto, command, module, PollTypeOK, Before, Written, Seen, Ended, OutcomeTrue, Fits
<1>2. CASE Verify
  <2>1. CASE Goto("report")
    <3>1. archive.asset = NoAsset \/ cartrom = archive.asset
      <4>1. archive.asset \in {NoAsset, cartrom, Garbage}
        BY <1>2, <2>1 DEF Verify, Goto, Exit
      <4> QED
        BY <4>1, ArchiveAsset DEF CommandTypeOK
    <3>2. Before'
      BY <1>2, <2>1, <3>1 DEF Verify, Goto, command, module, Before, Fits
    <3> QED
      BY <1>2, <2>1, <3>2
      DEF Verify, Goto, command, module, PollTypeOK, Written, Seen, Ended, OutcomeTrue
  <2> QED
    BY <1>2, <2>1, Leaving DEF Verify
<1>3. CASE ~Goto("verify") /\ Upload
  BY <1>3, Leaving DEF Upload
<1>4. CASE UploadStops
  BY <1>4, Leaving DEF UploadStops
<1> QED
  BY <1>1, <1>2, <1>3, <1>4

\* The module is ready, and its answer was read to the end.
LEMMA Reports ==
  ASSUME Inv, Report
  PROVE  Course'
PROOF
<1> USE DEF Inv, Course
<1>1. wire = <<>> /\ Sent = <<status, Cmp>>
  BY DEF Report, Before, Sent
<1>2. CASE Taken(2) /\ Sent[1] = Ready /\ Prompt
  <2>1. wire' = <<>>
    BY <1>1, <1>2 DEF Taken
  <2>2. status = Ready
    BY <1>1, <1>2
  <2>3. Before'
    BY <1>2, <2>1, <2>2 DEF Report, Prompt, command, module, Before, Fits
  <2> QED
    BY <1>2, <2>3
    DEF Report, Prompt, command, module, PollTypeOK, Written, Seen, Ended, OutcomeTrue
<1> QED
  BY <1>2, Leaving DEF Report

\* The start of an upgrade.
LEMMA Starting ==
  ASSUME Inv, Start
  PROVE  Course'
PROOF
<1> USE DEF Inv, Course
<1>1. CASE Goto("poll")
  <2>1. /\ status = Ready /\ wire = <<>> /\ status' \in {Ready, Verifying} /\ wire' = wire
        /\ cartrom' = cartrom /\ flashed' = flashed /\ pc = "start" /\ pc' = "poll"
        /\ result' = result /\ archive' = archive /\ curstat' = curstat /\ pbidx' = pbidx
    BY <1>1 DEF Start, Goto, Exit, Before, command
  <2>2. status' = Verifying
    BY <1>1, <2>1 DEF Start, Goto, Exit
  <2>3. curstat = Ready /\ result = "none"
    BY <2>1 DEF Ended
  <2>4. Written' /\ Before'
    BY <2>1, <2>2 DEF Written, Before, Verifying, Fits
  <2>5. Seen'
    BY <2>1, <2>3
    DEF Seen, Ready, Success, Failed, GeneralFail, BadVariant, VerifyFail
  <2> QED
    BY <2>1, <2>3, <2>4, <2>5 DEF PollTypeOK, Ended, OutcomeTrue
<1> QED
  BY <1>1, Leaving DEF Start

\* Its polls.
LEMMA Polls ==
  ASSUME Inv, Poll \/ PollFails
  PROVE  Course'
PROOF
<1> USE DEF Inv, Course
<1>1. PICK n \in 0 .. 2 : Taken(n)
  BY DEF Poll, PollFails
<1>2. /\ \A i \in 1 .. Len(wire') :
           wire'[i] \in {status, Cmp} \cup {wire[j] : j \in 1 .. Len(wire)}
      /\ Sent[1] \in {status} \cup {wire[j] : j \in 1 .. Len(wire)}
      /\ Sent[1] \in 0 .. Cmp
  BY <1>1, WireKept
<1>3. /\ cartrom' = cartrom /\ status' = status /\ flashed' = flashed /\ result' = result
      /\ archive' = archive /\ pc = "poll" /\ pc' = "poll"
  BY DEF Poll, PollFails, module, command
<1>4. curstat' \in {curstat, status} \cup {wire[j] : j \in 1 .. Len(wire)}
  BY <1>2 DEF Poll, PollFails
<1>5. Seen'
  <2> SUFFICES ASSUME NEW stat \in {curstat'} \cup {wire'[i] : i \in 1 .. Len(wire')}
               PROVE  /\ stat = Success => status = Success
                      /\ stat \in Failed => status \in Failed
    BY <1>3 DEF Seen
  <2>1. stat \in {curstat, status, Cmp} \cup {wire[j] : j \in 1 .. Len(wire)}
    BY <1>2, <1>4
  <2>2. CASE stat \in {curstat} \cup {wire[j] : j \in 1 .. Len(wire)}
    BY <1>3, <2>2 DEF Seen
  <2>3. CASE stat \in {status, Cmp}
    BY <2>3 DEF Cmp, Success, Failed, GeneralFail, BadVariant, VerifyFail
  <2> QED
    BY <2>1, <2>2, <2>3
<1>6. PollTypeOK'
  <2>1. CASE Poll
    <3>1. Sent[1] # Cmp
      <4>1. 1 \in 1 .. Len(Sent) - 1
        BY <1>3, SentFramed
      <4>2. Sent[2] = Cmp
        BY <2>1 DEF Poll, Good
      <4>3. Sent[1] # Cmp \/ Sent[1 + 1] # Cmp
        BY <1>3, <4>1, SentFramed
      <4> QED
        BY <4>2, <4>3
    <3>2. curstat' \in 0 .. 15
      BY <1>2, <2>1, <3>1 DEF Poll, Cmp
    <3>3. pbidx' \in 0 .. 10
      BY <2>1 DEF Poll, Bar, PollTypeOK, Verifying, Erasing, Writing
    <3> QED
      BY <3>2, <3>3 DEF PollTypeOK
  <2>2. CASE PollFails
    BY <2>2 DEF PollFails, PollTypeOK
  <2> QED
    BY <2>1, <2>2
<1>7. Before' /\ Written' /\ Ended' /\ OutcomeTrue'
  BY <1>3 DEF Before, Written, Ended, OutcomeTrue, Fits
<1> QED
  BY <1>5, <1>6, <1>7

\* What was seen is what has happened, and then all of it has been written.
LEMMA Ends ==
  ASSUME Inv, Finished
  PROVE  Course'
PROOF
<1> USE DEF Inv, Course
<1>1. /\ pc = "poll" /\ pc' = "idle" /\ curstat' = Ready /\ pbidx' = 0
      /\ result' = IF curstat = Success THEN "success" ELSE "failed"
      /\ archive' = archive /\ cartrom' = cartrom /\ status' = status /\ flashed' = flashed
  BY DEF Finished, Exit, command, module
<1>2. curstat = Success => status = Success
  BY <1>1 DEF Seen
<1>3. curstat # Success => status \in Failed
  BY <1>1 DEF Finished, IsFinished, Seen
<1>4. status = Success => flashed = {cartrom}
  BY <1>1 DEF Written, Success
<1>5. archive.asset = NoAsset \/ cartrom = archive.asset
  BY <1>1 DEF Before
<1>6. OutcomeTrue' /\ Ended'
  BY <1>1, <1>2, <1>3, <1>4, <1>5 DEF OutcomeTrue, Ended
<1>7. PollTypeOK' /\ Before' /\ Written' /\ Seen'
  BY <1>1 DEF PollTypeOK, Before, Written, Seen, Ready
<1> QED
  BY <1>6, <1>7

\* Its steps in background.
LEMMA Advances ==
  ASSUME Inv, Advance
  PROVE  Course'
PROOF
<1> USE DEF Inv, Course
<1>1. /\ cartrom' = cartrom /\ wire' = wire /\ pc' = pc /\ result' = result
      /\ archive' = archive /\ curstat' = curstat /\ pbidx' = pbidx
      /\ status \in 2 .. 10
  BY DEF Advance, command, Upgrading, Verifying, Erasing, Writing
<1>2. \/ status \in 2 .. 9 /\ status' = status + 1
      \/ status = 10 /\ status' = 12
      \/ status' \in 13 .. 15
  BY <1>1 DEF Advance, Success, GeneralFail, BadVariant, VerifyFail, Verifying
<1>3. Written'
  <2>1. status \in 3 .. 6 => flashed' = {}
    BY DEF Advance, Erasing
  <2>2. status \in 7 .. 10 => flashed' = flashed \cup {cartrom}
    BY DEF Advance, Erasing, Writing
  <2>3. pc = "poll" /\ status = 7 => flashed = {}
    BY DEF Written
  <2>4. pc = "poll" /\ status \in 8 .. 10 => flashed = {cartrom}
    BY DEF Written
  <2>5. pc = "poll" /\ status' \in 4 .. 7 => flashed' = {}
    BY <1>1, <1>2, <2>1
  <2>6. pc = "poll" /\ status' \in 8 .. 12 => flashed' = {cartrom}
    <3>1. status' \in 8 .. 12 => status \in 7 .. 10
      BY <1>1, <1>2
    <3>2. status \in 7 .. 10 => status = 7 \/ status \in 8 .. 10
      BY <1>1
    <3> QED
      BY <2>2, <2>3, <2>4, <3>1, <3>2
  <2>7. status' \in 2 .. 15
    BY <1>1, <1>2
  <2> QED
    BY <1>1, <2>5, <2>6, <2>7 DEF Written
<1>4. Seen'
  <2> SUFFICES ASSUME pc = "poll", NEW stat \in {curstat} \cup {wire[i] : i \in 1 .. Len(wire)}
               PROVE  stat # Success /\ stat \notin Failed
    BY <1>1 DEF Seen
  <2>1. status # Success /\ status \notin Failed
    BY <1>1 DEF Success, Failed, GeneralFail, BadVariant, VerifyFail
  <2> QED
    BY <2>1 DEF Seen
<1>5. status # Ready /\ status # Success /\ status \notin Failed
  BY <1>1 DEF Ready, Success, Failed, GeneralFail, BadVariant, VerifyFail
<1>6. PollTypeOK' /\ Before' /\ Ended' /\ OutcomeTrue'
  BY <1>1, <1>5 DEF PollTypeOK, Before, Ended, OutcomeTrue, Fits
<1> QED
  BY <1>3, <1>4, <1>6

\* A power cycle between two commands.
LEMMA PowerCycles ==
  ASSUME Inv, PowerCycle
  PROVE  Course'
PROOF
<1>1. /\ pc = "idle" /\ pc' = pc /\ result' = "none" /\ curstat' = curstat /\ pbidx' = pbidx
  BY DEF PowerCycle, command
<1> QED
  BY <1>1 DEF Inv, Course, PollTypeOK, Before, Written, Seen, Ended, OutcomeTrue

\* A step that changes nothing.
LEMMA Stutters ==
  ASSUME Inv, UNCHANGED vars
  PROVE  Course'
PROOF
  BY DEF Inv, Course, vars, module, command, PollTypeOK, Before, Written, Seen, Ended,
         OutcomeTrue, Fits

\* What is met, and what is left of a stream in order, is in order.
LEMMA OrderRest ==
  ASSUME Inv, pc = "poll", NEW n \in 0 .. 2, Taken(n)
  PROVE  /\ \A i \in 1 .. Len(wire') : wire'[i] # Cmp => wire'[i] \in curstat .. status
         /\ \A i \in 1 .. Len(wire') : \A j \in i .. Len(wire') :
              wire'[i] # Cmp /\ wire'[j] # Cmp => wire'[i] <= wire'[j]
         /\ Sent[1] # Cmp => Sent[1] \in curstat .. status
         /\ n = 2 /\ Good =>
              \A i \in 1 .. Len(wire') : wire'[i] # Cmp => wire'[i] \in Sent[1] .. status
PROOF
<1>1. /\ wire \in Seq(0 .. Cmp) /\ Len(wire) \in Nat /\ status \in 0 .. 15
      /\ curstat \in 0 .. 15 /\ curstat <= status
  BY DEF Inv, DriveTypeOK, Course, PollTypeOK, InOrder, Ready
<1>2. Sent \in Seq(0 .. Cmp) /\ Len(Sent) = Len(wire) + 2
  BY SentFramed DEF Inv
<1>3. /\ \A i \in 1 .. Len(wire) : Sent[i] = wire[i]
      /\ Sent[Len(wire) + 1] = status /\ Sent[Len(wire) + 2] = Cmp
  BY <1>1 DEF Sent, Cmp
<1>4. \A i \in 1 .. Len(Sent) : Sent[i] \in 0 .. Cmp
  BY <1>2, ElementOfSeq
<1>5. ASSUME NEW i \in 1 .. Len(Sent), Sent[i] # Cmp
      PROVE  Sent[i] \in curstat .. status
  <2>1. CASE i \in 1 .. Len(wire)
    BY <1>3, <1>5, <2>1 DEF Inv, InOrder
  <2>2. CASE i = Len(wire) + 1
    BY <1>1, <1>3, <2>2
  <2>3. i # Len(wire) + 2
    BY <1>3, <1>5
  <2> QED
    BY <1>1, <1>2, <2>1, <2>2, <2>3
<1>6. ASSUME NEW i \in 1 .. Len(Sent), NEW j \in i .. Len(Sent), Sent[i] # Cmp, Sent[j] # Cmp
      PROVE  Sent[i] <= Sent[j]
  <2>1. j # Len(wire) + 2 /\ j \in 1 .. Len(Sent)
    BY <1>2, <1>1, <1>3, <1>6
  <2>2. CASE j \in 1 .. Len(wire)
    <3>1. i \in 1 .. Len(wire) /\ j \in i .. Len(wire)
      BY <1>1, <2>2
    <3> QED
      BY <1>3, <1>6, <2>2, <3>1 DEF Inv, InOrder
  <2>3. CASE j = Len(wire) + 1
    <3>1. Sent[j] = status /\ Sent[i] \in curstat .. status
      BY <1>3, <1>5, <1>6, <2>3
    <3> QED
      BY <1>1, <3>1
  <2> QED
    BY <1>1, <1>2, <2>1, <2>2, <2>3
<1>7. n \in 0 .. Len(Sent) /\ n \in Nat
  BY <1>1, <1>2
<1>8. Len(wire') = Len(Sent) - n /\ \A i \in 1 .. Len(Sent) - n : wire'[i] = Sent[n + i]
  BY <1>2, <1>7, Rest DEF Taken
<1>9. \A i \in 1 .. Len(wire') : n + i \in 1 .. Len(Sent) /\ wire'[i] = Sent[n + i]
  BY <1>1, <1>2, <1>7, <1>8
<1>10. \A i \in 1 .. Len(wire') : wire'[i] # Cmp => wire'[i] \in curstat .. status
  BY <1>5, <1>9
<1>11. \A i \in 1 .. Len(wire') : \A j \in i .. Len(wire') :
         wire'[i] # Cmp /\ wire'[j] # Cmp => wire'[i] <= wire'[j]
  <2> SUFFICES ASSUME NEW i \in 1 .. Len(wire'), NEW j \in i .. Len(wire'),
                      wire'[i] # Cmp, wire'[j] # Cmp
               PROVE  wire'[i] <= wire'[j]
    OBVIOUS
  <2>1. j \in 1 .. Len(wire') /\ n + j \in (n + i) .. Len(Sent)
    BY <1>1, <1>2, <1>7, <1>8
  <2> QED
    BY <1>6, <1>9, <2>1
<1>12. 1 \in 1 .. Len(Sent)
  BY <1>1, <1>2
<1>13. Sent[1] # Cmp => Sent[1] \in curstat .. status
  BY <1>5, <1>12
<1>14. ASSUME n = 2, Good, NEW i \in 1 .. Len(wire'), wire'[i] # Cmp
       PROVE  wire'[i] \in Sent[1] .. status
  <2>1. Sent[1] # Cmp
    <3>1. 1 \in 1 .. Len(Sent) - 1 /\ Sent[1 + 1] = Cmp
      BY <1>1, <1>2, <1>14 DEF Good
    <3> QED
      BY <3>1, SentFramed DEF Inv
  <2>2. n + i \in 1 .. Len(Sent) /\ wire'[i] = Sent[n + i]
    BY <1>9, <1>14
  <2>3. Sent[1] <= wire'[i]
    <3>1. n + i \in 1 .. Len(Sent)
      BY <2>2
    <3> QED
      BY <1>6, <1>12, <1>14, <2>1, <2>2, <3>1
  <2>4. wire'[i] \in curstat .. status /\ Sent[1] \in curstat .. status
    BY <1>10, <1>13, <1>14, <2>1
  <2> QED
    BY <1>1, <2>3, <2>4
<1> QED
  BY <1>10, <1>11, <1>13, <1>14

\* A report that is read is a status, no earlier than the last one; the bar follows it.
LEMMA BarFollows ==
  ASSUME Inv, Poll
  PROVE  /\ curstat' \in curstat .. status /\ curstat \in Ready .. 10 \cup {11}
         /\ pbidx' >= pbidx
         /\ curstat' \in Ready .. 10 => pbidx' = curstat' - 1
PROOF
<1>1. pc = "poll" /\ Taken(2) /\ Good /\ curstat' = Sent[1] /\ ~IsFinished(curstat)
  BY DEF Poll
<1>2. /\ status \in 0 .. 15 /\ curstat \in 0 .. 15 /\ curstat \in Ready .. status
      /\ pbidx \in 0 .. 10 /\ (curstat \in Ready .. 10 => pbidx = curstat - 1)
  BY <1>1 DEF Inv, DriveTypeOK, Course, PollTypeOK, InOrder
<1>3. Sent[1] # Cmp
  <2>1. 1 \in 1 .. Len(Sent) - 1 /\ Sent[1 + 1] = Cmp
    BY <1>1, SentFramed DEF Inv, Good
  <2> QED
    BY <1>1, <2>1, SentFramed DEF Inv
<1>4. curstat' \in curstat .. status
  BY <1>1, <1>3, OrderRest
<1>5. curstat \in 1 .. 11
  BY <1>1, <1>2
  DEF Ready, IsFinished, Success, Failed, GeneralFail, BadVariant, VerifyFail
<1>6. pbidx' = IF curstat' = curstat THEN pbidx ELSE Bar(curstat')
  BY <1>1 DEF Poll
<1>7. ASSUME curstat' # curstat, curstat' \in 2 .. 10
      PROVE  pbidx' = curstat' - 1 /\ curstat \in 1 .. 9 /\ curstat <= curstat'
  <2>1. curstat' \in {Verifying} \cup Erasing \cup Writing
    BY <1>7 DEF Verifying, Erasing, Writing
  <2>2. pbidx' = curstat' - 1
    BY <1>6, <1>7, <2>1 DEF Bar
  <2>3. curstat <= curstat'
    BY <1>2, <1>4
  <2> QED
    BY <1>5, <1>7, <2>2, <2>3
<1>8. curstat' \in {11, 13, 14, 15} => pbidx' = pbidx
  BY <1>6 DEF Bar, Verifying, Erasing, Writing, Success
<1>9. curstat' = 12 => pbidx' = 10
  BY <1>5, <1>6 DEF Bar, Verifying, Erasing, Writing, Success
<1>10. curstat' = curstat => pbidx' = pbidx
  BY <1>6
<1>11. curstat' # curstat => curstat' \in 2 .. 15
  BY <1>2, <1>4, <1>5
<1>12. pbidx' >= pbidx
  <2>1. \/ curstat' = curstat \/ curstat' = 12 \/ curstat' \in {11, 13, 14, 15}
        \/ curstat' # curstat /\ curstat' \in 2 .. 10
    BY <1>11
  <2>2. CASE curstat' # curstat /\ curstat' \in 2 .. 10
    <3>1. curstat \in 1 .. 9 /\ pbidx' = curstat' - 1 /\ curstat <= curstat'
      BY <1>7, <2>2
    <3>2. pbidx = curstat - 1
      BY <1>2, <3>1 DEF Ready
    <3>3. \A c \in 1 .. 9, d \in 2 .. 10 : c <= d => d - 1 >= c - 1
      OBVIOUS
    <3> QED
      BY <2>2, <3>1, <3>2, <3>3
  <2> QED
    BY <1>2, <1>8, <1>9, <1>10, <2>1, <2>2
<1>13. curstat' \in Ready .. 10 => pbidx' = curstat' - 1
  BY <1>2, <1>7, <1>10, <1>11 DEF Ready
<1> QED
  BY <1>4, <1>5, <1>12, <1>13 DEF Ready

\* Each step keeps the order of the reports.
LEMMA OrderKept ==
  ASSUME Inv, [Next]_vars
  PROVE  InOrder'
PROOF
<1>1. CASE Start
  <2>1. CASE Goto("poll") /\ UNCHANGED wire
    <3>1. wire' = <<>> /\ status' = Verifying
      BY <1>1, <2>1 DEF Start, Goto, Exit, Inv, Course, Before
    <3>2. curstat' = Ready /\ pbidx' = 0
      BY <1>1, <2>1 DEF Start, Goto, Exit, Inv, Course, Ended
    <3> QED
      BY <3>1, <3>2 DEF InOrder, Ready, Verifying
  <2>2. CASE Exit("error")
    BY <2>2 DEF Exit, InOrder
  <2> QED
    BY <1>1, <2>1, <2>2 DEF Start
<1>2. CASE Poll
  <2>1. /\ pc = "poll" /\ Taken(2) /\ Good /\ curstat' = Sent[1] /\ status' = status
    BY <1>2 DEF Poll, module
  <2>2. curstat \in 1 .. 11 /\ status \in 0 .. 15
    BY <1>2, BarFollows DEF Ready, Inv, DriveTypeOK
  <2>3. curstat' \in Ready .. status'
    BY <1>2, <2>1, <2>2, BarFollows DEF Ready
  <2> QED
    BY <1>2, <2>1, <2>3, BarFollows, OrderRest DEF InOrder
<1>3. CASE PollFails
  <2>1. PICK n \in 0 .. 2 : Taken(n)
    BY <1>3 DEF PollFails
  <2>2. pc = "poll" /\ curstat' = curstat /\ pbidx' = pbidx /\ status' = status
    BY <1>3 DEF PollFails, module
  <2>3. InOrder
    BY DEF Inv
  <2> QED
    BY <2>1, <2>2, <2>3, OrderRest DEF InOrder
<1>4. CASE Advance
  <2>1. wire' = wire /\ curstat' = curstat /\ pbidx' = pbidx /\ pc' = pc
    BY <1>4 DEF Advance, command
  <2>2. status \in 0 .. 15 /\ status' \in 0 .. 15 /\ status <= status'
    BY <1>4
    DEF Advance, Upgrading, Verifying, Erasing, Writing, Success, GeneralFail, BadVariant,
        VerifyFail, Inv, DriveTypeOK
  <2>3. curstat \in 0 .. 15
    BY DEF Inv, Course, PollTypeOK
  <2>4. \A stat \in curstat .. status : stat \in curstat .. status'
    BY <2>2, <2>3
  <2>5. curstat \in Ready .. status => curstat \in Ready .. status'
    BY <2>2, <2>3 DEF Ready
  <2>6. InOrder
    BY DEF Inv
  <2> QED
    BY <2>1, <2>4, <2>5, <2>6 DEF InOrder
<1>5. CASE Interrupt \/ UNCHANGED vars
  BY <1>5 DEF Interrupt, vars, module, command, Inv, InOrder
<1>6. CASE pc' # "poll"
  BY <1>6 DEF InOrder
<1> QED
  BY <1>1, <1>2, <1>3, <1>4, <1>5, <1>6
  DEF Next, Host, Call, Version, Upload, UploadStops, Verify, Report, Confirm, Fail, Finished,
      Kill, PowerCycle, Goto, Prompt, Exit

\* Each step keeps the invariant.
LEMMA Steps == Inv /\ [Next]_vars => Inv'
PROOF
<1> SUFFICES ASSUME Inv, [Next]_vars PROVE Inv'
  OBVIOUS
<1>1. DriveTypeOK' /\ CommandTypeOK' /\ Framed' /\ InOrder'
  BY DriveTypes, CommandTypes, FramesKept, OrderKept DEF Inv, Course
<1>2. Course'
  BY Prepares, Transfers, Reports, Starting, Polls, Ends, Advances, PowerCycles, Stutters
  DEF Next, Host
<1> QED
  BY <1>1, <1>2 DEF Inv

------------------------------------------------------------------------------
(* The theorems *)

\* What holds at every moment of every upgrade.
THEOREM Invariance == Spec => []Inv
PROOF
  BY Starts, Steps, PTL DEF Spec

\* Every variable keeps its type, the stream of answers its bound (drive64.go:338).
THEOREM TypeCorrect == Spec => []TypeOK
PROOF
<1>1. Inv => TypeOK
  BY DEF Inv, Course, PollTypeOK, TypeOK
<1> QED
  BY <1>1, Invariance, PTL

\* Whatever the transfers and earlier programs did, CmdFirmwareUpgrade
\* (drive64.go:374) is only sent with a verified firmware for this 64drive.
THEOREM ImageVerified == Spec => []StartsVerified
PROOF
<1>1. Inv => StartsVerified
  BY DEF Inv, Course, Before, Fits, StartsVerified
<1> QED
  BY <1>1, Invariance, PTL

\* A reported success or failure (main.go:295) is that of this upgrade,
\* although answers are late and out of step.
THEOREM OutcomeTold == Spec => []OutcomeTrue
PROOF
<1>1. Inv => OutcomeTrue
  BY DEF Inv, Course
<1> QED
  BY <1>1, Invariance, PTL

\* The progress bar of the poll (main.go:281) never goes back: late answers
\* come in order too.
THEOREM BarAdvances == Spec => BarForward
PROOF
<1> DEFINE Forward == pc = "poll" /\ pc' = "poll" => pbidx' >= pbidx
<1>1. Inv /\ [Next]_vars => [Forward]_vars
  <2> SUFFICES ASSUME Inv, [Next]_vars, pc = "poll", pc' = "poll"
               PROVE  pbidx' >= pbidx
    OBVIOUS
  <2>1. CASE Poll
    BY <2>1, BarFollows
  <2>2. CASE pbidx' = pbidx
    BY <2>2 DEF Inv, Course, PollTypeOK
  <2> QED
    BY <2>1, <2>2
    DEF Next, Host, Call, Version, Upload, UploadStops, Verify, Report, Confirm, Start, Fail,
        PollFails, Finished, Interrupt, Kill, Advance, PowerCycle, Goto, Prompt, Exit, vars
<1> QED
  BY <1>1, Invariance, PTL DEF Spec, BarForward
==============================================================================
