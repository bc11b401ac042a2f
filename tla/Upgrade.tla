-------------------------------- MODULE Upgrade --------------------------------
(***************************************************************************)
(* g64drive firmware upgrade.  The firmware of an archive is uploaded to   *)
(* CARTROM and read back; then the 64drive is told to upgrade itself from  *)
(* there, which it does in background, and is asked for its status until   *)
(* it has finished.  An upgrade goes on without the program that started   *)
(* it, and the next program meets it.  Transfers are those of Transfer,    *)
(* reports those of Link: an answer is data and a completion packet (CMP), *)
(* and what was not read of it is met by the next report.                  *)
(***************************************************************************)
EXTENDS Naturals, Sequences

CONSTANTS
  Archives,  \* what may be given to the command
  Magic, Variant, \* of the 64drive
  MaxCalls,  \* bound of a check: number of commands
  MaxLate    \* bound of a check: halves of answers that are on their way

\* An archive without an asset blob has no image, and some memory is none.
NoAsset == ""
Garbage == "garbage"
Old == "old"

ASSUME UpgradeAssumption ==
  /\ Archives \subseteq [type : {"firmware", "bootloader", "unknown"}, magic : STRING,
                         variant : STRING, asset : STRING \ {Garbage}]
  /\ {Magic, Variant} \subseteq STRING
  /\ MaxCalls \in Nat /\ MaxLate \in Nat \ {0}

VARIABLES
  \* the 64drive
  cartrom,   \* the image at the beginning of CARTROM
  status,    \* what the upgrade module reports
  flashed,   \* the images that the parts of its firmware come from
  wire,      \* halves of answers: a status, or Cmp
  \* the command
  pc, archive, result, calls,
  cancelled, \* Ctrl+C, as long as it only cancels a context
  curstat,   \* the status that was seen last
  pbidx      \* the progress bar

module == <<status, flashed>>
command == <<archive, calls>>
vars == <<cartrom, module, wire, pc, result, command, cancelled, curstat, pbidx>>

Images == {a.asset : a \in Archives} \cup {Garbage, Old}
NoArchive == [type |-> "unknown", magic |-> "", variant |-> "", asset |-> NoAsset]

\* UpgradeStatus: 3 to 6 are Erasing00 to 75, 7 to 10 Writing00 to 75.
Reset == 0
Ready == 1
Verifying == 2
Erasing == 3 .. 6
Writing == 7 .. 10
Success == 12
GeneralFail == 13
BadVariant == 14
VerifyFail == 15
Failed == {GeneralFail, BadVariant, VerifyFail}
Cmp == 16  \* no status

\* Mutant: failures are not among the final statuses.
IsSuccess(stat) == stat = Success
IsFinished(stat) == stat = Success \/ stat \in Failed
Upgrading == status \in {Verifying} \cup Erasing \cup Writing

Init ==
  /\ cartrom = Garbage /\ status \in {Reset, Ready} /\ flashed = {Old} /\ wire = <<>>
  /\ pc = "idle" /\ archive = NoArchive /\ result = "none" /\ calls = 0
  /\ cancelled = FALSE /\ curstat = Ready /\ pbidx = 0

------------------------------------------------------------------------------
(* The upgrade module *)

\* It verifies what is in CARTROM, erases and writes; each step may fail.
Advance ==
  /\ Upgrading
  /\ \/ /\ status' = IF status = 10 THEN Success ELSE status + 1
        /\ status = Verifying => cartrom # Garbage
     \/ status' = GeneralFail
     \/ status = Verifying /\ status' \in {BadVariant, VerifyFail}
  /\ flashed' = IF status \in Erasing THEN {}
                ELSE IF status \in Writing THEN flashed \cup {cartrom} ELSE flashed
  /\ UNCHANGED <<cartrom, wire, pc, result, command, cancelled, curstat, pbidx>>

\* Not during an upgrade (drive64.go:377).  CARTROM is volatile.
PowerCycle ==
  /\ pc = "idle" /\ ~Upgrading /\ status # Ready
  /\ status' = Ready /\ cartrom' = Garbage /\ wire' = <<>> /\ result' = "none"
  /\ UNCHANGED <<flashed, pc, command, cancelled, curstat, pbidx>>

------------------------------------------------------------------------------
(* Before the upgrade *)

Goto(label) == pc' = label /\ UNCHANGED <<result, command, cancelled, curstat, pbidx>>

\* Out of the context that Ctrl+C cancels: what came too late for it is lost.
Prompt == pc' = "confirm" /\ cancelled' = FALSE /\ UNCHANGED <<result, command, curstat, pbidx>>

Exit(r) ==
  /\ pc' = "idle" /\ result' = r
  /\ cancelled' = FALSE /\ curstat' = Ready /\ pbidx' = 0
  /\ UNCHANGED command

\* The completion packet of a command that failed or was cut off may still come.
Late == wire' = wire \/ (Len(wire) <= MaxLate /\ wire' = Append(wire, Cmp))

\* fwCmd and the type of the archive; opening the 64drive drops what has arrived.
Call ==
  \E a \in Archives :
    /\ pc = "idle" /\ calls < MaxCalls
    /\ calls' = calls + 1 /\ archive' = a
    /\ IF a.type = "firmware" THEN pc' = "version" /\ result' = "none"
       ELSE pc' = "idle" /\ result' = "error"
    /\ \E n \in 0 .. Len(wire) : wire' = SubSeq(wire, n + 1, Len(wire))
    /\ UNCHANGED <<cartrom, module, cancelled, curstat, pbidx>>

\* Mutant: only the product is looked at.
FitsProduct(a) == a.magic = Magic
Fits(a) == a.magic = Magic /\ a.variant = Variant

\* A version request that meets a part of another answer fails, or gets no magic number.
Version ==
  /\ pc = "version"
  /\ \/ wire = <<>> /\ Fits(archive) /\ Goto("upload")
     \/ ~Fits(archive) /\ Exit("error")
  /\ UNCHANGED <<cartrom, module, wire>>

\* An empty asset is no data to transfer.  The SDRAM may be faulty.
Upload ==
  /\ pc = "upload"
  /\ cartrom' \in IF archive.asset = NoAsset THEN {cartrom} ELSE {archive.asset, Garbage}
  /\ IF cancelled THEN Exit("interrupted") ELSE Goto("verify")
  /\ UNCHANGED <<module, wire>>

\* A part of it is in the memory.
UploadStops ==
  /\ pc = "upload"
  /\ cartrom' \in {cartrom, Garbage}
  /\ \/ Exit("error") /\ Late
     \/ cancelled /\ Exit("interrupted") /\ UNCHANGED wire
  /\ UNCHANGED module

\* Mutant: the checksum is not compared.
VerifyNothing ==
  /\ pc = "verify"
  /\ IF cancelled THEN Exit("interrupted") ELSE Goto("report")
  /\ UNCHANGED <<cartrom, module, wire>>

\* The checksum of what is read back, which may be read wrongly.
Verify ==
  /\ pc = "verify"
  /\ \E read \in {cartrom, Garbage} :
       IF cancelled THEN Exit("interrupted")
       ELSE IF archive.asset \in {NoAsset, read} THEN Goto("report") ELSE Exit("error")
  /\ UNCHANGED <<cartrom, module, wire>>

\* The answer to a report, in full, or in part, when the driver gives up on the rest.
Sent == wire \o <<status, Cmp>>
Taken(n) == wire' = SubSeq(Sent, n + 1, Len(Sent))
Good == Sent[2] = Cmp

\* Mutant: the upgrade is started whatever the module reports.
ReportAny ==
  /\ pc = "report"
  /\ \/ Taken(2) /\ Good /\ Prompt
     \/ \E n \in 0 .. 2 : Taken(n) /\ (n = 2 => ~Good) /\ Exit("error")
  /\ UNCHANGED <<cartrom, module>>

(***************************************************************************)
(* Is the upgrade module ready?  The message of an error advises to power- *)
(* cycle the 64drive.                                                      *)
(***************************************************************************)
Report ==
  /\ pc = "report"
  /\ \/ Taken(2) /\ Good /\ (IF Sent[1] = Ready THEN Prompt ELSE Exit("powercycle"))
     \/ \E n \in 0 .. 2 : Taken(n) /\ (n = 2 => ~Good) /\ Exit("error")
  /\ UNCHANGED <<cartrom, module>>

\* The version that is shown is cached: nothing is sent (drive64.go:243).
Confirm ==
  /\ pc = "confirm"
  /\ Goto("start") \/ Exit("declined")
  /\ UNCHANGED <<cartrom, module, wire>>

\* The command may have its effect although its answer does not come.
Start ==
  /\ pc = "start"
  /\ \/ /\ status' = IF status = Ready THEN Verifying ELSE status
        /\ \/ Goto("poll") /\ UNCHANGED wire
           \/ Exit("error") /\ Late
     \/ Exit("error") /\ UNCHANGED <<status, wire>>
  /\ UNCHANGED <<cartrom, flashed>>

Fail ==
  /\ pc \in {"version", "verify"} /\ Exit("error") /\ Late
  /\ UNCHANGED <<cartrom, module>>

------------------------------------------------------------------------------
(* The poll *)

\* Mutants: every status, or none but those of an upgrade, has a place in the progress bar.
BarOfStatus(stat) == stat - 1
BarOrNothing(stat) == IF stat \in {Verifying} \cup Erasing \cup Writing THEN stat - 1
                      ELSE IF stat = Success THEN 10 ELSE 0

Bar(stat) == IF stat \in {Verifying} \cup Erasing \cup Writing THEN stat - 1
             ELSE IF stat = Success THEN 10 ELSE pbidx

Poll ==
  /\ pc = "poll" /\ ~IsFinished(curstat)
  /\ Taken(2) /\ Good
  /\ curstat' = Sent[1]
  /\ pbidx' = IF Sent[1] = curstat THEN pbidx ELSE Bar(Sent[1])
  /\ UNCHANGED <<cartrom, module, pc, result, command, cancelled>>

\* An error is ignored.
PollFails ==
  /\ pc = "poll" /\ ~IsFinished(curstat) /\ Len(wire) <= MaxLate
  /\ \E n \in 0 .. 2 : Taken(n) /\ (n = 2 => ~Good)
  /\ UNCHANGED <<cartrom, module, pc, result, command, cancelled, curstat, pbidx>>

Finished ==
  /\ pc = "poll" /\ IsFinished(curstat)
  /\ Exit(IF curstat = Success THEN "success" ELSE "failed")
  /\ UNCHANGED <<cartrom, module, wire>>

------------------------------------------------------------------------------
(* Ctrl+C cancels a transfer, and ends the program anywhere else. *)

Interrupt ==
  /\ pc \in {"upload", "verify", "report"} /\ ~cancelled /\ cancelled' = TRUE
  /\ UNCHANGED <<cartrom, module, wire, pc, result, command, curstat, pbidx>>

Kill ==
  /\ pc # "idle" /\ Exit("killed")
  /\ IF pc \in {"confirm", "poll"} THEN UNCHANGED wire ELSE Late
  /\ UNCHANGED <<cartrom, module>>

Host == Version \/ Upload \/ UploadStops \/ Verify \/ Report \/ Start \/ Fail
        \/ Poll \/ PollFails \/ Finished
Next == Call \/ Host \/ Confirm \/ Interrupt \/ Kill \/ Advance \/ PowerCycle
Spec == Init /\ [][Next]_vars

\* The program runs, an upgrade goes on, and the 64drive does not stop to answer in time.
FairSpec == Spec /\ WF_vars(Host) /\ WF_vars(Advance) /\ SF_vars(Poll)

------------------------------------------------------------------------------
(* What the upgrade promises *)

DriveTypeOK ==
  /\ cartrom \in Images /\ flashed \subseteq Images /\ status \in 0 .. 15
  /\ wire \in Seq(0 .. Cmp) /\ Len(wire) <= MaxLate + 2

CommandTypeOK ==
  /\ pc \in {"idle", "version", "upload", "verify", "report", "confirm", "start", "poll"}
  /\ archive \in Archives \cup {NoArchive} /\ calls \in 0 .. MaxCalls
  /\ result \in {"none", "error", "interrupted", "killed", "powercycle", "declined",
                 "success", "failed"}
  /\ cancelled \in BOOLEAN

TypeOK == DriveTypeOK /\ CommandTypeOK /\ curstat \in 0 .. 15 /\ pbidx \in 0 .. 10

(***************************************************************************)
(* The upgrade is only started with a firmware for this 64drive, all of    *)
(* which was found in CARTROM (upgradeFirmware, drive64.go:374), whatever  *)
(* the transfers and an earlier program did.  An archive without an asset  *)
(* is the exception: nothing is uploaded or compared then.                 *)
(***************************************************************************)
StartsVerified ==
  pc = "start"
    => /\ archive.magic = Magic /\ archive.variant = Variant
       /\ archive.asset = NoAsset \/ cartrom = archive.asset

(***************************************************************************)
(* The reported outcome is that of this upgrade, although answers may be   *)
(* late and an earlier upgrade may have finished, or not, in background: a *)
(* success means that every part of the firmware comes from the archive.   *)
(***************************************************************************)
OutcomeTrue ==
  /\ result = "success" /\ archive.asset # NoAsset => flashed = {archive.asset}
  /\ result = "failed" => status \in Failed

(***************************************************************************)
(* The progress bar never goes back: the reports of an upgrade are seen in *)
(* the order in which they were made, late ones too (main.go:281).         *)
(***************************************************************************)
BarForward == [][pc = "poll" /\ pc' = "poll" => pbidx' >= pbidx]_vars

(***************************************************************************)
(* When an upgrade is polled for ever although the 64drive answers, host   *)
(* and 64drive are out of step for ever: half an answer is left behind.    *)
(***************************************************************************)
OutOfStep == Len(wire) % 2 = 1
UpgradeEnds == <>[](pc = "poll") => <>[]OutOfStep

(***************************************************************************)
(* The message of the error of Report (main.go:251) advises to power-cycle *)
(* the 64drive; "removing power during an upgrade might brick" it          *)
(* (drive64.go:377).                                                       *)
(***************************************************************************)
AdviceSafe == result = "powercycle" => ~Upgrading
==============================================================================
