-------------------------------- MODULE Session --------------------------------
(***************************************************************************)
(* g64drive ultrasave: commands that take the 64drive to standalone mode,  *)
(* where it is the master of the buses of a cart, and back: a dump of the  *)
(* cart, a probe of its ROM, one of its joybus device, and the commands of *)
(* its FlashRAM.  The commands that are sent are those of Link; each here  *)
(* succeeds or fails as a whole.  Reads and writes of the FlashRAM go on   *)
(* to the driver, Flash.                                                   *)
(*                                                                         *)
(* Data is counted in units of 2 bytes.                                    *)
(***************************************************************************)
EXTENDS Integers, Sequences, FiniteSetsExt, SequencesExt

CONSTANTS
  Sizes, Addresses, Bursts, \* options of a download
  Words,     \* what a probe may read
  Reads,     \* reads of a probe, 1 MiB after the other: 256
  Devices,   \* joybus devices
  Offsets,   \* values of --offset; those of --size are Sizes, and 0
  Files,     \* lengths of files
  Space,     \* units of the address space
  ChipSize,  \* units of the FlashRAM
  MaxCalls   \* bound of a check: number of commands

\* Of a word of the cart: the open bus, zero, or something else.
Open == "open"
Zero == "zero"
\* Units of a word, which bursts have a whole number of.
Word == 2
\* The device ID when nothing answers, that of an RTC, and others.
NoDevice == "none"
RtcId == "rtc"

(***************************************************************************)
(* A joybus device freezes the 64drive with a command that it does not     *)
(* know; of two commands for its ID, 0 is the regular one and 6 an RTC's.  *)
(***************************************************************************)
ASSUME SessionAssumption ==
  /\ Sizes \subseteq Int /\ Addresses \subseteq 0 .. Space - 1 /\ Bursts \subseteq Int
  /\ Words \subseteq STRING /\ Offsets \subseteq Int /\ Files \subseteq Nat
  /\ Devices \subseteq [id : STRING, knows : SUBSET {0, 6}]
  /\ {Reads, Space, ChipSize} \subseteq Nat \ {0} /\ MaxCalls \in Nat

VARIABLES
  \* the 64drive
  standalone, \* its mode
  frozen,     \* it answers nothing until it is reset
  \* the command
  pc, job, result, calls,
  cancelled,  \* Ctrl+C, as long as it only cancels a context
  left, addr, \* size and address of downloadPi
  out,        \* the addresses of what is in the file
  probed,     \* the words read by a probe
  counter, guess, \* counter and rom_size, in MiB
  found,      \* the command that the joybus device is asked for its ID with
  id,         \* the ID that is printed
  request,    \* what the FlashRAM driver is called with
  \* history
  hurt,       \* a command of this process failed, but for a frozen 64drive
  lost        \* the 64drive may be in standalone mode, or frozen, for a reason of Restored

drive == <<standalone, frozen>>
command == <<job, calls>>
transfer == <<left, addr, out>>
probe == <<probed, counter, guess>>
outcome == <<found, id, request>>
vars == <<drive, pc, result, cancelled, hurt, lost, command, transfer, probe, outcome>>

Cmds == {"none", "download", "probe", "siprobe", "siliconid", "status", "read", "write"}
NoJob == [cmd |-> "none", size |-> 0, address |-> 0, burst |-> 1, group |-> 1, offset |-> 0,
          length |-> 0, device |-> [id |-> NoDevice, knows |-> {}]]
NoRequest == [offset |-> 0, data |-> <<>>]

Init ==
  /\ standalone = FALSE /\ frozen = FALSE
  /\ pc = "idle" /\ job = NoJob /\ result = "none" /\ calls = 0 /\ cancelled = FALSE
  /\ left = 0 /\ addr = 0 /\ out = <<>>
  /\ probed = <<>> /\ counter = 0 /\ guess = 0 /\ found = 0 /\ id = NoDevice /\ request = NoRequest
  /\ hurt = FALSE /\ lost = FALSE

------------------------------------------------------------------------------
(* Into standalone mode and out of it *)

Call(j) ==
  /\ pc = "idle" /\ calls < MaxCalls
  /\ calls' = calls + 1 /\ job' = j
  /\ IF j.cmd = "download" /\ j.size < 0 THEN pc' = "done" /\ result' = "error"
                                          ELSE pc' = "version" /\ result' = "none"
  /\ left' = j.size /\ addr' = j.address
  /\ UNCHANGED <<drive, cancelled, hurt, lost, out, probe, outcome>>

Calls ==
  \/ \E size \in Sizes, address \in Addresses, burst \in Bursts, group \in {1, 2} :
       Call([NoJob EXCEPT !.cmd = "download", !.size = size, !.address = address,
                          !.burst = burst, !.group = group])
  \/ \E device \in Devices : Call([NoJob EXCEPT !.cmd = "siprobe", !.device = device])
  \/ \E cmd \in {"probe", "siliconid", "status"} : Call([NoJob EXCEPT !.cmd = cmd])
  \/ \E size \in Sizes \cup {0}, offset \in Offsets :
       Call([NoJob EXCEPT !.cmd = "read", !.size = size, !.offset = offset])
  \/ \E size \in Sizes \cup {0}, offset \in Offsets, length \in Files :
       Call([NoJob EXCEPT !.cmd = "write", !.size = size, !.offset = offset, !.length = length])

Lose(condition) == lost' = (lost \/ condition)

Goto(label) == pc' = label /\ UNCHANGED <<result, hurt, lost>>

\* Out of the function that runs in standalone mode; CmdStandAloneLeave is deferred.
Return(r) == pc' = "leave" /\ result' = r /\ UNCHANGED <<hurt, lost>>

\* Mutant: a failure returns without leaving standalone mode.
FailAtOnce == pc' = "done" /\ result' = "error" /\ hurt' = TRUE /\ UNCHANGED lost

Fail == pc' = "leave" /\ result' = "error" /\ hurt' = TRUE /\ UNCHANGED lost

Body == CASE job.cmd = "download" -> "burst" [] job.cmd = "probe" -> "probe"
          [] job.cmd = "siprobe" -> "info" [] OTHER -> "new"

\* An error is ignored, and asked for again by CmdStandAloneEnter.
Version ==
  /\ pc = "version"
  /\ \/ Goto("enter")
     \/ pc' = "done" /\ result' = "error" /\ hurt' = TRUE /\ UNCHANGED lost
  /\ UNCHANGED <<drive, cancelled, command, transfer, probe, outcome>>

(***************************************************************************)
(* Nothing is deferred before CmdStandAloneEnter has succeeded: when its   *)
(* answer is lost the 64drive may be in standalone mode.                   *)
(***************************************************************************)
Enter ==
  /\ pc = "enter"
  /\ \/ ~frozen /\ standalone' = TRUE /\ Goto(Body)
     \/ /\ standalone' \in {standalone, TRUE}
        /\ pc' = "done" /\ result' = "error" /\ hurt' = TRUE
        /\ Lose(standalone' # standalone)
  /\ UNCHANGED <<frozen, cancelled, command, transfer, probe, outcome>>

\* Its error is ignored.
Leave ==
  /\ pc = "leave" /\ pc' = "done"
  /\ \/ ~frozen /\ standalone' = FALSE /\ lost' = FALSE
     \/ ~frozen /\ standalone' \in BOOLEAN /\ lost' = TRUE
     \/ frozen /\ UNCHANGED <<standalone, lost>>
  /\ UNCHANGED <<frozen, result, cancelled, hurt, command, transfer, probe, outcome>>

\* The process ends.
Exit ==
  /\ pc = "done" /\ pc' = "idle"
  /\ result' = "none" /\ job' = NoJob /\ cancelled' = FALSE /\ hurt' = FALSE
  /\ left' = 0 /\ addr' = 0 /\ out' = <<>>
  /\ probed' = <<>> /\ counter' = 0 /\ guess' = 0 /\ found' = 0 /\ id' = NoDevice /\ request' = NoRequest
  /\ UNCHANGED <<drive, calls, lost>>

\* Any command of the buses may fail, here or in the FlashRAM driver.
BusFails ==
  /\ pc \in {"burst", "probe", "info", "rtc", "again", "new", "ask", "access"}
  /\ Fail /\ UNCHANGED <<drive, cancelled, command, transfer, probe, outcome>>

------------------------------------------------------------------------------
(* downloadPi *)

\* Mutant: addresses do not wrap.
BeyondUnwrapped(address, n) == address + n

\* A uint32 wraps.
Beyond(address, n) == (address + n) % Space

\* Mutant: whole bursts go to the file.
ChunkOfBurst == job.burst

\* Mutant: a last burst that is not full is not counted.
ChunkIfWhole == IF left < job.burst THEN 0 ELSE job.burst

Chunk == Min({job.burst, left})

\* Bursts are whole words, and the byteswapper takes whole groups.
BurstAllowed == job.burst % Word = 0 /\ Chunk % job.group = 0

ReadBurst ==
  /\ pc = "burst" /\ job.burst >= 0 /\ left > 0 /\ ~cancelled
  /\ \/ /\ BurstAllowed
        /\ out' = out \o [i \in 1 .. Chunk |-> (addr + i - 1) % Space]
        /\ addr' = Beyond(addr, Chunk) /\ left' = left - Chunk
        /\ Goto("burst")
     \/ ~BurstAllowed /\ Return("error") /\ UNCHANGED transfer
  /\ UNCHANGED <<drive, cancelled, command, probe, outcome>>

\* A negative length makes no buffer: the deferred functions of a panic run.
Downloaded ==
  /\ pc = "burst"
  /\ \/ job.burst < 0 /\ Return("panic")
     \/ job.burst >= 0 /\ cancelled /\ Return("interrupted")
     \/ job.burst >= 0 /\ ~cancelled /\ left <= 0 /\ Return("ok")
  /\ UNCHANGED <<drive, cancelled, command, transfer, probe, outcome>>

------------------------------------------------------------------------------
(* cmdUltraSaveProbe *)

\* Mutant: the repeated words are a part of the ROM.
CountKept(repeats) == IF repeats >= 5 THEN guess ELSE guess + 1

Count(repeats) == IF repeats >= 5 THEN guess - 5 ELSE guess + 1

\* last_data is zero before the first read.
LastData == IF probed = <<>> THEN Zero ELSE Last(probed)

ProbeRead ==
  /\ pc = "probe" /\ Len(probed) < Reads
  /\ \E data \in Words :
       LET repeats == IF data = LastData THEN counter + 1 ELSE 0
       IN  /\ probed' = Append(probed, data)
           /\ \/ data = Open /\ Return("ok") /\ UNCHANGED <<counter, guess>>
              \/ /\ data # Open /\ counter' = repeats /\ guess' = Count(repeats)
                 /\ IF repeats >= 5 THEN Return("ok") ELSE Goto("probe")
  /\ UNCHANGED <<drive, cancelled, command, transfer, outcome>>

ProbeEnd ==
  /\ pc = "probe" /\ Len(probed) = Reads /\ Return("ok")
  /\ UNCHANGED <<drive, cancelled, command, transfer, probe, outcome>>

------------------------------------------------------------------------------
(* joybusIdentify and cmdSiProbe *)

\* A device that only answers an RTC's command, but is none.
Misleading(device) == device.id # RtcId /\ device.knows = {6}

\* The device answers a command that it knows; another one freezes the 64drive.
Answers(cmd) == ~frozen /\ cmd \in job.device.knows

\* Mutant: it is not reset.
Unfreeze(label) == frozen' = TRUE /\ Goto(label)

\* dev.Reset after a pause; its error is ignored.
Reset(label) ==
  \/ frozen' = FALSE /\ Goto(label)
  \/ frozen' \in BOOLEAN /\ pc' = label /\ hurt' = TRUE /\ lost' = TRUE /\ UNCHANGED result

\* A late answer is taken for a frozen 64drive.
TimesOut(label) == pc' = label /\ hurt' = TRUE /\ UNCHANGED <<frozen, result, lost>>

Ask(cmd) == found' = cmd /\ UNCHANGED <<id, request>>

\* A frozen 64drive leaves devID 0, like no answer of the device.
Info ==
  /\ pc = "info"
  /\ \/ /\ Answers(0) /\ UNCHANGED frozen
        /\ \/ job.device.id = NoDevice /\ Goto("rtc") /\ UNCHANGED outcome
           \/ job.device.id # NoDevice /\ Goto("again") /\ Ask(0)
     \/ ~Answers(0) /\ Reset("rtc") /\ UNCHANGED outcome
     \/ Answers(0) /\ TimesOut("rtc") /\ UNCHANGED outcome
  /\ UNCHANGED <<standalone, cancelled, command, transfer, probe>>

RtcInfo ==
  /\ pc = "rtc"
  /\ \/ /\ Answers(6) /\ UNCHANGED frozen
        /\ \/ job.device.id = NoDevice /\ Return("error") /\ UNCHANGED outcome
           \/ job.device.id # NoDevice /\ Goto("again") /\ Ask(IF job.device.id = RtcId THEN 6 ELSE 0)
     \/ ~Answers(6) /\ Reset("nothing") /\ UNCHANGED outcome
     \/ Answers(6) /\ TimesOut("nothing") /\ UNCHANGED outcome
  /\ UNCHANGED <<standalone, cancelled, command, transfer, probe>>

NothingFound ==
  /\ pc = "nothing" /\ Return("error")
  /\ UNCHANGED <<drive, cancelled, command, transfer, probe, outcome>>

\* The device is asked again, as what it was found to be.
InfoAgain ==
  /\ pc = "again"
  /\ \/ /\ Answers(found) /\ Return("ok") /\ id' = job.device.id
        /\ UNCHANGED <<frozen, found, request>>
     \/ ~Answers(found) /\ frozen' = TRUE /\ Lose(Misleading(job.device))
        /\ pc' = "leave" /\ result' = "error" /\ UNCHANGED <<hurt, outcome>>
  /\ UNCHANGED <<standalone, cancelled, command, transfer, probe>>

------------------------------------------------------------------------------
(* The FlashRAM commands *)

New ==
  /\ pc = "new"
  /\ Goto(IF job.cmd \in {"siliconid", "status"} THEN "ask" ELSE "range")
  /\ UNCHANGED <<drive, cancelled, command, transfer, probe, outcome>>

AskChip ==
  /\ pc = "ask" /\ Return("ok")
  /\ UNCHANGED <<drive, cancelled, command, transfer, probe, outcome>>

\* Mutant: a size that is too large is not reduced.
RangeAsGiven == IF job.size = 0 THEN ChipSize - job.offset ELSE job.size

\* Size 0 is all of the rest of the chip, and no range goes past its end.
Span == IF job.size = 0 THEN ChipSize - job.offset ELSE Min({job.size, ChipSize - job.offset})

BadRange == job.offset < 0 \/ job.offset >= ChipSize \/ job.size < 0

ReadRange ==
  /\ pc = "range" /\ job.cmd = "read"
  /\ \/ BadRange /\ Return("error") /\ UNCHANGED outcome
     \/ /\ ~BadRange /\ Goto("access")
        /\ request' = [offset |-> job.offset, data |-> [i \in 1 .. Span |-> Zero]]
        /\ UNCHANGED <<found, id>>
  /\ UNCHANGED <<drive, cancelled, command, transfer, probe>>

(***************************************************************************)
(* As much of the file as fits into the chip is read, or less when that    *)
(* fails.  A slice beyond the data is zeros as far as its capacity goes,   *)
(* and a panic otherwise.                                                  *)
(***************************************************************************)
WriteRange ==
  /\ pc = "range" /\ job.cmd = "write"
  /\ \E read \in 0 .. Min({job.length, ChipSize}) :
       \/ (BadRange \/ job.size > read) /\ Return("error") /\ UNCHANGED outcome
       \/ /\ ~BadRange /\ job.size <= read
          /\ \/ /\ Goto("access")
                /\ request' = [offset |-> job.offset,
                               data |-> [i \in 1 .. Span |-> IF i <= read THEN "file" ELSE Zero]]
                /\ UNCHANGED <<found, id>>
             \/ Span > read /\ Return("panic") /\ UNCHANGED outcome
  /\ UNCHANGED <<drive, cancelled, command, transfer, probe>>

\* What was read before Ctrl+C goes to the file.
Access ==
  /\ pc = "access"
  /\ Return(IF cancelled THEN "interrupted" ELSE "ok")
  /\ UNCHANGED <<drive, cancelled, command, transfer, probe, outcome>>

------------------------------------------------------------------------------
(* Ctrl+C cancels a download, a read or a write, and ends other commands. *)

Interrupt ==
  /\ pc \in {"burst", "access"} /\ ~cancelled /\ cancelled' = TRUE
  /\ UNCHANGED <<drive, pc, result, hurt, lost, command, transfer, probe, outcome>>

Kill ==
  /\ pc \notin {"idle", "done"}
  /\ pc' = "done" /\ result' = "killed" /\ hurt' = TRUE /\ Lose(standalone)
  /\ UNCHANGED <<drive, cancelled, command, transfer, probe, outcome>>

Host ==
  Version \/ Enter \/ Leave \/ Exit \/ ReadBurst \/ Downloaded \/ ProbeRead \/ ProbeEnd
  \/ Info \/ RtcInfo \/ NothingFound \/ InfoAgain \/ New \/ AskChip \/ ReadRange \/ WriteRange
  \/ Access

Next == Calls \/ Host \/ BusFails \/ Interrupt \/ Kill
Spec == Init /\ [][Next]_vars

\* Commands of Link and calls of Flash always end, and need not fail.
FairSpec == Spec /\ WF_vars(Host)

------------------------------------------------------------------------------
(* What an ultrasave command promises *)

TypeOK ==
  /\ standalone \in BOOLEAN /\ frozen \in BOOLEAN /\ lost \in BOOLEAN /\ hurt \in BOOLEAN
  /\ pc \in {"idle", "version", "enter", "burst", "probe", "info", "rtc", "nothing", "again",
             "new", "ask", "range", "access", "leave", "done"}
  /\ job.cmd \in Cmds /\ calls \in 0 .. MaxCalls /\ cancelled \in BOOLEAN
  /\ result \in {"none", "ok", "error", "interrupted", "killed", "panic"}
  /\ left \in Int /\ addr \in 0 .. Space - 1 /\ out \in Seq(0 .. Space - 1)
  /\ probed \in Seq(Words) /\ counter \in 0 .. 5 /\ guess \in -1 .. Reads
  /\ found \in {0, 6}

(***************************************************************************)
(* A command leaves the 64drive in its normal mode, however it ends: with  *)
(* an error, by a panic, with Ctrl+C, and after a joybus device froze it   *)
(* (withStandaloneMode, joybusIdentify).  Not so when it was killed or     *)
(* when its enter, leave or reset had no answer, until the next command    *)
(* makes it good, nor after a joybus device that only answers an RTC's     *)
(* command but is none.                                                    *)
(***************************************************************************)
Restored == pc = "done" /\ ~lost => ~standalone /\ ~frozen

(***************************************************************************)
(* At every moment the file of a download holds the first units asked for, *)
(* in order and none twice, over the end of the address space, and after a *)
(* success exactly those asked for, although whole bursts are read         *)
(* (downloadPi).                                                           *)
(***************************************************************************)
DownloadExact ==
  job.cmd = "download" =>
    /\ \A i \in DOMAIN out : out[i] = (job.address + i - 1) % Space
    /\ pc = "done" /\ result = "ok" => Len(out) = job.size
    /\ job.size >= 0 => Len(out) <= job.size

(***************************************************************************)
(* The size that is guessed is that of the part before the first open bus  *)
(* or the first six equal words (main.go:897), for every cart that does    *)
(* not begin with five zero words: last_data is zero at first.             *)
(***************************************************************************)
RomEnds(words) ==
  {k - 1 : k \in {k \in DOMAIN words : words[k] = Open}}
  \cup {k - 1 : k \in {k \in 1 .. Len(words) - 5 : \A j \in 1 .. 5 : words[k + j] = words[k]}}
  \cup {Len(words)}
BeginsEmpty(words) == Len(words) >= 5 /\ \A k \in 1 .. 5 : words[k] = Zero
SizeGuessed ==
  pc = "done" /\ result = "ok" /\ job.cmd = "probe" /\ ~BeginsEmpty(probed)
    => guess = Min(RomEnds(probed))

(***************************************************************************)
(* A joybus device that knows either of the two commands is identified,    *)
(* although the other one freezes the 64drive (main.go:1160).              *)
(***************************************************************************)
Identified ==
  /\ pc = "done" /\ job.cmd = "siprobe" /\ ~hurt
  /\ job.device.id # NoDevice /\ job.device.knows # {} /\ ~Misleading(job.device)
  => result = "ok" /\ id = job.device.id

(***************************************************************************)
(* The driver is called with the range asked for, inside of the chip, and  *)
(* with data of the file only where --size says how much                   *)
(* (cmdFlashRead, cmdFlashWrite).                                          *)
(***************************************************************************)
RequestInside ==
  pc = "access" =>
    /\ request.offset = job.offset /\ request.data # <<>>
    /\ request.offset + Len(request.data) <= ChipSize
    /\ job.size > 0 => Len(request.data) = Min({job.size, ChipSize - job.offset})
    /\ job.size > 0 /\ job.cmd = "write" => \A i \in DOMAIN request.data : request.data[i] = "file"

(***************************************************************************)
(* Without --size a file is written as it is: "size of data to write       *)
(* (default: file size)" (main.go:1466).                                   *)
(***************************************************************************)
DefaultSize ==
  pc = "access" /\ job.cmd = "write" /\ job.size = 0
    => Len(request.data) = Min({job.length, ChipSize - job.offset})

(***************************************************************************)
(* Every command ends, but a download in bursts of nothing.                *)
(***************************************************************************)
CommandsEnd == pc # "idle" /\ job.burst # 0 ~> pc = "idle"
==============================================================================
