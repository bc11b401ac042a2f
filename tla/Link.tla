--------------------------------- MODULE Link ---------------------------------
(***************************************************************************)
(* drive64.Device: commands to a 64drive over USB.  A command is written   *)
(* in one piece; its answer, data and then a completion packet (CMP), is   *)
(* read in as many pieces as the FTDI driver makes of it.  The answer may  *)
(* be late, and what a command that failed has not read of it is met by    *)
(* the next one: only opening the device purges the buffers.               *)
(***************************************************************************)
EXTENDS Naturals, Sequences

CONSTANTS
  Commands,   \* the commands that are used, beside the version request
  Supported,  \* those that the version of this 64drive allows
  Retries,    \* empty reads before drive64Device.Read gives up
  MaxCalls    \* bound of a check: number of calls

(***************************************************************************)
(* Of a command: the units of data in its answer (2 bytes or more each),   *)
(* whether a CMP follows, and the field of the version that it looks at    *)
(* before it is sent: 1 the hardware, 2 the firmware, 0 none.              *)
(***************************************************************************)
ASSUME LinkAssumption ==
  /\ Commands \subseteq [name : STRING, data : Nat, cmp : BOOLEAN, gate : {0, 1, 2}]
  /\ Supported \subseteq Commands
  /\ Retries \in Nat \ {0}
  /\ MaxCalls \in Nat

VersionRequest == [name |-> "version", data |-> 2, cmp |-> TRUE, gate |-> 0]
AllCommands == Commands \cup {VersionRequest}

VARIABLES
  pc,      \* "closed", "idle", "gate", "send", "data" or "cmp"
  call,    \* the command that was called for
  cmd,     \* the command that is sent: call, or the version request before it
  serial,  \* number of commands sent to the 64drive
  wire,    \* units of answers that are on their way
  got,     \* units read of the data, or of the CMP
  zeros,   \* empty reads in a row
  vers,    \* d.vers, as the units read into it; <<>> when it is all zeros
  answer,  \* data of the last call
  result,  \* how the last call ended
  calls,   \* calls made
  clean    \* history: nothing was left on the wire, and no call failed since

callVars == <<call, calls>>
vars == <<pc, cmd, serial, wire, got, zeros, vers, answer, result, clean, callVars>>

Units == [of : Nat, cmd : AllCommands, k : Nat]

\* The answer to the n-th command: its data, then the two halves of its CMP.
AnswerLength(c) == c.data + IF c.cmp THEN 2 ELSE 0
Part(c, n, length) == [k \in 1 .. length |-> [of |-> n, cmd |-> c, k |-> k]]
Data(c, n) == Part(c, n, c.data)

Init ==
  /\ pc = "closed" /\ call = VersionRequest /\ cmd = VersionRequest /\ serial = 0
  /\ wire = <<>> /\ got = <<>> /\ zeros = 0 /\ vers = <<>>
  /\ answer = <<>> /\ result = "none" /\ calls = 0 /\ clean = TRUE

------------------------------------------------------------------------------
(* Opening and closing *)

\* PurgeBuffers drops what has arrived, not what is still to come.
Open ==
  /\ pc = "closed"
  /\ \E n \in 0 .. Len(wire) :
       /\ wire' = SubSeq(wire, n + 1, Len(wire))
       /\ clean' = (n = Len(wire))
  /\ pc' = "idle" /\ vers' = <<>> /\ result' = "none"
  /\ UNCHANGED <<cmd, serial, got, zeros, answer, callVars>>

\* The process ends, in the middle of a call or after it.
Close ==
  /\ pc # "closed"
  /\ pc' = "closed" /\ got' = <<>> /\ zeros' = 0
  /\ UNCHANGED <<cmd, serial, wire, vers, answer, result, clean, callVars>>

------------------------------------------------------------------------------
(* Calls *)

\* A step inside a call, and the end of one.
Goto(label) == pc' = label /\ UNCHANGED <<result, clean, callVars>>

Return(r, data) ==
  /\ pc' = "idle" /\ result' = r /\ answer' = data
  /\ got' = <<>> /\ zeros' = 0
  /\ clean' = (clean /\ r \in {"ok", "unsupported"})
  /\ UNCHANGED <<cmd, callVars>>

\* The version is only asked for when d.vers is all zeros.
Call(c) ==
  /\ pc = "idle" /\ calls < MaxCalls
  /\ calls' = calls + 1
  /\ call' = c /\ result' = "none" /\ answer' = <<>>
  /\ \/ c # VersionRequest /\ c.gate = 0 /\ pc' = "send" /\ cmd' = c
     \/ (c = VersionRequest \/ c.gate # 0) /\ vers = <<>> /\ pc' = "send" /\ cmd' = VersionRequest
     \/ (c = VersionRequest \/ c.gate # 0) /\ vers # <<>> /\ pc' = "gate" /\ UNCHANGED cmd
  /\ UNCHANGED <<serial, wire, got, zeros, vers, clean>>

\* Mutant: the version is asked for but not looked at.
AllowedAlways == {TRUE}

(***************************************************************************)
(* What the version in the cache says of the command: a field that was not *)
(* read is zero and allows nothing, one that was read from something else  *)
(* than a version may allow anything.                                      *)
(***************************************************************************)
Allowed ==
  IF call.gate > Len(vers) THEN {FALSE}
  ELSE IF vers[call.gate].cmd = VersionRequest /\ vers[call.gate].k = call.gate
    THEN {call \in Supported}
  ELSE BOOLEAN

Gate ==
  /\ pc = "gate"
  /\ UNCHANGED <<serial, wire, vers>>
  /\ \/ call = VersionRequest /\ Return("ok", vers)
     \/ /\ call # VersionRequest /\ TRUE \in Allowed
        /\ Goto("send") /\ cmd' = call /\ answer' = <<>> /\ UNCHANGED <<got, zeros>>
     \/ call # VersionRequest /\ FALSE \in Allowed /\ Return("unsupported", <<>>)

(***************************************************************************)
(* SendCmdNoCmp writes the command.  The write may fail, with or without   *)
(* the 64drive having got the command, and the 64drive may answer in part, *)
(* or not at all.                                                          *)
(***************************************************************************)
Send ==
  /\ pc = "send"
  /\ serial' = serial + 1
  /\ \E length \in 0 .. AnswerLength(cmd) : wire' = wire \o Part(cmd, serial', length)
  /\ UNCHANGED vers
  /\ \/ /\ AnswerLength(cmd) > 0
        /\ Goto(IF cmd.data > 0 THEN "data" ELSE "cmp") /\ UNCHANGED <<cmd, got, zeros, answer>>
     \/ AnswerLength(cmd) = 0 /\ Return("ok", <<>>)
     \/ Return("io", <<>>)

------------------------------------------------------------------------------
(* Reading an answer: io.ReadFull over drive64Device.Read *)

\* Mutant: a burst is read one unit short.
WantedShort == IF pc = "data" /\ ~cmd.cmp THEN cmd.data - 1 ELSE IF pc = "data" THEN cmd.data ELSE 2

Wanted == IF pc = "data" THEN cmd.data ELSE 2

\* Mutant: a completion packet of any command will do.
CmpOkAny(units) == \A i \in 1 .. 2 : units[i].k = units[i].cmd.data + i

\* Of the packet's command the code compares one byte, in which all of Commands differ.
CmpOk(units) ==
  /\ \A i \in 1 .. 2 : units[i].k = units[i].cmd.data + i
  /\ units[2].cmd = cmd

\* Mutant: a command with data is taken for one without a CMP.
ReadAllNoCmp(units) ==
  \/ pc = "data" /\ Return("ok", units)
  \/ pc = "cmp" /\ CmpOk(units) /\ Return("ok", answer)
  \/ pc = "cmp" /\ ~CmpOk(units) /\ Return("invalid", <<>>)

\* All the units of the data, or of the CMP, are there.
ReadAll(units) ==
  \/ /\ pc = "data" /\ cmd.cmp
     /\ Goto("cmp") /\ answer' = units /\ got' = <<>> /\ zeros' = 0 /\ UNCHANGED cmd
  \/ pc = "data" /\ ~cmd.cmp /\ Return("ok", units)
  \/ /\ pc = "cmp" /\ CmpOk(units) /\ cmd = VersionRequest
     /\ Goto("gate") /\ got' = <<>> /\ zeros' = 0 /\ UNCHANGED <<cmd, answer>>
  \/ pc = "cmp" /\ CmpOk(units) /\ cmd # VersionRequest /\ Return("ok", answer)
  \/ pc = "cmp" /\ ~CmpOk(units) /\ Return("invalid", <<>>)

Read ==
  /\ pc \in {"data", "cmp"}
  /\ \E n \in 1 .. Len(wire) :
       LET units == got \o SubSeq(wire, 1, n)
       IN  /\ wire' = SubSeq(wire, n + 1, Len(wire))
           /\ vers' = IF pc = "data" /\ cmd = VersionRequest THEN units ELSE vers
           /\ UNCHANGED serial
           /\ \/ /\ Len(units) < Wanted
                 /\ Goto(pc) /\ got' = units /\ zeros' = 0 /\ UNCHANGED <<cmd, answer>>
              \/ Len(units) = Wanted /\ ReadAll(units)

\* Mutant: one retry more.
ReadNothingMore ==
  /\ pc \in {"data", "cmp"}
  /\ UNCHANGED <<serial, wire, vers>>
  /\ \/ /\ zeros + 1 <= Retries
        /\ zeros' = zeros + 1 /\ Goto(pc) /\ UNCHANGED <<cmd, got, answer>>
     \/ zeros = Retries /\ Return("frozen", <<>>)

\* Mutant: empty reads are retried for ever.
ReadNothingForever ==
  /\ pc \in {"data", "cmp"}
  /\ zeros' = (zeros + 1) % Retries
  /\ Goto(pc) /\ UNCHANGED <<cmd, serial, wire, vers, got, answer>>

\* A read may be empty although the answer will come: the 64drive is busy.
ReadNothing ==
  /\ pc \in {"data", "cmp"}
  /\ UNCHANGED <<serial, wire, vers>>
  /\ \/ /\ zeros + 1 < Retries
        /\ zeros' = zeros + 1 /\ Goto(pc) /\ UNCHANGED <<cmd, got, answer>>
     \/ zeros + 1 = Retries /\ Return("frozen", <<>>)

ReadFails ==
  /\ pc \in {"data", "cmp"}
  /\ Return("io", <<>>) /\ UNCHANGED <<serial, wire, vers>>

Host == Gate \/ Send \/ Read \/ ReadNothing \/ ReadFails
Next == Open \/ Close \/ (\E c \in AllCommands : Call(c)) \/ Host
Spec == Init /\ [][Next]_vars

\* A read of the USB driver always returns, with something or nothing.
FairSpec == Spec /\ WF_vars(Host)

------------------------------------------------------------------------------
(* What the connection promises *)

TypeOK ==
  /\ pc \in {"closed", "idle", "gate", "send", "data", "cmp"}
  /\ call \in AllCommands /\ cmd \in AllCommands
  /\ serial \in Nat /\ calls \in 0 .. MaxCalls
  /\ wire \in Seq(Units) /\ got \in Seq(Units) /\ vers \in Seq(Units) /\ answer \in Seq(Units)
  /\ zeros \in 0 .. Retries - 1
  /\ result \in {"none", "ok", "unsupported", "io", "frozen", "invalid"}
  /\ clean \in BOOLEAN

(***************************************************************************)
(* As long as nothing failed since a clean opening, host and 64drive stay  *)
(* in step: when a call ends nothing of its answer is left that the next   *)
(* one would take for its own, although some answers have data, some a CMP *)
(* and some neither (SendCmd, SendCmdNoCmp).                               *)
(***************************************************************************)
InStep == clean /\ pc \in {"idle", "gate", "send"} => wire = <<>>

(***************************************************************************)
(* A call that succeeds returns the answer to its own command, however the *)
(* reads cut the stream (SendCmd's use of io.ReadFull and of the CMP).     *)
(***************************************************************************)
OwnAnswer ==
  clean /\ pc = "idle" /\ result = "ok" /\ call # VersionRequest => answer = Data(call, serial)

(***************************************************************************)
(* After failures, late or partial answers and restarts host and 64drive   *)
(* may be out of step.  The check of the CMP (drive64.go:230) still keeps  *)
(* a command that has one from succeeding with anything but the whole data *)
(* of an answer to a command of its kind, if not always the last one.      *)
(***************************************************************************)
FramedAnswer ==
  pc = "idle" /\ result = "ok" /\ call.cmp /\ call # VersionRequest
    => \E n \in 1 .. serial : answer = Data(call, n)

(***************************************************************************)
(* As long as no call has failed, commands of newer versions               *)
(* (CmdSetCicType, CmdStandAloneEnter, CmdStandAlonePiWriteBurst) do not   *)
(* reach a 64drive that does not know them, with the version read once per *)
(* connection; after a failed version request they may (VersionRead).      *)
(***************************************************************************)
OnlySupported == clean /\ pc \in {"send", "data", "cmp"} /\ cmd.gate # 0 => cmd \in Supported

(***************************************************************************)
(* CmdVersionRequest (drive64.go:237) gets the hardware and the firmware   *)
(* version of the 64drive: when it reports no error that is what it has,   *)
(* whatever happened to the calls before it.                               *)
(***************************************************************************)
VersionRead ==
  pc = "idle" /\ result = "ok" /\ call = VersionRequest
    => \E n \in 1 .. serial : answer = Data(VersionRequest, n)

(***************************************************************************)
(* Every call ends, whatever the 64drive does: drive64Device.Read gives up *)
(* on empty reads, which io.ReadFull would repeat for ever.                *)
(***************************************************************************)
CallsEnd == pc \notin {"idle", "closed"} ~> pc \in {"idle", "closed"}
==============================================================================
