-------------------------------- MODULE Flash --------------------------------
(***************************************************************************)
(* The FlashRAM driver, ultrasave/flash: one action per PI operation of    *)
(* New, SiliconID, Status, ClearStatus, Read and Write (with ReadPages,    *)
(* Erase, LoadBytePage and ProgramPage inside them), over the chip of      *)
(* FlashChip.                                                              *)
(*                                                                         *)
(* The environment may make any PI operation fail, with or without effect  *)
(* on the chip (the USB link is lost before or after the command is taken), *)
(* interrupt a Read or a Write (SIGINT cancels its context), let the       *)
(* timeout of a poll expire, or kill the process at any point.  The chip   *)
(* keeps its state over the end of a process.                              *)
(***************************************************************************)
EXTENDS FlashChip

CONSTANTS
  Initial,      \* the contents of the chip at the start
  Requests,     \* the reads and writes that may be asked for
  BurstWrites,  \* FALSE: WriteBurst is unsupported (firmware < 2.04)
  WordSize,     \* bytes of a Write32
  MaxCalls      \* bound of a check: number of calls

ASSUME FlashAssumption ==
  /\ Initial \in [Pages -> PageContent]
  /\ Requests \subseteq [op : {"read", "write"}, offset : Int, size : Nat, data : Seq(Byte)]
  /\ \A r \in Requests : r.op = "write" => r.size = Len(r.data)
  /\ BurstWrites \in BOOLEAN
  /\ WordSize \in Nat \ {0}
  /\ MaxCalls \in Nat

VARIABLES
  pc,         \* the next PI operation of the call, "idle" or "closed"
  call,       \* the call in progress, or the last one
  unit,       \* f.layout: its unit, 0 before it is known
  p,          \* the page a loop is at
  w,          \* LoadBytePage without bursts: the byte it is at
  buf,        \* pages read, or to be written (data, sectorsData)
  status,     \* the last status read
  cancelled,  \* the context of the call is cancelled
  expired,    \* the timeout of the poll has passed
  result,     \* how the last call ended
  calls,      \* calls made
  old,        \* history: array when the call began
  steady,     \* history: the chip was idle and no wrong layout known at that time
  clean,      \* history: every page was loaded into an erased internal page
  limbo       \* history: pages whose erase was begun by a write not completed since

ctxVars == <<cancelled, expired>>
localVars == <<p, w, buf, status>>
callVars == <<call, calls, old, steady>>
history == <<clean, limbo>>
driverVars == <<pc, unit, result, localVars, ctxVars, callVars, history>>
vars == <<chipVars, driverVars>>

Labels ==
  {"closed", "idle", "id1", "id2", "idRead", "newArray", "status1", "status2",
   "statusRead", "clear1", "clear2", "clearWrite", "readArray", "burst",
   "eraseSetup", "eraseCmd", "erasePoll", "eraseClear", "loadCmd", "loadData",
   "loadWords", "programCmd", "programPoll", "programClear"}

Plain(op) == [op |-> op, offset |-> 0, size |-> 0, data |-> <<>>]
Calls == {Plain("siliconID"), Plain("status"), Plain("clearStatus")} \cup Requests
AnyCall == Calls \cup {Plain("new")}

Results == {"none", "ok", "io", "invalid", "notReady", "NOK", "cancelled", "deadline", "panic"}

\* The local variables of Read and Write that their arguments determine.
Begin == RangeBegin(call.offset)
End == RangeEnd(call.offset, call.size)
Skip == Remainder(call.offset)
SBegin == SectorsBegin(Begin)
SEnd == SectorsEnd(Begin, End)
WholeChip == SBegin = 0 /\ SEnd = TotalPages

\* The pages that ReadPages is asked for.
ReadFrom == IF call.op = "read" THEN Begin ELSE SBegin
ReadTo == IF call.op = "read" THEN End ELSE SEnd

\* A write of whole sectors does not need to read them.
FitsSectors(c) == c.offset % SectorSize = 0 /\ c.size % SectorSize = 0

DriverTypeOK ==
  /\ pc \in Labels
  /\ call \in AnyCall
  /\ unit \in Units \cup {0}
  /\ p \in Nat /\ w \in Nat
  /\ buf \in Seq(PageContent)
  /\ status \subseteq StatusBits
  /\ cancelled \in BOOLEAN /\ expired \in BOOLEAN
  /\ result \in Results
  /\ calls \in 0 .. MaxCalls
  /\ old \in [Pages -> PageContent]
  /\ steady \in BOOLEAN /\ clean \in BOOLEAN
  /\ limbo \subseteq Int

TypeOK == ChipTypeOK /\ DriverTypeOK

Init ==
  /\ ChipInit(Initial)
  /\ pc = "closed" /\ call = Plain("new") /\ unit = 0
  /\ p = 0 /\ w = 0 /\ buf = <<>> /\ status = {}
  /\ cancelled = FALSE /\ expired = FALSE
  /\ result = "none" /\ calls = 0
  /\ old = Initial /\ steady = TRUE /\ clean = TRUE
  /\ limbo = {}

------------------------------------------------------------------------------
\* A call ends: New leaves no driver behind when it fails.
Leave(r) ==
  /\ pc' = IF call.op = "new" /\ r # "ok" THEN "closed" ELSE "idle"
  /\ result' = r
  /\ p' = 0 /\ w' = 0
  /\ cancelled' = FALSE /\ expired' = FALSE
  /\ UNCHANGED <<callVars, clean>>

Return(r) == Leave(r) /\ buf' = <<>> /\ UNCHANGED <<unit, status, limbo>>

\* A step inside a call, without and with a change of the local variables.
Step(label) ==
  /\ pc' = label
  /\ UNCHANGED <<unit, result, ctxVars, callVars, clean, limbo>>
Goto(label) == Step(label) /\ UNCHANGED localVars

\* A PI operation: it succeeds, or fails with or without its effect.
Pi(effect, next) ==
  \/ effect /\ next
  \/ (effect \/ UNCHANGED chipVars) /\ Return("io")

------------------------------------------------------------------------------
(***************************************************************************)
(* Calls.  New is the first call of a process; only a driver it returned   *)
(* takes other calls.                                                      *)
(***************************************************************************)
NewCall(c) ==
  /\ calls < MaxCalls
  /\ calls' = calls + 1
  /\ call' = c
  /\ old' = array
  /\ steady' = (working = "no" /\ unit \in {0, ChipUnit})
  /\ clean' = TRUE
  /\ result' = "none"
  /\ p' = 0
  /\ UNCHANGED <<chipVars, unit, w, status, ctxVars, limbo>>

CallNew ==
  /\ pc = "closed"
  /\ NewCall(Plain("new"))
  /\ pc' = "id1" /\ buf' = <<>>

CallRegister ==
  /\ pc = "idle"
  /\ \E op \in {"siliconID", "status", "clearStatus"} :
       /\ NewCall(Plain(op))
       /\ pc' = [siliconID |-> "id1", status |-> "status1", clearStatus |-> "clear1"][op]
  /\ buf' = <<>>

CallRead ==
  /\ pc = "idle"
  /\ \E r \in Requests :
       /\ r.op = "read" /\ ValidOffsetSize(r.offset, r.size)
       /\ NewCall(r)
  /\ pc' = "readArray" /\ buf' = <<>>

\* The pages of data when the write is exactly whole sectors.
Chunks(data) ==
  [k \in 1 .. Len(data) \div PageSize |->
     [i \in InPage |-> data[(k - 1) * PageSize + i + 1]]]

CallWrite ==
  /\ pc = "idle"
  /\ \E r \in Requests :
       /\ r.op = "write" /\ ValidOffsetSize(r.offset, r.size)
       /\ NewCall(r)
       /\ IF FitsSectors(r)
            THEN pc' = "clear1" /\ buf' = Chunks(r.data)
            ELSE pc' = "readArray" /\ buf' = <<>>

\* convertAddressRange refuses the range before anything is sent.
CallInvalid ==
  /\ pc = "idle"
  /\ calls < MaxCalls
  /\ \E r \in Requests :
       /\ ~ValidOffsetSize(r.offset, r.size)
       /\ call' = r
  /\ calls' = calls + 1
  /\ result' = "invalid"
  /\ buf' = <<>>
  /\ UNCHANGED <<chipVars, pc, unit, p, w, status, ctxVars, old, steady, history>>

------------------------------------------------------------------------------
(* SiliconID and the rest of New *)

\* Mutant: the command is written once only.
SiliconIDCommandOnce ==
  /\ pc \in {"id1", "id2"}
  /\ Pi(WriteMode("siliconID"), Goto("idRead"))

SiliconIDCommand ==
  /\ pc \in {"id1", "id2"}
  /\ Pi(WriteMode("siliconID"), Goto(IF pc = "id1" THEN "id2" ELSE "idRead"))

\* Mutant: an unknown ID is taken for a chip of 32-bit addresses.
LayoutReadWide == IF mode = "id" THEN ChipUnit ELSE 4

\* An ID that is not one of the three word chips gives the byte layout.
LayoutRead == IF mode = "id" THEN ChipUnit ELSE 1

SiliconIDRead ==
  /\ pc = "idRead"
  /\ UNCHANGED chipVars
  /\ \/ /\ call.op = "new"
        /\ pc' = "newArray" /\ unit' = LayoutRead
        /\ UNCHANGED <<result, localVars, ctxVars, callVars, history>>
     \/ call.op # "new" /\ Return("ok")
     \/ Return("io")

NewReadArray ==
  /\ pc = "newArray"
  /\ \/ WriteMode("readArray") /\ Return("ok")
     \/ /\ WriteMode("readArray") \/ UNCHANGED chipVars
        /\ Leave("io") /\ unit' = 0 /\ buf' = <<>> /\ UNCHANGED <<status, limbo>>

------------------------------------------------------------------------------
(* Status and ClearStatus, on their own and before the erase of a Write *)

\* Mutant: the command is written once only.
StatusCommandOnce ==
  /\ pc \in {"status1", "status2"}
  /\ Pi(WriteMode("status"), Goto("statusRead"))

StatusCommand ==
  /\ pc \in {"status1", "status2"}
  /\ Pi(WriteMode("status"), Goto(IF pc = "status1" THEN "status2" ELSE "statusRead"))

\* Mutant: a Write does not look at wsmReady.
StatusReadUnchecked ==
  /\ pc = "statusRead"
  /\ UNCHANGED chipVars
  /\ \/ /\ status' \in StatusReads
        /\ \/ /\ call.op = "status"
              /\ Leave("ok") /\ UNCHANGED <<unit, buf, limbo>>
           \/ /\ call.op = "write"
              /\ Step("eraseSetup") /\ p' = SBegin /\ UNCHANGED <<w, buf>>
     \/ Return("io")

StatusRead ==
  /\ pc = "statusRead"
  /\ UNCHANGED chipVars
  /\ \/ /\ status' \in StatusReads
        /\ \/ /\ call.op = "status"
              /\ Leave("ok") /\ UNCHANGED <<unit, buf, limbo>>
           \/ /\ call.op = "write" /\ "wsmReady" \notin status'
              /\ Leave("notReady") /\ buf' = <<>> /\ UNCHANGED <<unit, limbo>>
           \/ /\ call.op = "write" /\ "wsmReady" \in status'
              /\ Step("eraseSetup") /\ p' = SBegin /\ UNCHANGED <<w, buf>>
     \/ Return("io")

ClearStatusCommand ==
  /\ pc \in {"clear1", "clear2"}
  /\ Pi(WriteMode("status"), Goto(IF pc = "clear1" THEN "clear2" ELSE "clearWrite"))

\* clearStatus: a word of zeros at address 0.
clearStatus == WriteData(0, WordSize, GarbagePage)

ClearStatusWrite ==
  /\ pc = "clearWrite"
  /\ Pi(clearStatus, IF call.op = "write" THEN Goto("status1") ELSE Return("ok"))

------------------------------------------------------------------------------
(* ReadPages, in a Read and in a Write that does not fit sectors *)

ReadArrayCommand ==
  /\ pc = "readArray"
  /\ Pi(WriteMode("readArray"),
        Step("burst") /\ p' = ReadFrom /\ UNCHANGED <<w, buf, status>>)

ReadInterrupted ==
  /\ pc = "burst" /\ p < ReadTo /\ cancelled
  /\ Return("cancelled")
  /\ UNCHANGED chipVars

\* Mutant: one burst for all the pages.
BurstEndUnbounded == ReadTo

BurstEnd == IF ReadBurstEnd(p) >= ReadTo THEN ReadTo ELSE ReadBurstEnd(p)

ReadBurst ==
  /\ pc = "burst" /\ p < ReadTo /\ ~cancelled
  /\ UNCHANGED chipVars
  /\ \/ /\ buf' = buf \o BurstPages(PageReadAddress(unit, p), BurstEnd - p)
        /\ p' = BurstEnd
        /\ Step("burst") /\ UNCHANGED <<w, status>>
     \/ Return("io")

\* A slice of an empty buffer at a place other than 0 panics.
SliceOutOfRange == buf = <<>> /\ Skip > 0

\* Read returns data[skip : skip+size].
ReadReturn ==
  /\ pc = "burst" /\ p >= ReadTo /\ call.op = "read" /\ ~SliceOutOfRange
  /\ Leave("ok") /\ UNCHANGED <<chipVars, unit, buf, status, limbo>>

\* Mutant: the remainder of the offset is forgotten.
OverlayAtPage(pages, skip, data) ==
  [k \in 1 .. Len(pages) |->
     [i \in InPage |->
        LET place == (k - 1) * PageSize + i
        IN  IF place < Len(data) THEN data[place + 1] ELSE pages[k][i]]]

\* copy(sectorsData[skip:skip+len(data)], data)
Overlay(pages, skip, data) ==
  [k \in 1 .. Len(pages) |->
     [i \in InPage |->
        LET place == (k - 1) * PageSize + i - skip
        IN  IF place >= 0 /\ place < Len(data) THEN data[place + 1] ELSE pages[k][i]]]

PrepareSectors ==
  /\ pc = "burst" /\ p >= ReadTo /\ call.op = "write" /\ ~SliceOutOfRange
  /\ buf' = Overlay(buf, Skip, call.data)
  /\ Step("clear1") /\ UNCHANGED <<chipVars, p, w, status>>

Panic ==
  /\ pc = "burst" /\ p >= ReadTo /\ SliceOutOfRange
  /\ pc' = "closed" /\ unit' = 0 /\ result' = "panic" /\ p' = 0
  /\ cancelled' = FALSE
  /\ UNCHANGED <<chipVars, w, buf, status, expired, callVars, history>>

------------------------------------------------------------------------------
(***************************************************************************)
(* Erase, sector by sector or the whole chip at once.  The context is      *)
(* looked at before every sector, and not before the erase of the chip.    *)
(***************************************************************************)
EraseSetup ==
  /\ pc = "eraseSetup" /\ p < SEnd /\ (WholeChip \/ ~cancelled)
  /\ \/ /\ WriteSetup(IF WholeChip THEN "chipErase" ELSE "sectorErase", IF WholeChip THEN 0 ELSE p)
        /\ pc' = "eraseCmd" /\ UNCHANGED <<unit, result, localVars, ctxVars, callVars, clean>>
     \/ /\ \/ WriteSetup(IF WholeChip THEN "chipErase" ELSE "sectorErase", IF WholeChip THEN 0 ELSE p)
           \/ UNCHANGED chipVars
        /\ Leave("io") /\ buf' = <<>> /\ UNCHANGED <<unit, status>>
  /\ limbo' = limbo \cup IF WholeChip THEN Pages ELSE SectorPages(p)

EraseCommand ==
  /\ pc = "eraseCmd"
  /\ Pi(WriteErase, Goto("erasePoll"))

ErasesDone ==
  /\ pc = "eraseSetup" /\ (p >= SEnd \/ (cancelled /\ ~WholeChip))
  /\ p' = SBegin
  /\ Step("loadCmd") /\ UNCHANGED <<chipVars, w, buf, status>>

(***************************************************************************)
(* waitStatusBitsCleared: the status is read again after every period      *)
(* until the busy bit is cleared, the call is cancelled or the timeout     *)
(* passes.  Then the status is cleared and the OK bit read before decides. *)
(***************************************************************************)
PollLabel == [erase |-> "erasePoll", program |-> "programPoll"]
ClearLabel == [erase |-> "eraseClear", program |-> "programClear"]

\* Mutant: one read of the status, whatever it says.
PollStatusOnce(kind) ==
  /\ pc = PollLabel[kind] /\ ~cancelled /\ ~expired
  /\ UNCHANGED chipVars
  /\ \/ /\ status' \in StatusReads
        /\ pc' = ClearLabel[kind]
        /\ UNCHANGED <<unit, result, p, w, buf, ctxVars, callVars, history>>
     \/ Return("io")

PollStatus(kind) ==
  /\ pc = PollLabel[kind] /\ ~cancelled /\ ~expired
  /\ UNCHANGED chipVars
  /\ \/ /\ status' \in StatusReads
        /\ pc' = IF BusyBitOf[kind] \in status' THEN pc ELSE ClearLabel[kind]
        /\ UNCHANGED <<unit, result, p, w, buf, ctxVars, callVars, history>>
     \/ Return("io")

\* Mutant: the poll has no timeout.
PollNeverExpires(kind) ==
  /\ pc = PollLabel[kind]
  /\ cancelled /\ Return("cancelled")
  /\ UNCHANGED chipVars

PollAbandoned(kind) ==
  /\ pc = PollLabel[kind]
  /\ \/ cancelled /\ Return("cancelled")
     \/ expired /\ Return("deadline")
  /\ UNCHANGED chipVars

\* The page that the loop goes on with.
NextPage(kind) ==
  CASE kind = "program" -> p + 1
    [] kind = "erase" /\ WholeChip -> SEnd
    [] OTHER -> SectorEnd(p)

ClearAndCheck(kind) ==
  /\ pc = ClearLabel[kind]
  /\ \/ /\ clearStatus
        /\ IF OkBitOf[kind] \in status
             THEN /\ pc' = IF kind = "erase" THEN "eraseSetup" ELSE "loadCmd"
                  /\ p' = NextPage(kind)
                  /\ expired' = FALSE
                  /\ UNCHANGED <<unit, result, w, buf, status, cancelled, callVars, history>>
             ELSE Return("NOK")
     \/ (clearStatus \/ UNCHANGED chipVars) /\ Return("io")

------------------------------------------------------------------------------
(***************************************************************************)
(* LoadBytePage and ProgramPage, page by page.  A burst that fails may     *)
(* have delivered any part of its data.  Without burst writes the attempt  *)
(* is refused by the adapter and words are written instead.                *)
(***************************************************************************)
LoadCommand ==
  /\ pc = "loadCmd" /\ p < SEnd /\ ~cancelled
  /\ Pi(WriteMode("loadBytePage"), Goto("loadData"))

PageToLoad == buf[p - SBegin + 1]

LoadBurst ==
  /\ pc = "loadData"
  /\ clean' = (clean /\ page = ErasedPage)
  /\ IF BurstWrites
       THEN \/ /\ WriteData(0, PageSize, PageToLoad)
               /\ pc' = "programCmd"
               /\ UNCHANGED <<unit, result, localVars, ctxVars, callVars, limbo>>
            \/ /\ \E n \in 0 .. PageSize : WriteData(0, n, PageToLoad)
               /\ pc' = "idle" /\ result' = "io"
               /\ p' = 0 /\ w' = 0 /\ buf' = <<>> /\ cancelled' = FALSE /\ expired' = FALSE
               /\ UNCHANGED <<unit, status, callVars, limbo>>
       ELSE /\ pc' = "loadWords" /\ w' = 0
            /\ UNCHANGED <<chipVars, unit, result, p, buf, status, ctxVars, callVars, limbo>>

LoadWord ==
  /\ pc = "loadWords" /\ w < PageSize
  /\ Pi(WriteData(w, w + WordSize, PageToLoad),
        Step("loadWords") /\ w' = w + WordSize /\ UNCHANGED <<p, buf, status>>)

\* Mutant: the last word of the page is not written.
LoadWordsShort ==
  /\ pc = "loadWords" /\ w >= PageSize - WordSize
  /\ Goto("programCmd") /\ UNCHANGED chipVars

LoadWordsDone ==
  /\ pc = "loadWords" /\ w >= PageSize
  /\ Goto("programCmd") /\ UNCHANGED chipVars

ProgramCommand ==
  /\ pc = "programCmd"
  /\ Pi(WriteProgram(p), Goto("programPoll"))

\* Every page is programmed, or the loop left it at that: return ctx.Err().
WriteReturn ==
  /\ pc = "loadCmd" /\ (p >= SEnd \/ cancelled)
  /\ Leave(IF cancelled THEN "cancelled" ELSE "ok")
  /\ buf' = <<>>
  /\ limbo' = IF cancelled THEN limbo ELSE limbo \ (SBegin .. SEnd - 1)
  /\ UNCHANGED <<chipVars, unit, status>>

------------------------------------------------------------------------------
(* The environment *)

\* SIGINT while safeSigIntContext runs a Read or a Write.
Interrupt ==
  /\ pc \notin {"idle", "closed"} /\ call.op \in {"read", "write"} /\ ~cancelled
  /\ cancelled' = TRUE
  /\ UNCHANGED <<chipVars, pc, unit, result, localVars, expired, callVars, history>>

Timeout ==
  /\ pc \in {"erasePoll", "programPoll"} /\ ~expired
  /\ expired' = TRUE
  /\ UNCHANGED <<chipVars, pc, unit, result, localVars, cancelled, callVars, history>>

\* The process exits, or is killed in the middle of a call.
Kill ==
  /\ pc # "closed"
  /\ pc' = "closed" /\ unit' = 0
  /\ result' = IF pc = "idle" THEN result ELSE "none"
  /\ p' = 0 /\ w' = 0 /\ buf' = <<>> /\ status' = {}
  /\ cancelled' = FALSE /\ expired' = FALSE
  /\ UNCHANGED <<chipVars, callVars, history>>

WsmDone == \E ok \in BOOLEAN : Finish(ok) /\ UNCHANGED driverVars

------------------------------------------------------------------------------
Calling == CallNew \/ CallRegister \/ CallRead \/ CallWrite \/ CallInvalid

Registers ==
  \/ SiliconIDCommand \/ SiliconIDRead \/ NewReadArray
  \/ StatusCommand \/ StatusRead \/ ClearStatusCommand \/ ClearStatusWrite

Reading == ReadArrayCommand \/ ReadInterrupted \/ ReadBurst \/ ReadReturn \/ PrepareSectors \/ Panic

Polling == \E kind \in {"erase", "program"} :
             PollStatus(kind) \/ PollAbandoned(kind) \/ ClearAndCheck(kind)

Writing ==
  \/ EraseSetup \/ EraseCommand \/ ErasesDone
  \/ LoadCommand \/ LoadBurst \/ LoadWord \/ LoadWordsDone \/ ProgramCommand \/ WriteReturn

Driver == Registers \/ Reading \/ Polling \/ Writing

Next == Calling \/ Driver \/ Interrupt \/ Timeout \/ Kill \/ WsmDone

Spec == Init /\ [][Next]_vars

(***************************************************************************)
(* A PI operation always returns (the USB reads give up) and a timer runs  *)
(* out.  Nothing is assumed of the chip: it may stay busy for ever.        *)
(***************************************************************************)
FairSpec == Spec /\ WF_vars(Driver) /\ WF_vars(Timeout)

------------------------------------------------------------------------------
(* What the driver promises *)

Done(op) == pc = "idle" /\ call.op = op /\ result = "ok"

\* The byte that a write of the call leaves at place i of page q.
Expected(q, i) ==
  LET place == q * PageSize + i - call.offset
  IN  IF place >= 0 /\ place < call.size THEN call.data[place + 1] ELSE old[q][i]

(***************************************************************************)
(* Write (io.go:35): when it reports success every byte of the range holds *)
(* the data and every other byte of the chip holds what it held, through   *)
(* the erase of whole sectors, their reading before and the programming of *)
(* every page.  The write must begin in the first page of a sector (what   *)
(* happens otherwise is WritesAtOffset), and on a chip that only clears    *)
(* bits of its internal page every load must have found it erased.         *)
(***************************************************************************)
WrittenAsAsked ==
  Done("write") /\ steady /\ SBegin = Begin /\ (clean \/ ~PageClearsOnly)
    => \A q \in Pages : \A i \in InPage : array[q][i] = Expected(q, i)

(***************************************************************************)
(* The driver promises "a more familiar linear byte addressing model"      *)
(* (io.go:10), and flash write an offset (main.go:1465), wherever a range  *)
(* begins: the data lands at offset, bytes outside of it are kept.         *)
(***************************************************************************)
WritesAtOffset ==
  Done("write") /\ steady /\ clean
    => \A q \in Pages : \A i \in InPage : array[q][i] = Expected(q, i)

(***************************************************************************)
(* Read (io.go:17): a successful read of an idle chip returns the bytes of *)
(* [offset, offset+size[, through bursts that never wrap at the boundary   *)
(* of the chip's address counter and with the right bytes per address.     *)
(***************************************************************************)
ReadReturnsCells ==
  Done("read") /\ steady
    => \A j \in 0 .. call.size - 1 :
         LET place == Skip + j
             cell == call.offset + j
         IN  buf[(place \div PageSize) + 1][place % PageSize]
               = old[cell \div PageSize][cell % PageSize]

(***************************************************************************)
(* New (flash.go:19): on an idle chip it detects the layout of the chip,   *)
(* in spite of the quirk, and leaves the chip in array mode.               *)
(***************************************************************************)
LayoutDetected == Done("new") /\ steady => unit = ChipUnit /\ mode = "array"

(***************************************************************************)
(* Each read of the status register, each load of the internal page and,   *)
(* on an idle chip, each burst is done in the mode that it needs, although *)
(* a mode switch may need two writes and a failed operation may have been  *)
(* left anywhere.                                                          *)
(***************************************************************************)
RightMode ==
  /\ pc \in {"clearWrite", "statusRead", "erasePoll", "programPoll", "eraseClear", "programClear"}
       => mode = "status"
  /\ pc \in {"loadData", "loadWords"} => mode = "load"
  /\ pc = "burst" /\ steady => mode = "array"

(***************************************************************************)
(* Erase and program commands are only written to a chip whose WSM is      *)
(* idle (it would ignore them, and the poll that follows would take the    *)
(* end of another operation for theirs), and a page is only programmed     *)
(* when its cells are erased.                                              *)
(***************************************************************************)
CommandsTaken ==
  /\ pc \in {"eraseCmd", "programCmd"} => working = "no"
  /\ pc = "eraseCmd" => SetupPages(cir) # {}
  /\ pc = "programCmd" => array[p] = ErasedPage

\* FlashStore: pages change only in limbo, whatever happens to the rest.
Store == INSTANCE FlashStore
  WITH cells <- array, Contents <- PageContent,
       Sectors <- {SectorPages(q) : q \in Pages}
StoreSpec == Store!Spec

(***************************************************************************)
(* Every call ends, even when the chip stays busy for ever, when it is     *)
(* interrupted or when the link fails.                                     *)
(***************************************************************************)
CallsEnd == pc \notin {"idle", "closed"} ~> pc \in {"idle", "closed"}
==============================================================================
