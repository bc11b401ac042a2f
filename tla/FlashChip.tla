------------------------------ MODULE FlashChip ------------------------------
(***************************************************************************)
(* The FlashRAM chip in the cartridge, as ultrasave/flash uses it over the *)
(* parallel interface (PI).  The chip is not code of the repository: its   *)
(* behaviour is the one the driver's comments and its tests on a MX29L1100 *)
(* and a MN63F8MPN state.                                                  *)
(*                                                                         *)
(* A command is written to the command register (CIR) and selects what     *)
(* reads return, or prepares or starts an erase or the programming of the  *)
(* internal page, which the chip's write state machine (WSM) then does on  *)
(* its own: its end is an action of the chip.                              *)
(***************************************************************************)
EXTENDS FlashLayout, Sequences

CONSTANTS
  Byte,           \* values of a byte that the properties tell apart
  Erased,         \* the byte of erased cells, 0xff
  Garbage,        \* a byte nobody can predict
  ChipUnit,       \* bytes per address of this chip (the ^BYTE pin)
  Quirky,         \* TRUE: a mode switch may need two CIR writes (MX29L1100)
  PageClearsOnly, \* TRUE: writes only clear bits of the internal page (MN63F8MPN)
  OkDefault       \* value of the two OK bits when cleared (chip dependent)

ASSUME ChipAssumption ==
  /\ Erased \in Byte /\ Garbage \in Byte /\ Erased # Garbage
  /\ ChipUnit \in Units /\ PageSize % ChipUnit = 0
  /\ Quirky \in BOOLEAN /\ PageClearsOnly \in BOOLEAN /\ OkDefault \in BOOLEAN

VARIABLES
  array,    \* the cells: contents of every page
  page,     \* the internal page, loaded before it is programmed
  mode,     \* what reads return: "array", "status", "id" or "load"
  cir,      \* the last command written to the CIR
  working,  \* what the WSM is doing: "no", "erase" or "program"
  target,   \* the pages it is working on
  goal,     \* what each of them holds once it has succeeded
  okBits    \* result bits of the status register that are set

chipVars == <<array, page, mode, cir, working, target, goal, okBits>>

InPage == 0 .. PageSize - 1
PageContent == [InPage -> Byte]
ErasedPage == [i \in InPage |-> Erased]
GarbagePage == [i \in InPage |-> Garbage]

ModeOf == [readArray |-> "array", status |-> "status",
           siliconID |-> "id", loadBytePage |-> "load"]
Commands == [op : DOMAIN ModeOf \cup {"sectorErase", "chipErase", "erase", "programPage"},
             page : Pages]
Command(op) == [op |-> op, page |-> 0]

OkBits == {"eraseOK", "programOK"}
StatusBits == OkBits \cup {"eraseBusy", "programBusy", "wsmReady"}
DefaultOk == IF OkDefault THEN OkBits ELSE {}
OkBitOf == [erase |-> "eraseOK", program |-> "programOK"]
BusyBitOf == [erase |-> "eraseBusy", program |-> "programBusy"]

ChipTypeOK ==
  /\ array \in [Pages -> PageContent]
  /\ page \in PageContent
  /\ mode \in {"array", "status", "id", "load"}
  /\ cir \in Commands
  /\ working \in {"no", "erase", "program"}
  /\ target \subseteq Pages
  /\ goal \in PageContent
  /\ okBits \subseteq OkBits

\* Power on: array mode, an erased internal page, nothing to do.
ChipInit(content) ==
  /\ array = content
  /\ page = ErasedPage
  /\ mode = "array"
  /\ cir = Command("readArray")
  /\ working = "no"
  /\ target = {}
  /\ goal = ErasedPage
  /\ okBits = DefaultOk

------------------------------------------------------------------------------
(***************************************************************************)
(* Commands.  The quirk: a switch to status or silicon-ID mode, and one    *)
(* from array to load mode, may only be done by the second of two writes   *)
(* of the command.  A busy WSM takes a status command and may ignore the   *)
(* other ones.                                                             *)
(***************************************************************************)
MayLag(op) ==
  /\ Quirky /\ cir.op # op
  /\ op \in {"status", "siliconID"} \/ (op = "loadBytePage" /\ mode = "array")

MayIgnore(op) == working # "no" /\ op # "status"

WriteMode(op) ==
  /\ mode' \in {ModeOf[op]} \cup IF MayLag(op) \/ MayIgnore(op) THEN {mode} ELSE {}
  /\ cir' = Command(op)
  /\ UNCHANGED <<array, page, working, target, goal, okBits>>

\* The setup of an erase: it does nothing before cmdErase follows.
WriteSetup(op, p) ==
  /\ cir' = [op |-> op, page |-> p]
  /\ UNCHANGED <<array, page, mode, working, target, goal, okBits>>

\* The WSM starts: the cells are undefined until it is done.
Start(kind, pages, content) ==
  /\ working' = kind
  /\ target' = pages
  /\ goal' = content
  /\ mode' = "status"
  /\ array' = [q \in Pages |-> IF q \in pages THEN GarbagePage ELSE array[q]]

SetupPages(command) ==
  CASE command.op = "sectorErase" -> Pages \cap SectorPages(command.page)
    [] command.op = "chipErase" -> Pages
    [] OTHER -> {}

\* cmdErase is ignored unless the previous command is its setup.
WriteErase ==
  /\ cir' = Command("erase")
  /\ IF cir.op \in {"sectorErase", "chipErase"} /\ working = "no"
       THEN Start("erase", SetupPages(cir), ErasedPage)
       ELSE UNCHANGED <<array, mode, working, target, goal>>
  /\ UNCHANGED <<page, okBits>>

\* Bits can only be cleared: old and new byte are combined with a bitwise and.
And(a, b) ==
  CASE a = Erased -> b
    [] b = Erased -> a
    [] a = b -> a
    [] OTHER -> Garbage

\* Programming clears bits of the cells and leaves the internal page erased.
WriteProgram(p) ==
  /\ cir' = [op |-> "programPage", page |-> p]
  /\ IF working = "no"
       THEN /\ Start("program", {p}, [i \in InPage |-> And(array[p][i], page[i])])
            /\ page' = ErasedPage
       ELSE UNCHANGED <<array, page, mode, working, target, goal>>
  /\ UNCHANGED okBits

------------------------------------------------------------------------------
(***************************************************************************)
(* Writes to the data addresses: in load mode they go to the internal      *)
(* page, in status mode they clear the result bits.                        *)
(***************************************************************************)
WriteData(from, to, data) ==
  /\ page' = IF mode # "load" THEN page
             ELSE [i \in InPage |->
                     IF from <= i /\ i < to
                       THEN IF PageClearsOnly THEN And(page[i], data[i]) ELSE data[i]
                       ELSE page[i]]
  /\ okBits' = IF mode = "status" THEN DefaultOk ELSE okBits
  /\ UNCHANGED <<array, mode, cir, working, target, goal>>

StatusRegister ==
  okBits \cup IF working = "no" THEN {"wsmReady"} ELSE {BusyBitOf[working]}

\* What a read of the status may return: anything in another mode.
StatusReads == IF mode = "status" THEN {StatusRegister} ELSE SUBSET StatusBits

(***************************************************************************)
(* The byte at place j of a burst in array mode that starts at an address. *)
(* The address counter wraps inside a block of ReadPageBoundary pages.     *)
(***************************************************************************)
ArrayByte(address, j) ==
  LET block == ReadPageBoundary * PageSize
      first == address * ChipUnit
      place == (first - (first % block)) + ((first + j) % block)
  IN  IF mode = "array" /\ working = "no" /\ place < ChipSize
        THEN array[place \div PageSize][place % PageSize]
        ELSE Garbage

BurstPages(address, count) ==
  [k \in 1 .. count |-> [i \in InPage |-> ArrayByte(address, (k - 1) * PageSize + i)]]

------------------------------------------------------------------------------
(***************************************************************************)
(* The WSM is done, with success or not: the busy bit is cleared, the OK   *)
(* bit gets the result and wsmReady is set.                                *)
(***************************************************************************)
Finish(ok) ==
  /\ working # "no"
  /\ working' = "no"
  /\ target' = {}
  /\ array' = IF ok THEN [q \in Pages |-> IF q \in target THEN goal ELSE array[q]]
                    ELSE array
  /\ okBits' = IF ok THEN okBits \cup {OkBitOf[working]} ELSE okBits \ {OkBitOf[working]}
  /\ goal' = ErasedPage
  /\ UNCHANGED <<page, mode, cir>>
==============================================================================
