------------------------------- MODULE Transfer -------------------------------
(***************************************************************************)
(* g64drive upload, download, cic, savetype and extended.  An upload reads *)
(* its file in a goroutine of its own, through a byteswapper, a hash and a *)
(* pipe, while CmdUpload loads it chunk by chunk; then the settings of the *)
(* 64drive are fitted to the ROM, as the other commands set them alone.  A *)
(* transfer is interrupted between two chunks, the process may end         *)
(* anywhere, and what the 64drive holds stays.  Its commands are those of  *)
(* Link, each of which here succeeds or fails as a whole, or is cut off    *)
(* after a part of the memory was written.                                 *)
(*                                                                         *)
(* Data is counted in units of equal size.                                 *)
(***************************************************************************)
EXTENDS Integers, Sequences, FiniteSetsExt

CONSTANTS
  Files,      \* what may be uploaded
  Sizes,      \* values of --size; 0 is the size of the file
  Offsets,    \* values of --offset
  MemorySize, \* units of the bank
  Space,      \* units that a uint32 addresses
  Block,      \* units that io.Copy reads at a time
  Chunk,      \* units of a USB command
  Pad,        \* units of a sector: commands and the --size of an upload are multiples of it
  Boot,       \* units of the ROM header that the CIC is detected from
  Large,      \* ROMs of more units than this need the extended mode
  HasCic,     \* the 64drive emulates CICs (HW2)
  HasExtended,\* it has the extended mode (HW2, firmware 2.06)
  MaxCalls    \* bound of a check: number of g64drive commands

(***************************************************************************)
(* Of a file: its length, whether its bytes need swapping, whether the CIC *)
(* it boots with can be told from its header, and where its save type is   *)
(* found: the database, an ED64 header, which is in the first sector, or   *)
(* nowhere.                                                                *)
(***************************************************************************)
ASSUME TransferAssumption ==
  /\ Files \subseteq [name : STRING, length : Nat, swapped : BOOLEAN, boots : BOOLEAN,
                      save : {"db", "ed64", "none"}]
  /\ Sizes \subseteq Nat /\ Offsets \subseteq Int
  /\ Space \in Nat /\ Boot <= MemorySize /\ MemorySize < Space
  /\ {MemorySize, Block, Chunk, Pad, Boot} \subseteq Nat \ {0}
  /\ Large \in Nat /\ MaxCalls \in Nat
  /\ HasCic \in BOOLEAN /\ HasExtended \in BOOLEAN
  /\ Block % Pad = 0 /\ Boot % Pad = 0 /\ Chunk % Block = 0
  /\ \A file \in Files : file.save = "ed64" => file.length >= Pad

VARIABLES
  \* the 64drive
  memory,    \* the bank CARTROM
  cic,       \* the ROM that the emulated CIC boots, or Nothing
  save,      \* the ROM that the emulated save memory is right for, or Nothing
  extended,  \* the extended mode
  \* the command
  pc, job, result, calls,
  left,      \* n of CmdUpload and CmdDownload
  addr,      \* cmdargs[0]
  buf,       \* buf of CmdUpload
  found,     \* the CIC or the save type that was detected
  cancelled, \* the context is cancelled: Ctrl+C
  out,       \* the downloaded file
  \* the goroutine
  producer,  \* "off", "read", "write" or "closed"
  end,       \* how the last read of the file ended: "more", "EOF" or "error"
  pos,       \* units of the file read
  block,     \* units in the pipe
  hashed,    \* units that went into the hash
  \* history
  before,    \* memory when the command began
  misread    \* the header could not be read back

drive == <<memory, cic, save, extended>>
command == <<job, calls, before>>
transfer == <<left, addr, buf, cancelled, out>>
goroutine == <<producer, end, pos, block, hashed>>
vars == <<drive, pc, result, found, misread, command, transfer, goroutine>>

Nothing == [name |-> "nothing", length |-> 0, swapped |-> FALSE, boots |-> FALSE, save |-> "none"]
Blank == [file |-> Nothing, at |-> 0, swap |-> FALSE]
Filler == [file |-> Nothing, at |-> 1, swap |-> FALSE]
Cells == [file : Files \cup {Nothing}, at : Nat, swap : BOOLEAN]

\* Units first .. last - 1 of a file, byteswapped or not.
Content(file, first, last, swap) ==
  [i \in 1 .. last - first |-> [file |-> file, at |-> first + i - 1, swap |-> swap]]

PadUp(n) == ((n + Pad - 1) \div Pad) * Pad

\* The whole of a ROM in the byte order of the N64, and its first n units.
Native(file, n) == Content(file, 0, n, file.swapped)
Header(n) == [i \in 1 .. n |-> memory[i - 1]]

Cmds == {"none", "upload", "download", "cic", "savetype", "extended"}
Jobs == [cmd : Cmds, file : Files \cup {Nothing}, size : Nat, offset : 0 .. Space - 1,
         swap : BOOLEAN, auto : SUBSET {"cic", "save"}, on : BOOLEAN]
NoJob == [cmd |-> "none", file |-> Nothing, size |-> 0, offset |-> 0, swap |-> FALSE,
          auto |-> {}, on |-> TRUE]

Init ==
  /\ memory = [a \in 0 .. MemorySize - 1 |-> Blank]
  /\ cic = Nothing /\ save = Nothing /\ extended = FALSE
  /\ pc = "idle" /\ job = NoJob /\ result = "none" /\ calls = 0
  /\ left = 0 /\ addr = 0 /\ buf = <<>> /\ found = Nothing /\ cancelled = FALSE /\ out = <<>>
  /\ producer = "off" /\ end = "more" /\ pos = 0 /\ block = <<>> /\ hashed = <<>>
  /\ before = memory /\ misread = FALSE

------------------------------------------------------------------------------
(* Commands *)

\* The process ends with the command, and the goroutine with it.
Exit(r) ==
  /\ pc' = "idle" /\ result' = r
  /\ left' = 0 /\ addr' = 0 /\ buf' = <<>> /\ cancelled' = FALSE /\ found' = Nothing
  /\ producer' = "off" /\ end' = "more" /\ pos' = 0 /\ block' = <<>> /\ hashed' = <<>>
  /\ UNCHANGED <<misread, command>>

\* On to the next part of cmdUpload, or out of it.
Proceed(next) ==
  \/ next = "done" /\ Exit("ok") /\ UNCHANGED out
  \/ /\ next # "done" /\ pc' = next /\ left' = 0 /\ buf' = <<>> /\ cancelled' = FALSE
     /\ UNCHANGED <<result, found, misread, command, addr, out, goroutine>>

AfterCic == IF "save" \in job.auto THEN "lookup" ELSE "done"
AfterUpload == IF "cic" \in job.auto THEN "boot" ELSE AfterCic

Start(j) ==
  /\ pc = "idle" /\ calls < MaxCalls
  /\ calls' = calls + 1 /\ job' = j /\ result' = "none" /\ before' = memory /\ misread' = FALSE
  /\ left' = j.size /\ addr' = j.offset /\ out' = <<>>
  /\ UNCHANGED <<drive, buf, cancelled, goroutine>>

(***************************************************************************)
(* The byte order and the settings to fit, --autocic and --autosave, may   *)
(* be the detected ones, or given; a large ROM gets the extended mode.     *)
(* The offset is cut to 32 bits.  Nobody asks whether the bank has room.   *)
(***************************************************************************)
Upload ==
  \E file \in Files, option \in Sizes, wide \in Offsets, swap \in BOOLEAN,
     auto \in SUBSET {"cic", "save"} :
    LET size == IF option = 0 THEN file.length ELSE option
        offset == wide % Space
    IN  /\ option % Pad = 0
        /\ Start([NoJob EXCEPT !.cmd = "upload", !.file = file, !.size = size,
                               !.offset = offset, !.swap = swap, !.auto = auto])
        /\ UNCHANGED found
        /\ pc' = IF offset = 0 /\ size > Large THEN "extended" ELSE "open"

Download ==
  \E size \in Sizes, offset \in Offsets, swap \in BOOLEAN :
    /\ Start([NoJob EXCEPT !.cmd = "download", !.size = size, !.offset = offset % Space,
                           !.swap = swap])
    /\ pc' = "dump" /\ UNCHANGED found

\* One setting alone: the CIC of a ROM that is given, or of that in memory.
Cic ==
  \/ /\ Start([NoJob EXCEPT !.cmd = "cic", !.auto = {"cic"}])
     /\ pc' = "boot" /\ UNCHANGED found
  \/ /\ Start([NoJob EXCEPT !.cmd = "cic"])
     /\ pc' = "cic" /\ found' \in Files

Savetype ==
  /\ Start([NoJob EXCEPT !.cmd = "savetype"])
  /\ pc' = "save" /\ found' \in Files \cup {Nothing}

Extended ==
  /\ \E on \in BOOLEAN : Start([NoJob EXCEPT !.cmd = "extended", !.on = on])
  /\ pc' = "extended" /\ UNCHANGED found

Fail ==
  /\ pc \in {"extended", "boot", "cic", "save"}
  /\ Exit("error") /\ UNCHANGED <<drive, out>>

SetExtended ==
  /\ pc = "extended" /\ HasExtended
  /\ extended' = job.on
  /\ \/ /\ job.cmd = "upload" /\ pc' = "open"
        /\ UNCHANGED <<result, found, misread, command, left, addr, buf, cancelled, goroutine>>
     \/ job.cmd = "extended" /\ Exit("ok")
     \/ Exit("error")
  /\ UNCHANGED <<memory, cic, save, out>>

------------------------------------------------------------------------------
(* The goroutine that feeds the pipe *)

Open ==
  /\ pc = "open"
  /\ pc' = "head" /\ producer' = "read"
  /\ UNCHANGED <<drive, result, found, misread, command, transfer, end, pos, block, hashed>>

\* Mutant: the hash is taken before the byteswapper.
ReadFileHashFirst ==
  /\ producer = "read"
  /\ LET last == Min({pos + Block, job.file.length})
         full == last = pos + Block
         units == Content(job.file, pos, last, full /\ job.swap)
     IN  \/ /\ pos' = last /\ block' = units
            /\ hashed' = hashed \o Content(job.file, pos, last, FALSE)
            /\ end' = IF full THEN "more" ELSE IF units = <<>> THEN "EOF" ELSE "error"
         \/ end' = "error" /\ UNCHANGED <<pos, block, hashed>>
  /\ producer' = "write"
  /\ UNCHANGED <<drive, pc, result, found, misread, command, transfer>>

(***************************************************************************)
(* bsReader.Read fills the whole buffer or returns an error with what it   *)
(* has read, and then does not swap it.  The hash is of what it returns.   *)
(***************************************************************************)
ReadFile ==
  /\ producer = "read"
  /\ LET last == Min({pos + Block, job.file.length})
         full == last = pos + Block
         units == Content(job.file, pos, last, full /\ job.swap)
     IN  \/ /\ pos' = last /\ block' = units /\ hashed' = hashed \o units
            /\ end' = IF full THEN "more" ELSE IF units = <<>> THEN "EOF" ELSE "error"
         \/ end' = "error" /\ UNCHANGED <<pos, block, hashed>>
  /\ producer' = "write"
  /\ UNCHANGED <<drive, pc, result, found, misread, command, transfer>>

\* Mutant: the pipe is closed after an error, and not at the end of the file.
WrittenLeftOpen ==
  /\ producer = "write" /\ block = <<>>
  /\ producer' = CASE end = "more" -> "read" [] end = "EOF" -> "off" [] end = "error" -> "closed"
  /\ UNCHANGED <<drive, pc, result, found, misread, command, transfer, end, pos, block, hashed>>

\* The write to the pipe returns when all of it was read.
Written ==
  /\ producer = "write" /\ block = <<>>
  /\ producer' = IF end = "more" THEN "read" ELSE "closed"
  /\ UNCHANGED <<drive, pc, result, found, misread, command, transfer, end, pos, block, hashed>>

------------------------------------------------------------------------------
(* CmdUpload *)

Wanted == Min({Chunk, left})

NextChunk ==
  /\ pc = "head"
  /\ UNCHANGED <<drive, out>>
  /\ \/ /\ left > 0 /\ ~cancelled /\ pc' = "fill"
        /\ UNCHANGED <<result, found, misread, command, left, addr, buf, cancelled, goroutine>>
     \/ cancelled /\ Exit("interrupted")
     \/ left = 0 /\ ~cancelled /\ Proceed(AfterUpload)

\* io.ReadFull takes what there is in the pipe, as far as it fits.
Fill ==
  /\ pc = "fill" /\ Len(buf) < Wanted /\ block # <<>>
  /\ LET n == Min({Len(block), Wanted - Len(buf)})
     IN  /\ buf' = buf \o SubSeq(block, 1, n)
         /\ block' = SubSeq(block, n + 1, Len(block))
  /\ UNCHANGED <<drive, pc, result, found, misread, command, left, addr, cancelled, out,
                 producer, end, pos, hashed>>

\* Mutant: any end of the pipe is taken for the end of the data.
FillEndsWell ==
  /\ pc = "fill" /\ Len(buf) < Wanted /\ producer = "closed"
  /\ UNCHANGED <<drive, out>>
  /\ Proceed(AfterUpload)

\* The pipe ends: between two chunks, with EOF, CmdUpload takes it for the end of the data.
FillEnds ==
  /\ pc = "fill" /\ Len(buf) < Wanted /\ producer = "closed"
  /\ UNCHANGED <<drive, out>>
  /\ \/ buf = <<>> /\ end = "EOF" /\ Proceed(AfterUpload)
     \/ (buf # <<>> \/ end = "error") /\ Exit("error")

Padded == buf \o [i \in 1 .. PadUp(Len(buf)) - Len(buf) |-> Filler]

\* Mutant: cmdargs[0] stays at the offset.
LoadedAtOffset(units, n, at) ==
  [a \in DOMAIN memory |->
     IF a \in job.offset .. job.offset + n - 1 THEN units[a - job.offset + 1] ELSE memory[a]]

\* Memory with the first n of some units loaded at an address.
Loaded(units, n, at) ==
  [a \in DOMAIN memory |-> IF a \in at .. at + n - 1 THEN units[a - at + 1] ELSE memory[a]]

\* The same when the bank goes on at its beginning behind its end.
LoadedAround(units, n, at) ==
  [a \in DOMAIN memory |->
     LET last == n - ((at + n - 1 - a) % MemorySize)
     IN  IF last > 0 THEN units[last] ELSE memory[a]]

\* What is outside of the bank may be nowhere or in it: the program does not know.
Stored(units, n, at) ==
  {Loaded(units, n, at)}
    \cup (IF at + n <= MemorySize THEN {} ELSE {LoadedAround(units, n, at)})

\* n may become negative with the padding, which ends the loop as 0 does.
Load ==
  /\ pc = "fill" /\ Len(buf) = Wanted
  /\ UNCHANGED <<cic, save, extended, out>>
  /\ \/ /\ memory' \in Stored(Padded, Len(Padded), addr)
        /\ addr' = (addr + Len(Padded)) % Space
        /\ left' = IF left > Len(Padded) THEN left - Len(Padded) ELSE 0
        /\ pc' = "head" /\ buf' = <<>>
        /\ UNCHANGED <<result, found, misread, command, cancelled, goroutine>>
     \/ \E n \in 0 .. Len(Padded) : memory' \in Stored(Padded, n, addr) /\ Exit("error")

------------------------------------------------------------------------------
(* The settings *)

\* cicAutodetect
ReadBoot ==
  /\ pc = "boot"
  /\ UNCHANGED <<drive, out>>
  /\ \/ \E file \in Files :
          /\ file.boots /\ Header(Boot) = Native(file, Boot)
          /\ found' = file /\ pc' = "cic"
          /\ UNCHANGED <<result, misread, command, left, addr, buf, cancelled, goroutine>>
     \/ (\A file \in Files : ~(file.boots /\ Header(Boot) = Native(file, Boot))) /\ Exit("error")

\* Mutant: any failure is taken for a 64drive without CIC emulation.
SetCicOrNot ==
  /\ pc = "cic"
  /\ UNCHANGED <<memory, save, extended>>
  /\ cic' \in {found, cic} /\ Proceed(AfterCic)

\* A 64drive without CIC emulation is left as it is; only an upload succeeds then.
SetCic ==
  /\ pc = "cic"
  /\ UNCHANGED <<memory, save, extended>>
  /\ cic' = IF HasCic THEN found ELSE cic
  /\ \/ (HasCic \/ job.cmd = "upload") /\ Proceed(AfterCic)
     \/ (HasCic \/ job.cmd = "cic") /\ Exit("error") /\ UNCHANGED out

\* The hash, when the goroutine may still be at work, and the database.
LookUp ==
  /\ pc = "lookup"
  /\ \/ \E file \in Files :
          /\ file.save = "db" /\ hashed = Native(file, file.length)
          /\ found' = file /\ pc' = "save"
     \/ /\ \A file \in Files : ~(file.save = "db" /\ hashed = Native(file, file.length))
        /\ pc' = "header" /\ found' = Nothing
  /\ UNCHANGED <<drive, result, misread, command, transfer, goroutine>>

\* The header of the ROM; a failure to read it back is reported, and that is all.
ReadHeader ==
  /\ pc = "header" /\ pc' = "save"
  /\ \/ \E file \in Files :
          /\ file.save = "ed64" /\ Header(Pad) = Native(file, Pad)
          /\ found' = file /\ UNCHANGED misread
     \/ /\ \A file \in Files : ~(file.save = "ed64" /\ Header(Pad) = Native(file, Pad))
        /\ UNCHANGED <<found, misread>>
     \/ misread' = TRUE /\ UNCHANGED found
  /\ UNCHANGED <<drive, result, command, transfer, goroutine>>

SetSave ==
  /\ pc = "save"
  /\ save' = found
  /\ Exit("ok") \/ Exit("error")
  /\ UNCHANGED <<memory, cic, extended, out>>

------------------------------------------------------------------------------
(* CmdDownload *)

\* A unit that is read back, byteswapped or not.
CellRead(a) ==
  LET cell == IF a \in DOMAIN memory THEN memory[a] ELSE Blank
  IN  [cell EXCEPT !.swap = (cell.swap # job.swap)]

\* Outside of the bank there is nothing to read, or its beginning again.
Dumped(n) ==
  {[i \in 1 .. n |-> CellRead(addr + i - 1)]}
    \cup (IF addr + n <= MemorySize THEN {}
          ELSE {[i \in 1 .. n |-> CellRead((addr + i - 1) % MemorySize)]})

\* Mutant: the padding is written to the file, too.
DumpSectors ==
  /\ pc = "dump" /\ left > 0 /\ ~cancelled
  /\ UNCHANGED drive
  /\ \E units \in Dumped(PadUp(Wanted)) :
       /\ out' = out \o units
       /\ addr' = (addr + Len(units)) % Space /\ left' = left - Len(units)
       /\ UNCHANGED <<pc, result, found, misread, command, buf, cancelled, goroutine>>

\* Whole sectors are read, and what is not asked for is not written to the file.
Dump ==
  /\ pc = "dump" /\ left > 0 /\ ~cancelled
  /\ UNCHANGED drive
  /\ \E units \in Dumped(PadUp(Wanted)) :
       \/ /\ out' = out \o SubSeq(units, 1, Wanted)
          /\ addr' = (addr + Wanted) % Space /\ left' = left - Wanted
          /\ UNCHANGED <<pc, result, found, misread, command, buf, cancelled, goroutine>>
       \/ \E n \in 0 .. Wanted - 1 : out' = out \o SubSeq(units, 1, n) /\ Exit("error")

DumpEnds ==
  /\ pc = "dump"
  /\ UNCHANGED <<drive, out>>
  /\ \/ cancelled /\ Exit("interrupted")
     \/ left = 0 /\ ~cancelled /\ Exit("ok")

------------------------------------------------------------------------------
(* Ctrl+C cancels the context of a transfer, and otherwise ends the process. *)

Interrupt ==
  /\ pc \in {"head", "fill", "dump"} /\ ~cancelled
  /\ cancelled' = TRUE
  /\ UNCHANGED <<drive, pc, result, found, misread, command, left, addr, buf, out, goroutine>>

Kill == pc # "idle" /\ Exit("killed") /\ UNCHANGED <<drive, out>>

Goroutine == ReadFile \/ Written
Host ==
  \/ SetExtended \/ Open \/ NextChunk \/ Fill \/ FillEnds \/ Load
  \/ ReadBoot \/ SetCic \/ LookUp \/ ReadHeader \/ SetSave \/ Dump \/ DumpEnds \/ Fail
Next == Upload \/ Download \/ Cic \/ Savetype \/ Extended \/ Host \/ Goroutine \/ Interrupt \/ Kill
Spec == Init /\ [][Next]_vars

\* Files and the 64drive answer, with something or an error, and goroutines are scheduled.
FairSpec == Spec /\ WF_vars(Host) /\ WF_vars(Goroutine)

------------------------------------------------------------------------------
(* What the transfers promise *)

TypeOK ==
  /\ memory \in [0 .. MemorySize - 1 -> Cells]
  /\ {cic, save, found} \subseteq Files \cup {Nothing} /\ extended \in BOOLEAN
  /\ pc \in {"idle", "extended", "open", "head", "fill", "boot", "cic", "lookup", "header",
             "save", "dump"}
  /\ job \in Jobs
  /\ result \in {"none", "ok", "error", "interrupted", "killed"}
  /\ calls \in 0 .. MaxCalls /\ left \in Nat /\ addr \in 0 .. Space - 1
  /\ buf \in Seq(Cells) /\ Len(buf) <= Chunk
  /\ block \in Seq(Cells) /\ Len(block) <= Block
  /\ {out, hashed} \subseteq Seq(Cells)
  /\ {cancelled, misread} \subseteq BOOLEAN
  /\ producer \in {"off", "read", "write", "closed"} /\ end \in {"more", "EOF", "error"}
  /\ pos \in Nat /\ before \in [0 .. MemorySize - 1 -> Cells]

\* Units of the file that an upload is to write, and the sectors that a transfer takes.
Asked == Min({job.size, job.file.length})
Extent == PadUp(IF job.cmd = "upload" THEN Asked ELSE job.size)

\* The bank has room for the transfer, which the program leaves to its user (main.go:398, 561).
Fits == job.offset + Extent <= MemorySize

(***************************************************************************)
(* At any time, and whatever fails, is interrupted or killed, an upload    *)
(* that the bank has room for has written a beginning of what was asked    *)
(* for, in its place, with the padding of the last sector at most, and     *)
(* nothing else: the pieces of the pipe, the chunks and the addresses fit  *)
(* together (CmdUpload).                                                   *)
(***************************************************************************)
InPlace(a, n) ==
  IF a \in job.offset .. job.offset + n - 1
  THEN IF a - job.offset < Asked
       THEN memory[a].file = job.file /\ memory[a].at = a - job.offset
       ELSE memory[a] = Filler
  ELSE memory[a] = before[a]

UploadIsPrefix ==
  Fits => \E n \in 0 .. PadUp(Asked) : \A a \in 0 .. MemorySize - 1 : InPlace(a, n)

\* When it succeeds that is all of it, or all that the file has (CmdUpload).
UploadComplete ==
  job.cmd = "upload" /\ Fits
    /\ (result = "ok" \/ pc \in {"boot", "cic", "lookup", "header", "save"})
    => \A a \in 0 .. MemorySize - 1 : InPlace(a, PadUp(Asked))

(***************************************************************************)
(* The file that a download leaves behind is as long as what was asked for *)
(* on success, and never longer; where the bank has it, it holds the units *)
(* of its range, from the first on (CmdDownload).                          *)
(***************************************************************************)
DownloadIsPrefix ==
  job.cmd = "download"
    => /\ Len(out) <= job.size /\ (result = "ok" => Len(out) = job.size)
       /\ Fits => \A i \in 1 .. Len(out) : out[i] = CellRead(job.offset + i - 1)

(***************************************************************************)
(* After a successful upload of a ROM, or cic auto, the 64drive emulates   *)
(* the CIC that the ROM in its memory boots with (cmdUpload with its       *)
(* --autocic, cmdCic).                                                     *)
(***************************************************************************)
CicFits ==
  result = "ok" /\ "cic" \in job.auto /\ HasCic
    => cic.boots /\ Header(Boot) = Native(cic, Boot)

RightSave(file) == IF file.save = "none" THEN Nothing ELSE file

\* The whole file was uploaded as a ROM, in the right byte order; an empty file is none.
WholeRom ==
  /\ job.cmd = "upload" /\ job.offset = 0 /\ job.size = job.file.length /\ job.size > 0 /\ Fits
  /\ Header(job.size) = Native(job.file, job.size)

(***************************************************************************)
(* And it emulates the save memory of that ROM, by its hash or its header: *)
(* the goroutine has put all of the file into the hash by then.  A header  *)
(* that could not be read back is the exception (main.go:490).             *)
(***************************************************************************)
SaveFits ==
  result = "ok" /\ WholeRom /\ "save" \in job.auto /\ ~misread => save = RightSave(job.file)

(***************************************************************************)
(* Transparent byteswapping (README.md:108, --byteswap): a successful      *)
(* upload has swapped every unit, or none, as it was asked to.             *)
(***************************************************************************)
SwappedThroughout ==
  result = "ok" /\ job.cmd = "upload" /\ Fits
    => \A a \in job.offset .. job.offset + Asked - 1 : memory[a].swap = job.swap

------------------------------------------------------------------------------
(* What the transfers promise, step by step *)

SwappedCell(cell) == [cell EXCEPT !.swap = ~cell.swap]

\* The units that go to each place: those of the file, swapped or not, and the padding.
Source ==
  CASE job.cmd = "upload" ->
         [i \in 1 .. PadUp(Asked) |->
            IF i <= Asked THEN {[file |-> job.file, at |-> i - 1, swap |-> b] : b \in BOOLEAN}
            ELSE {Filler}]
    [] job.cmd = "download" -> [i \in 1 .. job.size |-> {CellRead(job.offset + i - 1)}]
    [] OTHER -> <<>>

(***************************************************************************)
(* Copying: the units go to their places in order, each of them once, and  *)
(* nothing else changes in any step (CmdUpload, CmdDownload, and their     *)
(* absence in the other commands), as far as the bank has room.            *)
(***************************************************************************)
Copy == INSTANCE Copying
  WITH Places <- 0 .. MemorySize - 1, Swapped <- SwappedCell,
       running <- pc # "idle", toMemory <- job.cmd # "download", at <- job.offset,
       inside <- Fits, source <- Source,
       done <- IF pc = "idle" \/ ~Fits THEN 0 ELSE addr - job.offset

CopySpec == Copy!Spec

(***************************************************************************)
(* Every command ends: the goroutine always closes its pipe and CmdUpload  *)
(* never waits for a chunk that does not come.                             *)
(***************************************************************************)
CommandEnds == pc # "idle" ~> pc = "idle"
==============================================================================
