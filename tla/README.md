# Verification of g64drive

`g64drive` is a command-line program for the 64drive, a Nintendo 64 flash
cartridge on USB. This directory holds TLA+ models of its core, the TLC
configurations that check them on small instances, and TLAPS proofs about them.
Line numbers refer to the repository this directory stands in (its root is
`src/` in `PROJECT.json`).

## The system

```
 main.go  commands ──► drive64  Device (USB commands) ──► 64drive firmware
    │                                   ▲
    └──► ultrasave/flash  FlashRAM driver (PI reads/writes) ──► FlashRAM chip
         ultrasave/joybus, eeprom, rtc  (SI exchanges)
```

| part | state it keeps | operations | what makes it correct |
|---|---|---|---|
| command link (`drive64/drive64.go`) | the USB stream, the cached version | `Open`, `Close`, `SendCmd`, `SendCmdNoCmp`, one function per command | a call returns the answer of its own command; commands that a firmware does not know are not sent; every call ends |
| transfers and settings (`drive64.go`, `byteswap.go`, `main.go` 115-647) | memory and settings of the 64drive, a goroutine, a pipe, a hash, a cancellable context | `cmdUpload`, `cmdDownload`, `cmdCic`, `cmdSaveType`, `cmdExtended`, `CmdUpload`, `CmdDownload` | the units of the file reach their addresses once, in order; an interrupted transfer is no success; the settings fit the ROM |
| FlashRAM driver (`ultrasave/flash`) | the detected layout; in the chip the cells, the internal page, the mode, the write state machine (WSM) and the status | `New`, `SiliconID`, `Status`, `ClearStatus`, `Read`, `Write` | a write changes the bytes asked for and no other, through erases of whole sectors; commands reach a chip that takes them |
| FlashRAM layout (`layout.go`) | none | page, sector, burst and range arithmetic | ranges are covered exactly, bursts do not wrap |
| standalone session (`main.go` 146-160, 767-917, 1136-1248) | the mode of the 64drive, whether it is frozen | `withStandaloneMode`, `downloadPi`, ROM probe, joybus probe | the mode is left when a command ends; a download holds what was asked for; a ROM's size and a device are told right |
| flash commands (`main.go` 919-1134) | none | `flash siliconid / status / read / write` | sizes and offsets are those asked for and inside of the chip |
| firmware upgrade (`main.go` 230-345, 687-725) | CARTROM, the upgrade status | upload, verify, start, poll | only a verified image is started, the outcome is the real one |
| RPK archives (`upgrade.go`) | none | parser of a blob tree | a damaged archive is refused or read the same |
| FIFO debug (`drive64.go` 392-438, `main.go` 727-765) | position in a packet stream | `CmdFifoRead`, `cmdDebug` | what it prints was sent; it finds packet boundaries again; Ctrl+C ends it |
| joybus, eeprom, rtc | none | one SI exchange per call | a device is asked only what it knows, or the 64drive is reset |
| tables, IPL2 checksum, ROM database, enumeration, command line, Windows set-up | none | look-ups, pure functions, system calls | - |

What is hard here: a USB stream whose answers may be late or cut; commands that
fail or whose process is killed between two hardware operations while the
hardware goes on; a goroutine that feeds a pipe whose blocks do not match the
chunks of the uploader; Ctrl+C at any moment; end of file and sizes inside of a
block; polls with timeouts; a mode, and a device that may freeze the 64drive, which
every way out of a command has to make good; a stream without a beginning.
`PROJECT.json` lists these hazards at their lines.

## Modules

| module | models |
|---|---|
| `FlashLayout` | `layout.go`; bit masks appear as the arithmetic they mean |
| `FlashChip` | the chip behind the driver, external: modes, set-up commands, internal page, WSM, status register, as the driver's comments, constants and tests describe it |
| `Flash` | the driver, one action for each PI operation; extends `FlashChip` |
| `FlashStore` | what the driver promises of the cells: abstract specification |
| `FlashProofs`, `FlashContentProofs` | theorems about them |
| `Link` | `SendCmd` and `SendCmdNoCmp` over the USB stream, with the version cache |
| `LinkProofs` | theorems about it |
| `Transfer` | `cmdUpload`, `cmdDownload`, `cmdCic`, `cmdSaveType`, `cmdExtended` and all they call, on a 64drive whose commands succeed, fail or are cut off |
| `Copying` | what a transfer promises of memory and of a file: abstract specification |
| `TransferProofs` | theorems about them |
| `Upgrade` | `cmdFirmwareUpgrade`, `upgradeFirmware` and the upgrade module of the 64drive |
| `UpgradeProofs` | theorems about it |
| `Rpk` | `newBlobFromReader` and `NewRPKFromReader` as recursive operators, and what may become of a file |
| `Fifo` | `cmdDebug` and `CmdFifoRead` over a stream of packets |
| `FifoProofs` | theorems about it |
| `Session` | the commands of `ultrasave`, in standalone mode: `withStandaloneMode`, `downloadPi`, `cmdUltraSaveProbe`, `joybusIdentify`, `cmdSiProbe`, the ranges of `cmdFlashRead` and `cmdFlashWrite` |
| `SessionProofs` | theorems about it |
| `Measures` | tuples of numbers in their lexicographic order, and that none gets lower for ever; used by the proofs |
| `MCFlash`, `MCLink`, `MCTransfer`, `MCUpgrade`, `MCFifo`, `MCSession` | instances for TLC |

**Flash.** `pc` names the PI operation that comes next; `call` is the request,
`buf` the sectors that `Write` prepares or the bytes that `Read` collects, `p`
the page of the current loop, `unit` the layout (`bytesPerAddress`), `cancelled`
and `expired` the contexts of the caller and of a poll. Each action is one PI
operation with its effect on the chip (`Pi`); it may fail, because the link may,
and then the call returns and the chip stays where it is. `Kill` ends the process
and a later `New` meets the chip as it was left. The WSM finishes on its own
(`WsmDone`), well or badly, at any time after its command. `limbo` is a history
variable: the pages whose sector is erased or about to be and not yet written.

**Link.** `wire` is what the 64drive still has to deliver. `Read` takes any
number of units that io.ReadFull asks for, `ReadNothing` is an empty read, which
`drive64Device.Read` counts in `zeros` up to its limit. A call that needs a
version (`gate`) sends the version request first unless `vers`, the cache, is
not zero. `Open` purges what has arrived; what is still on its way stays. `clean` is
history: nothing was left on the wire when the connection was opened, and no call
has failed since.

**Transfer.** `pc` walks through `cmdUpload` (extended mode, chunks, CIC, save
type) and `cmdDownload`; `producer`, `block`, `end` and `hashed` are the goroutine
with its pipe and hash: `ReadFile` is one read of io.Copy through the tee and the
byteswapper, `Written` the return of the write to the pipe, `Fill` what io.ReadFull
of `CmdUpload` takes of it. A command of `Link` is here one action with the
outcomes it can have: done, failed, or failed after a part of its data reached
memory. `cancelled` is Ctrl+C during a transfer (`safeSigIntContext`), `Kill` the end of
the process at any other moment or by another signal. `Cic`, `Savetype` and `Extended` are the
commands that set one thing alone: they begin at the `pc` of that setting.
The program cuts an offset to 32 bits (`% Space`) and compares neither it nor the end of a transfer with the size of the bank (`main.go:398`, `561`), and no more
does the model: `Stored` and `Dumped` are what the 64drive, of which the program knows nothing there, may do with
an address outside of the bank: ignore it (and read nothing), or go on at the beginning of the bank. `Fits` tells a
transfer that the bank has room for.

**Upgrade.** `pc` walks through `cmdFirmwareUpgrade` and `upgradeFirmware`; a transfer of
`Transfer` is one action here, with the outcomes that module gives it (all, an error or an
interruption with a part of the data in memory). The upgrade module of the 64drive is external:
`Advance` is one step of its status, which may be a failure, and goes on whether the program
runs or not; `flashed` is history, the images its firmware comes from. Reports keep the
stream of `Link`: `wire` holds halves of answers (a status, a completion packet) that were not
read in time, and the next report reads them first. `PowerCycle` happens between upgrades,
as the code demands. Its archives are what `Rpk` reads from files (`MCUpgrade`).

**Rpk.** A file is a sequence of tokens: the head of a blob with its fields, its body, which begins
with its children, and its end; a compressed body is one token. `Blob` and `Blobs` follow
`newBlobFromReader`: the magic, the length, the checksum, the decompression, the end and the
children, in that order; a checksum is the body that it was computed from. `NewRPK` takes metadata and
asset out of the tree. `Published` is an archive as it should be, `Damaged` every single damage of it.

**Fifo.** `stream` is what the 64drive forwards, a packet in units of 2 bytes; `pos` what was read of it.
Each action is one read, of any length up to what is asked for, with or without an error; its bytes
are gone. The loop may be entered anywhere: `Open` purges, and `Version` may take up to 6 units
of the stream for its answer. `entry`, `cut` and `hurt` are history: where the loop began, whether a
read returned a part of what was asked for, and the packets that a failed read or Ctrl+C hit.

**Session.** `pc` walks through one command: version, enter, its body, leave, exit. `standalone` and `frozen` are the
64drive. A command of the buses is one action, that may fail (`BusFails`); a panic runs the deferred
leave, a kill does not, and a leave or a reset whose answer is lost has an unknown outcome that
nobody looks at. `Interrupt` is Ctrl+C where a context takes it, `Kill` where nothing does. The calls
into the FlashRAM driver end at `request`, which `Flash` takes from there. `hurt` and `lost` are
history: a command of this process failed; the 64drive may be left behind for a reason that
`Restored` names.

## Runs

| run | question | instance |
|---|---|---|
| `flash_word` | what `Read`, `Write` and `New` promise, modes, commands, that every call ends, and that `Flash` implements `FlashStore` | 16-bit addresses, mode switches that may need two writes, burst writes |
| `flash_byte` | the same writes, word by word | byte addresses, an internal page that only clears bits |
| `flash_offset` (violation) | `WritesAtOffset`: data lands at the offset | writes that begin behind a sector's first page |
| `link` | framing, own answers, supported commands, every call ends | a command of each shape of answer, 3 calls, 3 empty reads |
| `link_version` (violation) | `VersionRead`: a version without an error is the 64drive's | 2 calls, 4 empty reads |
| `transfer` | prefixes, completeness, settings; the pipe is closed and no command waits for ever; `Transfer` implements `Copying` (`CopySpec`) | 2 commands |
| `transfer_swap` (violation) | `SwappedThroughout`: a successful upload is swapped throughout | as `transfer` |
| `upgrade` | only a verified image is started, the outcome is true, the progress bar goes forward, the poll ends unless host and 64drive are out of step; no damaged archive is read as another one | 2 commands, 5 archives |
| `upgrade_advice` (violation) | `AdviceSafe`: nobody is told to power-cycle a 64drive that upgrades itself | as `upgrade` |
| `fifo` | only what was sent is printed, no packet is missed without a reason, Ctrl+C ends the program | 3 streams: from the beginning, from inside of a packet, with a late answer in between |
| `session` | the mode is left, downloads are exact, sizes are guessed and devices identified right, requests are inside of the chip, commands end | 3 commands |
| `write_size` (violation) | `DefaultSize`: without `--size` a file is written as it is | 1 command |

What the violations show, in the code:

* `io.go:68` copies the data at `offset % pageSize` into the *sectors* read before,
  not into the page of the offset: a write that begins in the second or a later
  page of a sector lands at its first pages.
* `drive64.go:243` reads the version into its cache: a request that fails after a part
  of the answer makes the next call succeed with that part, or with the late answer of
  another command.
* `byteswap.go:73` returns the last, partial block of a file before it swaps it: files
  whose length is no multiple of 32 KiB end in the wrong byte order, with success.
* `main.go:251` tells to power-cycle the 64drive whenever its upgrade module is not
  ready, an upgrade that goes on in background included; `drive64.go:377` warns that this
  might brick the unit.
* `main.go:1119` takes the rest of the chip for the size of a write without `--size`, where the
  help (`main.go:1466`) says the size of the file: a shorter file is followed by zeros as far as
  the buffer's capacity goes, or the slice panics.

### Bounds

* Flash: 2 sectors of 2 pages of 2 bytes, bursts of at most 2 pages. That is the
  smallest geometry in which a range has an unaligned beginning and end, covers one
  of two sectors or the whole chip, crosses a burst boundary and leaves pages of its
  sector alone. `MaxCalls` is 3 or 4: detection, an abandoned write, and
  what follows it. The proofs are for every geometry.
* Link: one command for every combination of data and completion packet, and for each
  of the two fields of the version; 3 calls (one that fails, its late answer,
  the one that reads it); 3 empty reads, more than the two a late answer needs. The
  proofs are for every value.
* Transfer: units of half a sector (`Pad` 2), blocks of 2, chunks of 4, a ROM of 4 (one full chunk:
  asked for more, its pipe ends with EOF at a chunk's beginning) and another file of 5 (a chunk and a part, which ends
  inside a block and inside a sector); sizes of the file, of a chunk, of a part of a sector, and of more than the files and than
  the bank of 8. The offsets are 0 and one that is cut by the 10 units of address space to 3, inside of a sector: behind it 5 units of
  the bank are left, so that some transfers fit and others run over its end and over that of the address space. In the program
  a block is 64 sectors and a chunk 16 to 128 blocks: what counts is that chunks end
  between blocks, that files do not, and that a file takes several of both. Two commands
  show what an abandoned one leaves to the next. The proofs are for all of them.
* Fifo: packets of one and of two words of data, text and not; each stream has a packet after the one
  that is entered or spoilt, where the loop must be back in step. The proofs are for every stream.
* Session: bursts of -2, 0, 1, 2 and 4 units (a word is 2), so that a burst is refused, makes no progress, fits or is
  longer than what is left; addresses that wrap at 8; all carts of 7 words, one more than the six equal
  ones that end a probe; devices that know any of the two commands, with every ID; 3 commands, so that one meets
  what another left behind and a third one what that made of it. A chip of 4 units, files shorter and longer.
* Rpk: every archive of `MCOriginals`, compressed in all four ways; a file is cut off anywhere, or any one token of it is
  lost, doubled or replaced, or any one field of a head changed.
* Upgrade: 2 commands, so that one meets the upgrade of the other; `MaxLate` 3 halves of answers,
  so that more than one whole answer is late, in step or out of step. Archives: two firmwares that fit,
  one for another variant, a bootloader, one without an asset. The proofs are for all of them.

### Fairness

* `Flash`: weak fairness of `Driver`, as a PI operation always returns: the link gives up
  (`CallsEnd` of `Link`); and of `Timeout`, as timers fire. None of the WSM: the chip
  may stay busy for ever.
* `Link`: weak fairness of `Host`, one goroutine that reads until it gives up.
  None of the 64drive, which may never answer.
* `Transfer`: weak fairness of the main goroutine and of the one behind the pipe, which the
  Go scheduler runs; reads of files return data or an error. None of `Interrupt` or `Kill`.

* `Upgrade`: weak fairness of the program (not of its user) and of `Advance`, an upgrade that ends;
  strong fairness of `Poll`: the 64drive does not stop to answer in time, as far as host and 64drive are in step.
  `UpgradeEnds` shows what happens otherwise: the poll ignores errors and has no limit.
* `Fifo`: weak fairness of `Host`: a read of the USB driver returns, with nothing perhaps.
* `Session`: weak fairness of `Host`, the commands of `Link` and the calls of `Flash`, which end (`CallsEnd`); none of
  `BusFails`, `Interrupt` or `Kill`. A download in bursts of 0 is the exception of `CommandsEnd`: it reads nothing, for ever.

Deadlock is not checked: the program stops when its bound of calls is reached, and is
idle between commands.

## Proofs

tlapm proves, for all values of the constants under the named assumptions
(`LayoutAssumption`, `ChipAssumption`, `FlashAssumption`, `LinkAssumption`, `TransferAssumption`,
`UpgradeAssumption`, `FifoAssumption`, `SessionAssumption`):

* `FlashProofs` about `FlashLayout`: a sector holds its pages; the pages of a byte range are exactly
  those with its bytes; a burst makes progress and never crosses a boundary; the sectors
  of a range are whole sectors of the chip and contain its pages (`SectorsInChip`); offset and size are multiples of the sector size
  if and only if the data is all of the bytes of the sectors (`WholeSectors`), for which `Write` takes its shortcut (`io.go:54`).
* `FlashProofs` about `Flash`: `TypeCorrect`, `ModesRight` (`RightMode`), `StoreImplemented` (`Spec => StoreSpec`, the refinement).
  Types alone are not inductive. `IInv` adds where loops stand and how long the buffer is at each `pc` (`Control`,
  `Buffer`: else a slice would leave it), which mode the chip is in (`Modes`), that the WSM does what
  the driver waits for and nothing at a command (`Wsm`), and that the pages it
  works on, or will, are in limbo (`Limbo`), which is what the refinement needs.
* `FlashContentProofs`: `WritesAsAsked` (`WrittenAsAsked`), `ReadsReturnCells` (`ReadReturnsCells`), `LayoutFound`
  (`LayoutDetected`), `CommandsAreTaken` (`CommandsTaken`). `IInv` does not say what the bytes are; `Content` does, along the
  course of a call. An idle chip is left alone until the erase, so its cells are what they were (`Rests`); the
  pages read are those cells, wherever bursts begin and end (`HasRead`), and with the data copied in they are what the
  write is to leave (`ToWrite`). The sectors before `p` are erased (`Erasing`), which is why only erased pages are programmed
  (`Blank`); the pages before `p` hold their part of the buffer (`Loading`), those beside the sectors of the write what they
  held (`Beside`). What ties a status bit to the cells: a poll ends when the work it waits for has, and of a work that failed
  the bit is not left set. `Ended` is what then is left at the end. The arithmetic of bursts and pages is in lemmas of its own
  (`BurstPlace`, `PageAddress`); they need that a page is a whole number of addresses (`ChipAssumption`).
* `LinkProofs`: `TypeCorrect`, `AnswersFramed` (`FramedAnswer`), `StaysInStep` (`InStep`), `AnswersOwn` (`OwnAnswer`),
  `CommandsSupported` (`OnlySupported`). The invariant looks
  at `answer \o got \o wire` as one stream: before unit `k` of an answer come the units `1` to `k - 1` of the
  same answer, as far back as the stream goes (`Frames`), so a completion packet in the right place pins
  the data before it. Without failures (`clean`) that stream is the answer to the current command
  (`OwnStream`) and the cache holds the version (`GoodVersion`).
* `TransferProofs`: `TypeCorrect`, `UploadsArePrefixes` (`UploadIsPrefix`), `UploadsAreComplete` (`UploadComplete`),
  `DownloadsArePrefixes` (`DownloadIsPrefix`), `CicsFit` (`CicFits`), `SavesFit` (`SaveFits`), for any files, sizes, offsets,
  sectors, blocks and chunks. What is loaded, what is in the chunk's buffer and what is in the pipe follow one another in the file (`Stream`),
  and the goroutine has hashed what it has read (`Feeding`); so the memory holds a prefix of that, padded, and nothing
  else of it has changed (`Mirrors`). That only the last chunk is padded rests on arithmetic: `Done` is a whole number
  of sectors, and a pipe that ends inside one has reached the end of the file. All of this is said of uploads that the bank has room
  for (`Fits`), whatever their offset, which need not be a multiple of a sector; the types, `Feeding`, `Where` and the measures are
  for the others, too. `Downloading` places `addr` and `left` in the file, `Settings` what was
  detected in the ROM, `Where` which command may be at which `pc`; without it a setting could follow a command that never
  uploaded anything.
* `TransferProofs`, the refinement: `CopyImplemented` (`Spec => CopySpec`). In `Copying` a transfer has a source, which says
  for each place of its target what may be copied to it: one unit of the file, a padding, or a unit of the memory as it was
  at the beginning, swapped if asked for. How much is copied is where `addr` is behind `offset`. Each step of `Transfer` is then the beginning,
  a copy of the next units, the end, or a stutter; that it copies from the right place needs that the buffer is the
  part of the file that comes next (`Stream`) and that the source of a download does not change while it runs. A chunk that is cut off or whose
  process is killed is the case where some units are copied by a step that ends the transfer. So what was copied is never changed again
  by the same transfer, none of it is outside of the target, and success means all of it: `Copying` says this of steps, the prefixes above of states.
  `inside` is `Fits`; a transfer that leaves the memory takes steps of `Stray`, which only keep what it does not write to.
* `UpgradeProofs`: `TypeCorrect`, `ImageVerified` (`StartsVerified`), `OutcomeTold` (`OutcomeTrue`), `BarAdvances` (`BarForward`). From the version
  answer to the start the stream is empty and the module ready (`Before`): no late answer passes for a
  version. During the poll a final status that was seen or is on its way is the one the upgrade has
  ended with (`Seen`), and by then every part comes from the image (`Written`); a result holds as long
  as no other upgrade begins (`Ended`). A completion packet is never taken for a status (`Framed`).
  The statuses on their way are in order, none earlier than the one seen last and none later than that of the module
  (`InOrder`): that, and that the bar is at the one seen last, is why it never goes back.
* `FifoProofs`: `TypeCorrect`, `PrintsGenuine` (`Genuine`), `MissesNothing` (`NothingMissed`), for every set of packets
  and every stream. Where the reader is in its packet is where the stream is (`Placed`: what comes next
  is its size, its data or its end), what was printed lies behind it (`Ordered`) and no packet is met twice
  (`Fresh`); as long as no read was cut the reader is at whole words from the entry (`Aligned`), so a header that
  it passed was read as one and led to print or to `hurt` (`Met`).
* `SessionProofs`: `TypeCorrect`, `ModeRestored` (`Restored`), `DownloadsExact`, `SizesGuessed`, `DevicesIdentified` (`Identified`),
  `RequestsInside`, for any carts, devices, chip, options and number of commands. `Mode` says when the 64drive may be in standalone
  mode or frozen without a reason of `Restored`, and that a device is asked again with a command that it knows; `Identifying` what is
  known of a device at each `pc`; `Downloading` places `addr` and `left` in the file, with the arithmetic of remainders that a
  wrapping address needs (`Wrapped`); `Counting` that `counter` words before the last one equal it and the word before those does
  not, which is why no six equal words were passed and `guess` is five words back when they are met.

Calls come to an end. That each of them does is liveness, which stays with TLC, but what is hard about it, that no loop goes
round without getting anywhere, is proved for all values of the constants. A measure of what is left to do, a tuple of
numbers, gets lower in the lexicographic order at every step of the program, and `MeasuresEnd` (`Measures`) says that it
cannot do so for ever:

* `CallsAdvance` (`FlashProofs`): the phase of the call, the pages and the operations left in it, the words left of a page, the timeout.
  The exception is a poll that finds the chip busy (`Waits`), for which the timeout is, and that is a step that lowers the measure.
* `CallsAdvance` (`LinkProofs`): the place in the call, the units of the answer still missing, the empty reads still allowed.
* `CommandsAdvance` (`TransferProofs`): the uploader and the goroutine behind its pipe at once: the stage, the units left,
  the room in the chunk, what the goroutine has not read of the file, and where it is. `Waiting` is what that takes of them: a pipe that is empty has a goroutine that feeds or closes it.
* `CommandsAdvance` (`SessionProofs`): the stage, and the units of a download or the words of a probe that are left in it. A download in bursts of nothing is left out, as in `CommandsEnd`.
* `StopsOnInterrupt` (`FifoProofs`): the debug loop has no end of its own; after Ctrl+C it has at most three reads and a look at the context left.

With weak fairness, and some step of the program enabled as long as a call is at work (which TLC checks with the liveness properties), these give
`CallsEnd`, `CommandEnds`, `CommandsEnd` and `EndsOnInterrupt`. There is none for `UpgradeEnds`: the poll of an upgrade may fail any number of times,
and no measure gets lower while it does; there the strong fairness above is what ends it.

Only model-checked: liveness under fairness (`CallsEnd`, `CommandsEnd`, `CommandEnds`, `EndsOnInterrupt`, `UpgradeEnds`),
which the prover does not handle, nor ENABLED, so that the last step from the measures to them is not a proof; `DamageDetected`, as `Rpk` is recursive; and the properties of the violation runs, which
are false. Every other invariant and action property that a run checks is stated by a theorem.

## Preconditions in the properties

* `steady` (Flash): the chip was idle, and no wrong layout known, when the call began.
  `Write` reads its sectors (`io.go:64`) before it checks that the WSM is ready (`io.go:75`),
  so after a timeout or a kill it may read a busy chip; and `New` on a busy chip
  may detect a wrong layout. No promise about the content is possible then.
* `clean` (Link): no call has failed since the connection was opened. What holds after
  failures is stated without it.
* `clean` (Flash): every page was loaded into an erased internal page, as `loadpage.go:9` assumes. On a chip that only
  clears its bits (`flash_byte`) a write that was abandoned after a load may spoil the next one.
* `Fits` (Transfer): the bank has room for the sectors of the transfer. The program leaves that to its user; of a transfer that
  goes beyond, the model promises that it ends, that a download has the length that was asked for and leaves the memory alone, and that
  an upload leaves the file of the last download alone; nothing of what is at which place.
* `misread` (Transfer): a header that cannot be read back is reported in verbose mode only, and the save
  type becomes none (`main.go:490`).
* `cut`, `hurt` (Fifo): `CmdFifoRead` does not put together what short reads return, and after half a word it
  never finds a header again; a packet that a failed read hit is lost. The model assumes that data does not look
  like a header or an end, that packets are padded (`main.go:754`) and that none is empty.
* `lost`, `hurt` (Session): a command that was killed, or whose enter, leave or reset had no answer, leaves the 64drive in an
  unknown mode, which the next command makes good. `Misleading`: a device that answers only an RTC's
  command but is none is asked again as a regular one, and freezes the 64drive (`main.go:1235`).
* `BeginsEmpty` (Session): `last_data` is zero at first, so that five zero words at the beginning count for six.
* `NoAsset` (Upgrade, Rpk): an archive without an asset is accepted (`upgrade.go:168`); nothing is uploaded and
  nothing compared, and what is in CARTROM is flashed. The root's number of children is covered by no checksum, so one
  damage of a file makes such an archive.
* `WholeRom` (Transfer): the whole of the file is in memory in the N64's byte order. With a
  given `--byteswap` that is wrong, or `--size`, there is no ROM to fit anything to, nor with an empty file, of which nothing
  is uploaded: the save type then is that of what was in memory before. A file whose header names a save type (`ed64`) holds
  at least a sector, as that header does, and the bank holds the part that a CIC is detected from (`TransferAssumption`).

## Not modelled

* Flash: the options `WithLayout` and `WithBaseAddress`, which nothing uses; odd lengths in
  `LoadBytePage`, which only gets whole pages; power cycles of the chip.
* Link: enumeration of devices; the FTDI chunk sizes.
* Transfer: banks other than CARTROM, which have no settings; the save type of one game on HW1
  (`main.go:468-479`); the error returned by the progress bar; an explicit `--extended`; the hash as a
  digest: it is the sequence of units, and reading it while the goroutine writes (an upload with `--size` below
  the file's length, which is no whole ROM) gives a sequence that was there.
  The magic number and the checksum of a boot code are givens of a file.
* Upgrade: the metadata that is only shown; a power cycle during an upgrade, after which nothing can be said of the 64drive.
* Rpk: the LZF code, whose result is a given of a body; collisions of checksums; damage in two places; `DumpMetadata`, which prints.
* Fifo: trailing zeros, which are trimmed before text is printed.
* Session: `--byteswap` values that are refused; the words that `cmdUltraSaveProbe` prints; `ReadBlock` and `WriteBlock` of
  `eeprom` and `rtc`, which nothing calls.
* Everything marked `not_modelled` in `PROJECT.json`: tables, the checksum and the database are data or pure
  functions; enumeration, the command line and the Windows set-up have no state of their own.

## Plan

Built, in this order: `FlashLayout`, `FlashChip`, `Flash` with `FlashStore` and their proofs; `Link` with its
proofs; `Transfer`; `Upgrade` with its proofs; `Fifo` with its proofs; `Session` with its proofs; `Rpk`; the proofs of `Transfer`
and of the content that `Flash` reads and leaves; `Copying` with its refinement; the measures. Next:

1. An abstract specification of the command link (a call and its answer) for the behaviours without failures. What it would say is
   mostly there: `AnswersOwn` and `StaysInStep` that a call returns its own answer and leaves nothing behind, `CallsAdvance` that it ends.

## Running

    tlc -config FlashWord.cfg MCFlash        (Link.cfg MCLink, Transfer.cfg MCTransfer, ...)
    tlapm FlashProofs.tla                    (FlashContentProofs, LinkProofs, TransferProofs,
                                              UpgradeProofs, FifoProofs, SessionProofs, Measures)
