-------------------------- MODULE FlashContentProofs --------------------------
(***************************************************************************)
(* What the FlashRAM driver reads and leaves in the cells: reads return    *)
(* the bytes of their range, writes leave their data and nothing else, for *)
(* every chip geometry, every set of requests and every number of calls,   *)
(* failures, interrupts and restarts.                                      *)
(***************************************************************************)
EXTENDS FlashProofs

BeforeErase == IDLabels \cup {"newArray"} \cup ReadLabels \cup ClearLabels \cup StatusLabels
LoadLoop == LoadLabels \cup {"loadCmd"}

ErasedIn(S) == \A q \in S : array[q] = ErasedPage

\* The pages of the write, and those that the erase at p is of.
Written == SBegin .. SEnd - 1
Erases == IF WholeChip THEN Pages ELSE SectorPages(p)

\* Every load of the call is taken for what it is.
Sound == clean \/ ~PageClearsOnly

\* The pages read so far are what the cells held.
ReadSoFar ==
  \A k \in 1 .. Len(buf) : \A i \in InPage : buf[k][i] = old[ReadFrom + k - 1][i]

\* The pages in the buffer are what the write is to leave.
Prepared ==
  \A k \in 1 .. Len(buf) : \A i \in InPage : buf[k][i] = Expected(SBegin + k - 1, i)

\* The pages before p hold what was to be written to them.
Programmed == \A q \in SBegin .. p - 1 : array[q] = buf[q - SBegin + 1]

\* The pages beside the sectors of the write hold what they held.
Untouched == \A q \in Pages \ Written : array[q] = old[q]

\* Without bursts the first w bytes of the page are loaded, and the others are
\* still erased where that matters.
LoadedTo ==
  \A i \in InPage : IF i < w THEN page[i] = PageToLoad[i]
                    ELSE PageClearsOnly => page[i] = Erased

\* An idle chip is left alone until its erase, and the layout is known by then.
Rests ==
  /\ pc \in BeforeErase /\ steady => working = "no" /\ array = old
  /\ pc \in ReadLabels \cup {"newArray"} /\ steady => unit = ChipUnit
  /\ pc = "id2" => cir.op = "siliconID"
  /\ pc = "idRead" /\ steady => mode = "id"

HasRead == pc = "burst" /\ steady => ReadSoFar

\* The range must begin at a sector: otherwise it is not the sectors that are read.
ToWrite ==
  pc \in ClearLabels \cup StatusLabels \cup EraseLabels \cup LoadLoop
    /\ call.op = "write" /\ steady /\ SBegin = Begin
  => Prepared

Beside ==
  pc \in EraseLabels \cup LoadLoop => target \subseteq Written /\ (steady => Untouched)

\* The sectors before p are erased, and the one at p is when its erase succeeded.
Erasing ==
  /\ pc \in EraseLabels => ErasedIn(SBegin .. p - 1) /\ (WholeChip => p \in {SBegin, SEnd})
  /\ pc = "eraseCmd" => SetupPages(cir) = Erases
  /\ pc = "erasePoll"
       => IF working = "no" THEN "eraseOK" \in okBits => ErasedIn(Erases)
          ELSE target = Erases /\ goal = ErasedPage
  /\ pc = "eraseClear" /\ "eraseOK" \in status => ErasedIn(Erases)

\* The pages that follow are erased.
Blank ==
  /\ pc = "loadCmd" => cancelled \/ ErasedIn(p .. SEnd - 1)
  /\ pc \in {"loadData", "loadWords", "programCmd"} => ErasedIn(p .. SEnd - 1)
  /\ pc \in {"programPoll", "programClear"} => ErasedIn(p + 1 .. SEnd - 1)
  /\ pc = "programPoll" /\ working # "no" => target = {p}

\* The page at p is what was loaded, and holds it when its programming succeeded.
Loading ==
  Sound =>
    /\ pc \in LoadLoop => Programmed
    /\ pc = "loadWords" => LoadedTo
    /\ pc = "programCmd" => page = PageToLoad
    /\ pc = "programPoll"
         => IF working = "no" THEN "programOK" \in okBits => array[p] = PageToLoad
            ELSE goal = PageToLoad
    /\ pc = "programClear" /\ "programOK" \in status => array[p] = PageToLoad

\* What is left when a call has ended.
Ended ==
  /\ LayoutDetected /\ ReadReturnsCells /\ WrittenAsAsked
  /\ Done("write") => working = "no"

Content == Rests /\ HasRead /\ ToWrite /\ Beside /\ Erasing /\ Blank /\ Loading /\ Ended

------------------------------------------------------------------------------
(* Where the bytes of a range and of a burst are *)

\* A page of the chip begins at a whole number of its addresses.
LEMMA PageAddress ==
  ASSUME NEW q \in Nat
  PROVE  PageReadAddress(ChipUnit, q) * ChipUnit = q * PageSize
         /\ PageReadAddress(ChipUnit, q) \in Nat
  <1>1. PICK n \in Nat : n = PageSize \div ChipUnit
    BY Division, LayoutAssumption, ChipAssumption DEF Units
  <1>2. PageSize = ChipUnit * n
    BY <1>1, LayoutAssumption, ChipAssumption DEF Units
  <1>3. PageReadAddress(ChipUnit, q) = q * n
    BY <1>1 DEF PageReadAddress, AddressesPerPage
  <1>4. (q * n) * ChipUnit = q * (ChipUnit * n) /\ q * n \in Nat
    BY <1>1, ChipAssumption DEF Units
  <1> QED BY <1>2, <1>3, <1>4

\* Byte i of the page that is n pages after page q, in a burst that begins at
\* page q and does not go over a boundary of the address counter.
LEMMA BurstPlace ==
  ASSUME NEW q \in Nat, NEW n \in Nat, q + n < ReadBurstEnd(q), NEW i \in InPage,
         NEW block, block = ReadPageBoundary * PageSize,
         NEW first, first = q * PageSize,
         NEW j, j = n * PageSize + i
  PROVE  (first - (first % block)) + ((first + j) % block) = (q + n) * PageSize + i
  <1>1. PICK a \in Nat, b \in 0 .. ReadPageBoundary - 1 :
          q = ReadPageBoundary * a + b /\ b = q % ReadPageBoundary
    <2>1. q \div ReadPageBoundary \in Nat /\ q % ReadPageBoundary \in 0 .. ReadPageBoundary - 1
          /\ q = ReadPageBoundary * (q \div ReadPageBoundary) + (q % ReadPageBoundary)
      BY Division, LayoutAssumption
    <2> QED BY <2>1
  <1>2. b + n < ReadPageBoundary
    <2>1. ReadBurstEnd(q) = (q - b) + ReadPageBoundary
      BY <1>1 DEF ReadBurstEnd
    <2> HIDE <1>1
    <2>2. b \in Nat
      BY LayoutAssumption
    <2> QED BY <2>1, <2>2, LayoutAssumption
  <1>3. block \in Nat \ {0}
    BY LayoutAssumption
  <1>4. first = block * a + b * PageSize
    BY <1>1, LayoutAssumption
  <1>5. PICK r \in Nat : r = b * PageSize
    BY LayoutAssumption
  <1>6. PICK s \in Nat : s = (b + n) * PageSize + i
    BY LayoutAssumption DEF InPage
  <1>7. r < block /\ s < block
    <2>1. \A c \in Nat, d \in InPage : c < ReadPageBoundary => c * PageSize + d < block
      <3> TAKE c \in Nat, d \in InPage
      <3> HAVE c < ReadPageBoundary
      <3>1. (c + 1) * PageSize <= ReadPageBoundary * PageSize
        BY LayoutAssumption
      <3>2. (c + 1) * PageSize = c * PageSize + PageSize /\ c * PageSize \in Nat
        BY LayoutAssumption
      <3> QED BY <3>1, <3>2, LayoutAssumption DEF InPage
    <2>2. b \in Nat /\ b < ReadPageBoundary /\ b + n \in Nat /\ 0 \in InPage
      BY LayoutAssumption DEF InPage
    <2>3. b * PageSize + 0 < block
      BY <2>1, <2>2
    <2>4. (b + n) * PageSize + i < block
      BY <1>2, <2>1, <2>2
    <2> QED BY <1>5, <1>6, <2>3, <2>4, <1>3
  <1>8. first % block = r
    <2>1. r \in 0 .. block - 1
      BY <1>3, <1>7
    <2>2. (block * a + r) % block = r
      BY <1>3, <2>1, DivisionUnique
    <2> QED BY <1>4, <1>5, <2>2
  <1>9. first + j = block * a + s
    <2>1. b * PageSize + n * PageSize = (b + n) * PageSize
      BY LayoutAssumption
    <2>2. block * a \in Nat /\ b * PageSize \in Nat /\ n * PageSize \in Nat /\ i \in Nat
      BY <1>3, LayoutAssumption DEF InPage
    <2> QED BY <1>4, <1>6, <2>1, <2>2
  <1>10. (first + j) % block = s
    <2>1. s \in 0 .. block - 1
      BY <1>3, <1>7
    <2>2. (block * a + s) % block = s
      BY <1>3, <2>1, DivisionUnique
    <2> QED BY <1>9, <2>2
  <1>11. (q + n) * PageSize + i = block * a + s
    <2>1. (q + n) * PageSize = q * PageSize + n * PageSize
      BY LayoutAssumption
    <2>2. q * PageSize \in Nat /\ n * PageSize \in Nat /\ i \in Nat
      BY LayoutAssumption DEF InPage
    <2> QED BY <1>9, <2>1, <2>2
  <1>12. block * a \in Nat
    BY <1>3
  <1>13. first - r = block * a
    BY <1>4, <1>5, <1>12
  <1> QED BY <1>8, <1>10, <1>11, <1>12, <1>13

\* Byte i of page q, and where it is found again.
LEMMA PageOfPlace ==
  ASSUME NEW q \in Nat, NEW i \in InPage, NEW place, place = q * PageSize + i
  PROVE  place \in Nat /\ place \div PageSize = q /\ place % PageSize = i
  <1>1. (PageSize * q + i) \div PageSize = q /\ (PageSize * q + i) % PageSize = i
    BY DivisionUnique, LayoutAssumption DEF InPage
  <1>2. q * PageSize = PageSize * q /\ q * PageSize \in Nat /\ i \in Nat
    BY LayoutAssumption DEF InPage
  <1> QED BY <1>1, <1>2

\* The bytes of the pages of the chip are those of the chip.
LEMMA PlaceInChip ==
  ASSUME NEW q \in Pages, NEW i \in InPage
  PROVE  q * PageSize + i < ChipSize
  <1>1. ChipSize = TotalPages * PageSize /\ TotalPages \in Nat
    BY LayoutAssumption DEF ChipSize, SectorSize, TotalPages
  <1>2. q \in Nat /\ q + 1 <= TotalPages
    BY <1>1 DEF Pages
  <1>3. (q + 1) * PageSize <= TotalPages * PageSize
    BY <1>1, <1>2, LayoutAssumption
  <1>4. (q + 1) * PageSize = q * PageSize + PageSize /\ q * PageSize \in Nat
    BY <1>2, LayoutAssumption
  <1> QED BY <1>1, <1>3, <1>4, LayoutAssumption DEF InPage

\* A burst with the bytes per address of the chip, of an idle chip in array
\* mode, that does not go over a boundary returns the cells of its pages.
LEMMA BurstReadsCells ==
  ASSUME ChipTypeOK, mode = "array", working = "no",
         NEW q \in Nat, NEW count \in Nat, NEW k \in 1 .. count, NEW i \in InPage,
         q + k - 1 < ReadBurstEnd(q), q + k - 1 \in Pages
  PROVE  BurstPages(PageReadAddress(ChipUnit, q), count)[k][i] = array[q + k - 1][i]
  <1>1. PICK n \in Nat : n = k - 1
    OBVIOUS
  <1>2. PICK address \in Nat : address = PageReadAddress(ChipUnit, q)
    BY PageAddress
  <1>3. PICK j : j = n * PageSize + i
    OBVIOUS
  <1>4. BurstPages(address, count)[k][i] = ArrayByte(address, j)
    BY <1>1, <1>3 DEF BurstPages
  <1>5. PICK block : block = ReadPageBoundary * PageSize
    OBVIOUS
  <1>6. PICK first : first = address * ChipUnit
    OBVIOUS
  <1>7. first = q * PageSize
    BY <1>2, <1>6, PageAddress
  <1>8. PICK place : place = (first - (first % block)) + ((first + j) % block)
    OBVIOUS
  <1>9. ArrayByte(address, j) = IF mode = "array" /\ working = "no" /\ place < ChipSize
                                  THEN array[place \div PageSize][place % PageSize]
                                  ELSE Garbage
    BY <1>5, <1>6, <1>8 DEF ArrayByte
  <1>10. q + n < ReadBurstEnd(q) /\ q + n \in Pages /\ q + n = q + k - 1
    <2>1. q + n = q + k - 1
      BY <1>1
    <2> QED BY <2>1
  <1>11. place = (q + n) * PageSize + i
    BY <1>3, <1>5, <1>7, <1>8, <1>10, BurstPlace
  <1>12. PICK cell \in Pages : cell = q + n
    BY <1>10
  <1>13. cell \in Nat
    BY <1>12, PageTypes
  <1>14. place \div PageSize = cell /\ place % PageSize = i
    BY <1>11, <1>12, <1>13, PageOfPlace
  <1>15. place < ChipSize
    BY <1>11, <1>12, PlaceInChip
  <1> QED BY <1>2, <1>4, <1>9, <1>10, <1>12, <1>14, <1>15

------------------------------------------------------------------------------
(* Where in a call each part of the invariant says something *)

\* A call that ended without a success of New, Read or Write leaves nothing to show.
LEMMA OverContent ==
  ASSUME pc' \in {"idle", "closed"},
         pc' = "closed" \/ result' # "ok" \/ call'.op \notin {"new", "read", "write"}
  PROVE  Content'
  BY DEF Content, Rests, HasRead, ToWrite, Beside, Erasing, Blank, Loading, Ended, Done,
         LayoutDetected, ReadReturnsCells, WrittenAsAsked, BeforeErase, LoadLoop, IDLabels,
         StatusLabels, ClearLabels, ReadLabels, EraseLabels, LoadLabels

\* Before the erases.
LEMMA EarlyContent ==
  ASSUME pc' \in BeforeErase, Rests', HasRead', ToWrite'
  PROVE  Content'
  BY DEF Content, Beside, Erasing, Blank, Loading, Ended, Done,
         LayoutDetected, ReadReturnsCells, WrittenAsAsked, BeforeErase, LoadLoop, IDLabels,
         StatusLabels, ClearLabels, ReadLabels, EraseLabels, LoadLabels

\* In the loop that erases.
LEMMA EraseContent ==
  ASSUME pc' \in EraseLabels, ToWrite', Beside', Erasing'
  PROVE  Content'
  BY DEF Content, Rests, HasRead, Blank, Loading, Ended, Done,
         LayoutDetected, ReadReturnsCells, WrittenAsAsked, BeforeErase, LoadLoop, IDLabels,
         StatusLabels, ClearLabels, ReadLabels, EraseLabels, LoadLabels

\* In the loop that loads and programs pages.
LEMMA LoadContent ==
  ASSUME pc' \in LoadLoop, ToWrite', Beside', Blank', Loading'
  PROVE  Content'
  BY DEF Content, Rests, HasRead, Erasing, Ended, Done,
         LayoutDetected, ReadReturnsCells, WrittenAsAsked, BeforeErase, LoadLoop, IDLabels,
         StatusLabels, ClearLabels, ReadLabels, EraseLabels, LoadLabels

\* Statements about a call last as long as what they are about.
LEMMA StatementsKept ==
  ASSUME UNCHANGED <<call, old, buf>>
  PROVE  /\ Prepared' <=> Prepared
         /\ ReadSoFar' <=> ReadSoFar
         /\ Written' = Written /\ Begin' = Begin /\ SBegin' = SBegin /\ SEnd' = SEnd
         /\ WholeChip' = WholeChip
         /\ p' = p => Erases' = Erases /\ PageToLoad' = PageToLoad
         /\ array' = array => (Untouched' <=> Untouched)
         /\ array' = array /\ p' = p => (Programmed' <=> Programmed)
  <1>1. /\ Begin' = Begin /\ SBegin' = SBegin /\ SEnd' = SEnd /\ WholeChip' = WholeChip
        /\ Written' = Written /\ ReadFrom' = ReadFrom
    BY DEF Begin, End, SBegin, SEnd, WholeChip, Written, ReadFrom
  <1>2. Prepared' <=> Prepared
    BY <1>1 DEF Prepared, Expected
  <1>3. ReadSoFar' <=> ReadSoFar
    BY <1>1 DEF ReadSoFar
  <1>4. p' = p => Erases' = Erases /\ PageToLoad' = PageToLoad
    BY <1>1 DEF Erases, PageToLoad, SectorPages
  <1>5. array' = array => (Untouched' <=> Untouched)
    BY <1>1 DEF Untouched
  <1>6. array' = array /\ p' = p => (Programmed' <=> Programmed)
    BY <1>1 DEF Programmed
  <1> QED BY <1>1, <1>2, <1>3, <1>4, <1>5, <1>6

\* A write in its loops: its pages are in the chip and the buffer holds each of them.
LEMMA WriteFacts ==
  ASSUME IInv, pc \in ClearLabels \cup StatusLabels \cup EraseLabels \cup LoadLoop,
         call.op = "write"
  PROVE  /\ call \in AnyCall /\ ValidOffsetSize(call.offset, call.size)
         /\ SBegin \in Nat /\ SEnd \in Nat /\ SBegin <= SEnd /\ SEnd <= TotalPages
         /\ TotalPages \in Nat /\ Written \subseteq Pages /\ p \in Nat
         /\ SectorBegin(SBegin) = SBegin /\ SectorBegin(SEnd) = SEnd
         /\ buf \in Seq(PageContent) /\ Len(buf) = SEnd - SBegin
         /\ Len(call.data) = call.size /\ call.data \in Seq(Byte) /\ call.offset \in Nat
  <1>1. /\ call \in AnyCall /\ ValidOffsetSize(call.offset, call.size) /\ p \in Nat
        /\ buf \in Seq(PageContent)
    BY DEF IInv, TypeOK, DriverTypeOK, Control, LoadLoop, LoadLabels, EraseLabels,
           ClearLabels, StatusLabels
  <1>2. Len(buf) = SEnd - SBegin
    BY DEF IInv, Buffer, LoadLoop
  <1>3. /\ SBegin \in Nat /\ SEnd \in Nat /\ SBegin <= SEnd /\ SEnd <= TotalPages
        /\ TotalPages \in Nat /\ SectorBegin(SBegin) = SBegin /\ SectorBegin(SEnd) = SEnd
    BY <1>1, CallRange, PageTypes
  <1>4. Written \subseteq Pages
    BY <1>3 DEF Written, Pages
  <1>5. Len(call.data) = call.size /\ call.data \in Seq(Byte) /\ call.offset \in Nat
    BY <1>1, CallTypes DEF ValidOffsetSize
  <1> QED BY <1>1, <1>2, <1>3, <1>4, <1>5

------------------------------------------------------------------------------
(* What a write is to leave *)

\* A byte of the pages of a range that begins where its first page does.
LEMMA ExpectedAt ==
  ASSUME NEW c \in AnyCall, ValidOffsetSize(c.offset, c.size), NEW k \in Nat, NEW i \in InPage,
         NEW q, q = RangeBegin(c.offset) + k
  PROVE  q * PageSize + i - c.offset = k * PageSize + i - Remainder(c.offset)
  <1>1. c.offset \in Int /\ c.size \in Int
    BY CallTypes
  <1>2. PICK b \in Nat : b = RangeBegin(c.offset)
    BY <1>1, RangeCoversBytes
  <1>3. PICK r \in Nat : r = Remainder(c.offset)
    BY <1>1, RangeCoversBytes, LayoutAssumption
  <1>4. c.offset = PageSize * b + r
    BY <1>1, <1>2, <1>3, RangeCoversBytes
  <1>5. (b + k) * PageSize = PageSize * b + k * PageSize
    BY <1>2, LayoutAssumption
  <1>6. PageSize * b \in Nat /\ k * PageSize \in Nat /\ i \in Nat
    BY <1>2, LayoutAssumption DEF InPage
  <1>7. q = b + k
    BY <1>2
  <1> QED BY <1>3, <1>4, <1>5, <1>6, <1>7

\* Data of whole sectors, cut into pages, is what the pages are to hold.
LEMMA ChunksPrepared ==
  ASSUME NEW r \in Requests, r.op = "write", ValidOffsetSize(r.offset, r.size), FitsSectors(r),
         call' = r, buf' = Chunks(r.data)
  PROVE  Prepared'
  <1>1. r \in AnyCall
    BY RequestTypes
  <1>2. r.data \in Seq(Byte) /\ r.offset \in Int /\ r.size \in Int /\ r.size = Len(r.data)
    BY <1>1, CallTypes
  <1>3. SectorsBegin(RangeBegin(r.offset)) = RangeBegin(r.offset)
    BY <1>2, PagesOfSectors DEF FitsSectors
  <1>4. Remainder(r.offset) = 0
    <2>1. PICK s \in Nat : r.offset = (PageSize * PagesPerSector) * s
      <3>1. r.offset \in Nat /\ PageSize * PagesPerSector \in Nat \ {0}
        BY <1>2, LayoutAssumption DEF ValidOffsetSize
      <3>2. SectorSize = PageSize * PagesPerSector
        BY LayoutAssumption DEF SectorSize
      <3>3. /\ r.offset = SectorSize * (r.offset \div SectorSize) + (r.offset % SectorSize)
            /\ r.offset \div SectorSize \in Nat
        BY <3>1, <3>2, Division
      <3>4. r.offset % SectorSize = 0
        BY DEF FitsSectors
      <3>5. PICK s \in Nat : s = r.offset \div SectorSize
        BY <3>3
      <3>6. r.offset = (PageSize * PagesPerSector) * s + 0
        BY <3>2, <3>3, <3>4, <3>5
      <3>7. (PageSize * PagesPerSector) * s \in Nat
        BY LayoutAssumption
      <3> QED BY <3>5, <3>6, <3>7
    <2>2. PICK t \in Nat : t = PagesPerSector * s
      BY LayoutAssumption
    <2>3. r.offset = PageSize * t + 0
      BY <2>1, <2>2, LayoutAssumption
    <2>4. (PageSize * t + 0) % PageSize = 0
      BY DivisionUnique, LayoutAssumption
    <2> QED BY <2>3, <2>4 DEF Remainder
  <1>5. Len(buf') = Len(r.data) \div PageSize
    BY <1>2, ChunksTyped
  <1>6. SBegin' = RangeBegin(r.offset)
    BY <1>3 DEF SBegin, Begin
  <1>7. ASSUME NEW k \in 1 .. Len(buf'), NEW i \in InPage
        PROVE  buf'[k][i] = Expected(SBegin + k - 1, i)'
    <2>1. PICK n \in Nat : n = Len(r.data) \div PageSize /\ PageSize * n <= r.size
      <3>1. PICK len \in Nat : len = Len(r.data) /\ len = r.size
        BY <1>2
      <3>2. PICK n \in Nat, m \in 0 .. PageSize - 1 :
              n = len \div PageSize /\ len = PageSize * n + m
        <4>1. /\ len \div PageSize \in Nat /\ len % PageSize \in 0 .. PageSize - 1
              /\ len = PageSize * (len \div PageSize) + (len % PageSize)
          BY Division, LayoutAssumption
        <4> QED BY <4>1
      <3>3. PageSize * n \in Nat /\ m \in Nat
        BY LayoutAssumption
      <3>4. PageSize * n <= len
        BY <3>2, <3>3
      <3> QED BY <3>1, <3>2, <3>4
    <2>2. k \in 1 .. n
      BY <1>5, <2>1
    <2>3. PICK j \in Nat : j = k - 1
      BY <2>2
    <2>4. PICK place \in Nat : place = j * PageSize + i
      BY <2>3, LayoutAssumption DEF InPage
    <2>5. place < r.size
      <3>1. PageSize * (j + 1) <= PageSize * n
        BY <2>2, <2>3, LayoutAssumption
      <3>2. PageSize * (j + 1) = j * PageSize + PageSize /\ j * PageSize \in Nat
        BY <2>3, LayoutAssumption
      <3>3. PageSize * n \in Nat /\ PageSize * n <= r.size
        <4>1. PageSize * n \in Nat
          BY LayoutAssumption
        <4> QED BY <2>1, <4>1
      <3> QED BY <1>2, <2>4, <3>1, <3>2, <3>3, LayoutAssumption DEF InPage
    <2>6. buf'[k][i] = r.data[place + 1]
      BY <2>1, <2>2, <2>3, <2>4 DEF Chunks
    <2>7. PICK q : q = RangeBegin(r.offset) + j
      OBVIOUS
    <2>8. q * PageSize + i - r.offset = j * PageSize + i - Remainder(r.offset)
      BY <1>1, <2>3, <2>7, ExpectedAt
    <2>9. q * PageSize + i - r.offset = place
      <3>1. j * PageSize + i - Remainder(r.offset) = place
        <4>1. PICK m \in Nat : m = j * PageSize
          BY LayoutAssumption
        <4>2. place = m + i /\ i \in Nat
          BY <2>4, <4>1, LayoutAssumption DEF InPage
        <4>3. PICK rest \in Nat : rest = Remainder(r.offset)
          BY <1>4
        <4>4. m + i - rest = place
          BY <1>4, <4>2, <4>3
        <4> QED BY <4>1, <4>3, <4>4
      <3> QED BY <2>8, <3>1
    <2>10. (SBegin + k - 1)' = q
      <3>1. RangeBegin(r.offset) \in Nat
        BY <1>2, RangeCoversBytes
      <3> QED BY <1>6, <2>2, <2>3, <2>7, <3>1
    <2>11. Expected(q, i)' = r.data[place + 1]
      BY <2>5, <2>9 DEF Expected
    <2> QED BY <2>6, <2>10, <2>11 DEF Expected
  <1> QED BY <1>7 DEF Prepared

\* Data laid over the pages that were read is what the pages are to hold.
LEMMA OverlayPrepared ==
  ASSUME call \in AnyCall, ValidOffsetSize(call.offset, call.size), call.op = "write",
         SBegin = Begin, ReadSoFar, buf \in Seq(PageContent),
         UNCHANGED <<call, old>>, buf' = Overlay(buf, Skip, call.data)
  PROVE  Prepared'
  <1>1. /\ call.data \in Seq(Byte) /\ call.size = Len(call.data) /\ call.size \in Nat
        /\ call.offset \in Int
    BY CallTypes
  <1>2. PICK skip \in Nat : skip = Skip
    BY <1>1, RangeCoversBytes, LayoutAssumption DEF Skip
  <1>3. Len(buf') = Len(buf)
    BY <1>1, <1>2, OverlayTyped
  <1>4. SBegin' = SBegin /\ ReadFrom = SBegin /\ SBegin = RangeBegin(call.offset)
    BY CallKept DEF ReadFrom, Begin
  <1>5. ASSUME NEW k \in 1 .. Len(buf), NEW i \in InPage
        PROVE  buf'[k][i] = Expected(SBegin + k - 1, i)'
    <2>1. PICK j \in Nat : j = k - 1
      OBVIOUS
    <2>2. PICK place : place = j * PageSize + i - skip
      OBVIOUS
    <2>3. buf'[k][i] = IF place >= 0 /\ place < Len(call.data) THEN call.data[place + 1]
                       ELSE buf[k][i]
      BY <1>2, <2>1, <2>2 DEF Overlay
    <2>4. PICK q : q = RangeBegin(call.offset) + j
      OBVIOUS
    <2>5. q * PageSize + i - call.offset = place
      BY <1>2, <2>1, <2>2, <2>4, ExpectedAt DEF Skip
    <2>6. SBegin + k - 1 = q /\ (SBegin + k - 1)' = q /\ ReadFrom + k - 1 = q
      <3>1. RangeBegin(call.offset) \in Nat
        BY <1>1, RangeCoversBytes
      <3> QED BY <1>4, <2>1, <2>4, <3>1
    <2>7. buf[k][i] = old[q][i]
      BY <2>6 DEF ReadSoFar
    <2>8. Expected(q, i)' = IF place >= 0 /\ place < call.size THEN call.data[place + 1]
                            ELSE old[q][i]
      BY <2>5 DEF Expected
    <2> QED BY <1>1, <2>3, <2>6, <2>7, <2>8 DEF Expected
  <1> QED BY <1>3, <1>5 DEF Prepared

------------------------------------------------------------------------------
(* Every step keeps what has been shown of the contents *)

\* A call that begins has read nothing and disturbed nothing.
LEMMA CallingContent == IInv /\ Calling => Content'
  <1> SUFFICES ASSUME IInv, Calling PROVE Content'
    OBVIOUS
  <1> USE DEF IDLabels, StatusLabels, ClearLabels, ReadLabels, EraseLabels, LoadLabels,
              LoadLoop, BeforeErase
  <1>c. ASSUME NEW c, NewCall(c)
        PROVE  /\ call' = c /\ old' = array /\ UNCHANGED <<array, working, unit>>
               /\ steady' => working = "no" /\ unit \in {0, ChipUnit}
    BY <1>c DEF NewCall, chipVars
  <1>1. CASE CallNew
    <2>1. pc' = "id1" /\ NewCall(Plain("new"))
      BY <1>1 DEF CallNew
    <2>2. Rests' /\ HasRead' /\ ToWrite'
      BY <1>c, <2>1 DEF Rests, HasRead, ToWrite, Plain
    <2> QED BY <2>1, <2>2, EarlyContent
  <1>2. CASE CallRegister
    <2>1. PICK op \in {"siliconID", "status", "clearStatus"} :
            /\ NewCall(Plain(op))
            /\ pc' = [siliconID |-> "id1", status |-> "status1", clearStatus |-> "clear1"][op]
      BY <1>2 DEF CallRegister
    <2>2. call'.op # "write" /\ pc' \in {"id1", "status1", "clear1"}
      BY <1>c, <2>1 DEF Plain
    <2>3. Rests' /\ HasRead' /\ ToWrite'
      BY <1>c, <2>1, <2>2 DEF Rests, HasRead, ToWrite
    <2> QED BY <2>2, <2>3, EarlyContent
  <1>3. CASE CallRead \/ CallWrite
    <2>1. PICK r \in Requests :
            /\ ValidOffsetSize(r.offset, r.size) /\ NewCall(r)
            /\ \/ pc' = "readArray"
               \/ r.op = "write" /\ FitsSectors(r) /\ pc' = "clear1" /\ buf' = Chunks(r.data)
      BY <1>3 DEF CallRead, CallWrite
    <2>2. unit \in Units
      BY <1>3 DEF CallRead, CallWrite, IInv, Control
    <2>3. steady' => unit' = ChipUnit
      BY <1>c, <2>1, <2>2 DEF Units
    <2>4. Rests' /\ HasRead'
      BY <1>c, <2>1, <2>3 DEF Rests, HasRead
    <2>5. pc' = "clear1" => Prepared'
      BY <1>c, <2>1, ChunksPrepared
    <2>6. ToWrite'
      BY <2>1, <2>5 DEF ToWrite
    <2> QED BY <2>1, <2>4, <2>6, EarlyContent
  <1>4. CASE CallInvalid
    BY <1>4, OverContent DEF CallInvalid
  <1> QED BY <1>1, <1>2, <1>3, <1>4 DEF Calling

\* A call that returns an error, or is none of New, Read and Write, has nothing to show.
LEMMA ReturnContent ==
  ASSUME NEW r, Return(r), r # "ok" \/ call.op \notin {"new", "read", "write"}
  PROVE  Content'
  <1>1. pc' \in {"idle", "closed"} /\ result' = r /\ call' = call
    BY DEF Return, Leave, callVars
  <1> QED BY <1>1, OverContent

\* The registers are read and cleared on a chip that is left alone.
LEMMA RegistersContent == IInv /\ Content /\ Registers => Content'
  <1> SUFFICES ASSUME IInv, Content, Registers PROVE Content'
    OBVIOUS
  <1> USE DEF IDLabels, StatusLabels, ClearLabels, ReadLabels, EraseLabels, LoadLabels,
              LoadLoop, BeforeErase, localVars, ctxVars, callVars
  <1>k. UNCHANGED <<call, old, steady>>
    BY CallKept DEF Driver
  <1>i. /\ pc \in IDLabels \cup {"newArray"} \cup StatusLabels \cup ClearLabels
        /\ steady => working = "no" /\ array = old
    BY DEF Registers, SiliconIDCommand, SiliconIDRead, NewReadArray, StatusCommand, StatusRead,
           ClearStatusCommand, ClearStatusWrite, Content, Rests
  <1>a. ASSUME pc' \in StatusLabels \cup ClearLabels, pc \in StatusLabels \cup ClearLabels,
               UNCHANGED <<buf, array, working>>
        PROVE  Content'
    <2>1. Rests' /\ HasRead'
      BY <1>a, <1>k, <1>i DEF Rests, HasRead
    <2>2. Prepared' <=> Prepared
      BY <1>a, <1>k, StatementsKept
    <2>3. SBegin' = SBegin /\ Begin' = Begin
      BY <1>a, <1>k, StatementsKept
    <2>4. ToWrite'
      BY <1>a, <1>k, <2>2, <2>3 DEF Content, ToWrite
    <2> QED BY <1>a, <2>1, <2>4, EarlyContent
  <1>1. CASE SiliconIDCommand
    <2>1. CASE Return("io")
      BY <2>1, ReturnContent
    <2>2. CASE WriteMode("siliconID") /\ Goto(IF pc = "id1" THEN "id2" ELSE "idRead")
      <3>1. UNCHANGED <<array, working>> /\ cir'.op = "siliconID"
        BY <2>2 DEF WriteMode, Command
      <3>2. pc \in {"id1", "id2"} /\ pc' = IF pc = "id1" THEN "id2" ELSE "idRead"
        BY <1>1, <2>2 DEF SiliconIDCommand, Goto, Step
      <3>3. pc = "id2" /\ steady => mode' = "id"
        BY <1>i, <2>2 DEF WriteMode, MayLag, MayIgnore, ModeOf, Content, Rests
      <3>4. Rests' /\ HasRead' /\ ToWrite'
        BY <1>k, <1>i, <3>1, <3>2, <3>3 DEF Rests, HasRead, ToWrite
      <3> QED BY <3>2, <3>4, EarlyContent
    <2> QED BY <1>1, <2>1, <2>2 DEF SiliconIDCommand, Pi
  <1>2. CASE SiliconIDRead
    <2>1. CASE call.op # "new" /\ Return("ok")
      <3>1. call.op = "siliconID"
        BY <1>2, <2>1 DEF SiliconIDRead, IInv, Control
      <3> QED BY <2>1, <3>1, ReturnContent
    <2>2. CASE Return("io")
      BY <2>2, ReturnContent
    <2>3. CASE pc' = "newArray" /\ unit' = LayoutRead
      <3>1. UNCHANGED <<array, working>> /\ pc = "idRead"
        BY <1>2 DEF SiliconIDRead, chipVars
      <3>2. steady => unit' = ChipUnit
        BY <2>3, <3>1 DEF LayoutRead, Content, Rests
      <3>3. Rests' /\ HasRead' /\ ToWrite'
        BY <1>k, <1>i, <2>3, <3>1, <3>2 DEF Rests, HasRead, ToWrite
      <3> QED BY <2>3, <3>3, EarlyContent
    <2> QED BY <1>2, <2>1, <2>2, <2>3 DEF SiliconIDRead
  <1>3. CASE NewReadArray
    <2>1. pc = "newArray" /\ call.op = "new"
      BY <1>3 DEF NewReadArray, IInv, Control
    <2>2. CASE WriteMode("readArray") /\ Return("ok")
      <3>1. steady => mode' = "array"
        BY <1>i, <2>2 DEF WriteMode, MayLag, MayIgnore, ModeOf
      <3>2. pc' = "idle" /\ unit' = unit
        BY <2>2 DEF Return, Leave
      <3>3. LayoutDetected'
        BY <1>k, <2>1, <3>1, <3>2 DEF LayoutDetected, Content, Rests
      <3>4. Ended'
        BY <1>k, <2>1, <3>2, <3>3 DEF Ended, ReadReturnsCells, WrittenAsAsked, Done
      <3> QED BY <3>2, <3>4 DEF Content, Rests, HasRead, ToWrite, Beside, Erasing, Blank, Loading
    <2>3. CASE Leave("io")
      BY <1>k, <2>1, <2>3, OverContent DEF Leave
    <2> QED BY <1>3, <2>2, <2>3 DEF NewReadArray
  <1>4. CASE StatusCommand
    <2>1. CASE Return("io")
      BY <2>1, ReturnContent
    <2>2. CASE WriteMode("status") /\ Goto(IF pc = "status1" THEN "status2" ELSE "statusRead")
      BY <1>4, <2>2, <1>a DEF StatusCommand, WriteMode, Goto, Step
    <2> QED BY <1>4, <2>1, <2>2 DEF StatusCommand, Pi
  <1>5. CASE ClearStatusCommand
    <2>1. CASE Return("io")
      BY <2>1, ReturnContent
    <2>2. CASE WriteMode("status") /\ Goto(IF pc = "clear1" THEN "clear2" ELSE "clearWrite")
      BY <1>5, <2>2, <1>a DEF ClearStatusCommand, WriteMode, Goto, Step
    <2> QED BY <1>5, <2>1, <2>2 DEF ClearStatusCommand, Pi
  <1>6. CASE ClearStatusWrite
    <2>1. CASE Return("io")
      BY <2>1, ReturnContent
    <2>2. CASE call.op # "write" /\ Return("ok")
      <3>1. call.op = "clearStatus"
        BY <1>6, <2>2 DEF ClearStatusWrite, IInv, Control
      <3> QED BY <2>2, <3>1, ReturnContent
    <2>3. CASE clearStatus /\ Goto("status1")
      BY <1>6, <2>3, <1>a DEF ClearStatusWrite, clearStatus, WriteData, Goto, Step
    <2> QED BY <1>6, <2>1, <2>2, <2>3 DEF ClearStatusWrite, Pi
  <1>7. CASE StatusRead
    <2>1. CASE Return("io")
      BY <2>1, ReturnContent
    <2>2. CASE (Leave("ok") /\ call.op = "status") \/ Leave("notReady")
      BY <1>k, <2>2, OverContent DEF Leave
    <2>3. CASE /\ status' \in StatusReads /\ call.op = "write"
               /\ Step("eraseSetup") /\ p' = SBegin /\ UNCHANGED <<w, buf>>
      <3>1. pc = "statusRead" /\ pc' = "eraseSetup" /\ UNCHANGED <<array, working, target, buf>>
        BY <1>7, <2>3 DEF StatusRead, Step, chipVars
      <3>2. /\ Prepared' <=> Prepared
            /\ SBegin' = SBegin /\ SEnd' = SEnd /\ Begin' = Begin
        BY <1>k, <3>1, StatementsKept
      <3>3. ToWrite'
        BY <1>k, <3>1, <3>2 DEF Content, ToWrite
      <3>4. working' = "no" /\ target' = {}
        BY <3>1, IInvStep DEF IInv, Wsm, Next, Driver
      <3>5. Beside'
        BY <1>k, <1>i, <3>1, <3>4 DEF Beside, Untouched
      <3>6. SBegin \in Nat
        BY <2>3, <3>1, WriteFacts
      <3>7. Erasing'
        BY <2>3, <3>1, <3>2, <3>6 DEF Erasing, ErasedIn
      <3> QED BY <3>1, <3>3, <3>5, <3>7, EraseContent
    <2> QED BY <1>7, <2>1, <2>2, <2>3 DEF StatusRead
  <1> QED BY <1>1, <1>2, <1>3, <1>4, <1>5, <1>6, <1>7 DEF Registers

\* A burst of an idle chip appends the cells of its pages to what was read.
LEMMA BurstContent ==
  ASSUME IInv, Content, steady, pc = "burst", p < ReadTo,
         UNCHANGED <<call, old>>,
         buf' = buf \o BurstPages(PageReadAddress(unit, p), BurstEnd - p)
  PROVE  ReadSoFar'
  <1> USE DEF ReadLabels, BeforeErase
  <1>1. /\ mode = "array" /\ working = "no" /\ array = old /\ unit = ChipUnit /\ ReadSoFar
        /\ buf \in Seq(PageContent) /\ p \in Nat /\ ReadFrom <= p /\ Len(buf) = p - ReadFrom
        /\ ChipTypeOK
    BY DEF IInv, TypeOK, DriverTypeOK, Modes, Buffer, Content, Rests, HasRead
  <1>2. /\ ReadFrom \in Nat /\ ReadTo \in Nat /\ ReadTo <= TotalPages /\ TotalPages \in Nat
    <2>1. call \in AnyCall /\ ValidOffsetSize(call.offset, call.size)
      BY DEF IInv, TypeOK, DriverTypeOK, Control
    <2>2. End <= TotalPages
      <3>1. call.offset \in Int /\ call.size \in Nat
        BY <2>1, CallTypes
      <3>2. Begin \in Pages /\ TotalPages \in Nat
        BY <2>1, CallRange
      <3>3. CASE call.size > 0
        BY <2>1, <3>1, <3>3, RangeCoversBytes DEF End
      <3>4. CASE call.size = 0
        BY <3>2, <3>4 DEF End, RangeEnd, Begin, Pages
      <3> QED BY <3>1, <3>3, <3>4
    <2> QED BY <2>1, <2>2, CallRange DEF ReadTo
  <1>3. PICK count \in Nat : count = BurstEnd - p /\ p + count <= ReadTo
                               /\ p + count <= ReadBurstEnd(p)
    <2>1. ReadBurstEnd(p) \in Nat /\ p < ReadBurstEnd(p)
      BY <1>1, ReadBurstEndNat
    <2> QED BY <1>1, <1>2, <2>1 DEF BurstEnd
  <1>4. PICK more : more = BurstPages(PageReadAddress(ChipUnit, p), count)
    OBVIOUS
  <1>5. more \in Seq(PageContent) /\ Len(more) = count
    BY <1>1, <1>3, <1>4, PageAddress, BurstPagesTyped
  <1>6. buf' = buf \o more
    BY <1>1, <1>3, <1>4
  <1>7. ReadFrom' = ReadFrom
    BY CallKept
  <1>8. ASSUME NEW k \in 1 .. Len(buf) + count, NEW i \in InPage
        PROVE  (buf \o more)[k][i] = old[ReadFrom + k - 1][i]
    <2>0. PICK n \in Nat : n = Len(buf)
      BY <1>1
    <2>n. k \in Nat /\ 1 <= k /\ k <= n + count
      BY <2>0
    <2>1. CASE k <= n
      <3>1. k \in 1 .. Len(buf)
        BY <2>0, <2>n, <2>1
      <3>2. (buf \o more)[k] = buf[k]
        BY <1>1, <1>5, <3>1, ConcatProperties
      <3> QED BY <1>1, <3>1, <3>2 DEF ReadSoFar
    <2>2. CASE k > n
      <3>1. PICK j \in 1 .. count : j = k - n
        BY <2>n, <2>2
      <3>2. (buf \o more)[k] = more[j]
        <4>1. k \in Len(buf) + 1 .. Len(buf) + Len(more)
          BY <1>5, <2>0, <2>n, <2>2
        <4> QED BY <1>1, <1>5, <2>0, <3>1, <4>1, ConcatProperties
      <3>3. p + j - 1 = ReadFrom + k - 1
        BY <1>1, <1>2, <2>0, <2>n, <3>1
      <3>4. p + j - 1 \in Pages /\ p + j - 1 < ReadBurstEnd(p)
        <4>1. PICK m \in Nat : m = ReadBurstEnd(p) /\ p + count <= m
          BY <1>1, <1>3, ReadBurstEndNat
        <4>2. p + j - 1 \in Nat /\ p + j - 1 < p + count
          BY <1>1, <1>3, <3>1
        <4>3. p + j - 1 < m
          BY <1>1, <1>3, <4>1, <4>2
        <4>4. p + j - 1 < TotalPages
          BY <1>1, <1>2, <1>3, <4>2
        <4> QED BY <1>2, <4>1, <4>2, <4>3, <4>4 DEF Pages
      <3>5. more[j][i] = array[p + j - 1][i]
        BY <1>1, <1>3, <1>4, <3>1, <3>4, BurstReadsCells
      <3> QED BY <1>1, <3>2, <3>3, <3>5
    <2>3. k <= n \/ k > n
      BY <2>0, <2>n
    <2> QED BY <2>1, <2>2, <2>3
  <1>9. Len(buf \o more) = Len(buf) + count
    BY <1>1, <1>5, ConcatProperties
  <1> QED BY <1>6, <1>7, <1>8, <1>9 DEF ReadSoFar

\* A range of bytes of the pages that were read is what the chip held there.
LEMMA RangeRead ==
  ASSUME IInv, call.op = "read", ReadSoFar, call \in AnyCall,
         ValidOffsetSize(call.offset, call.size), Len(buf) = End - Begin,
         NEW j \in 0 .. call.size - 1
  PROVE  buf[((Skip + j) \div PageSize) + 1][(Skip + j) % PageSize]
           = old[(call.offset + j) \div PageSize][(call.offset + j) % PageSize]
  <1>1. call.offset \in Int /\ call.size \in Nat
    BY CallTypes
  <1>2. PICK b \in Nat : b = Begin
    BY <1>1, RangeCoversBytes DEF Begin
  <1>3. PICK e \in Nat : e = End
    BY <1>1, RangeCoversBytes DEF End
  <1>4. PICK s \in Nat : s = Skip
    BY <1>1, RangeCoversBytes, LayoutAssumption DEF Skip
  <1>5. j \in Nat /\ j < call.size /\ call.size > 0
    BY <1>1
  <1>6. call.offset = PageSize * b + s /\ call.offset + call.size <= PageSize * e
    <2>1. call.offset = PageSize * b + s
      BY <1>1, <1>2, <1>4, RangeCoversBytes DEF Begin, Skip
    <2>2. call.offset + call.size <= PageSize * e
      BY <1>1, <1>3, <1>5, RangeCoversBytes DEF End
    <2> QED BY <2>1, <2>2
  <1>7. PICK place \in Nat : place = s + j
    BY <1>5
  <1>8. PICK q \in Nat, i \in InPage :
          q = place \div PageSize /\ i = place % PageSize /\ place = PageSize * q + i
    <2>1. /\ place \div PageSize \in Nat /\ place % PageSize \in InPage
          /\ place = PageSize * (place \div PageSize) + (place % PageSize)
      BY Division, LayoutAssumption DEF InPage
    <2> QED BY <2>1
  <1>9. call.offset + j = PageSize * (b + q) + i
    <2>1. PageSize * (b + q) = PageSize * b + PageSize * q
      BY LayoutAssumption
    <2>2. PICK m \in Nat, n \in Nat : m = PageSize * b /\ n = PageSize * q
      BY LayoutAssumption
    <2>3. i \in Nat /\ call.offset = m + s /\ s + j = n + i
      BY <1>6, <1>7, <1>8, <2>2, LayoutAssumption DEF InPage
    <2>4. call.offset + j = m + n + i
      BY <1>5, <2>3
    <2> QED BY <2>1, <2>2, <2>4
  <1>10. (call.offset + j) \div PageSize = b + q /\ (call.offset + j) % PageSize = i
    <2>1. PICK n \in Nat : n = b + q
      OBVIOUS
    <2>2. (PageSize * n + i) \div PageSize = n /\ (PageSize * n + i) % PageSize = i
      BY DivisionUnique, LayoutAssumption DEF InPage
    <2> QED BY <1>9, <2>1, <2>2
  <1>11. b + q < e
    <2>1. PageSize * (b + q) < PageSize * e
      <3>1. PICK m \in Nat : m = PageSize * (b + q)
        BY LayoutAssumption
      <3>2. PICK n \in Nat : n = PageSize * e
        BY LayoutAssumption
      <3>3. i \in Nat
        BY LayoutAssumption DEF InPage
      <3>4. m + i < call.offset + call.size
        BY <1>1, <1>5, <1>9, <3>1
      <3> QED BY <1>1, <1>6, <3>1, <3>2, <3>3, <3>4
    <2>2. ASSUME b + q >= e PROVE PageSize * (b + q) >= PageSize * e
      BY <2>2, LayoutAssumption
    <2>3. PageSize * (b + q) \in Nat /\ PageSize * e \in Nat
      BY LayoutAssumption
    <2> QED BY <2>1, <2>2, <2>3
  <1>12. PICK k : k = q + 1
    OBVIOUS
  <1>13. k \in 1 .. Len(buf) /\ ReadFrom + k - 1 = b + q
    <2>1. ReadFrom = b /\ Len(buf) = e - b
      BY <1>2, <1>3 DEF ReadFrom
    <2> QED BY <1>11, <1>12, <2>1
  <1>14. buf[k][i] = old[b + q][i]
    BY <1>13 DEF ReadSoFar
  <1>15. Skip + j = place
    BY <1>4, <1>7
  <1> QED BY <1>8, <1>10, <1>12, <1>14, <1>15

\* What was read is returned, or is the base of what is written.
LEMMA ReadingContent == IInv /\ Content /\ Reading => Content'
  <1> SUFFICES ASSUME IInv, Content, Reading PROVE Content'
    OBVIOUS
  <1> USE DEF IDLabels, StatusLabels, ClearLabels, ReadLabels, EraseLabels, LoadLabels,
              LoadLoop, BeforeErase
  <1>k. UNCHANGED <<call, old, steady>> /\ ReadFrom' = ReadFrom
    BY CallKept DEF Driver
  <1>i. /\ pc \in ReadLabels /\ call.op \in {"read", "write"}
        /\ steady => working = "no" /\ array = old /\ unit = ChipUnit
    BY DEF Reading, ReadArrayCommand, ReadInterrupted, ReadBurst, ReadReturn, PrepareSectors,
           Panic, IInv, Control, Content, Rests
  <1>c. /\ call \in AnyCall /\ ValidOffsetSize(call.offset, call.size)
        /\ p \in Nat /\ buf \in Seq(PageContent)
    BY <1>i DEF IInv, TypeOK, DriverTypeOK, Control
  <1>1. CASE ReadArrayCommand
    <2>1. CASE Return("io")
      BY <2>1, ReturnContent
    <2>2. CASE WriteMode("readArray") /\ Step("burst") /\ UNCHANGED <<w, buf, status>>
      <3>1. UNCHANGED <<array, working, unit>> /\ pc' = "burst" /\ buf' = <<>>
        BY <1>1, <2>2 DEF ReadArrayCommand, WriteMode, Step, IInv, Buffer
      <3>2. ReadSoFar'
        BY <3>1 DEF ReadSoFar
      <3>3. Rests' /\ HasRead' /\ ToWrite'
        BY <1>k, <1>i, <3>1, <3>2 DEF Rests, HasRead, ToWrite
      <3> QED BY <3>1, <3>3, EarlyContent
    <2> QED BY <1>1, <2>1, <2>2 DEF ReadArrayCommand, Pi
  <1>2. CASE ReadInterrupted
    BY <1>2, ReturnContent DEF ReadInterrupted
  <1>3. CASE ReadBurst
    <2>1. CASE Return("io")
      BY <2>1, ReturnContent
    <2>2. CASE /\ buf' = buf \o BurstPages(PageReadAddress(unit, p), BurstEnd - p)
               /\ Step("burst")
      <3>1. UNCHANGED <<array, working, unit>> /\ pc = "burst" /\ pc' = "burst" /\ p < ReadTo
        BY <1>3, <2>2 DEF ReadBurst, Step, chipVars
      <3>2. steady => ReadSoFar'
        BY <1>k, <2>2, <3>1, BurstContent
      <3>3. Rests' /\ HasRead' /\ ToWrite'
        BY <1>k, <1>i, <3>1, <3>2 DEF Rests, HasRead, ToWrite
      <3> QED BY <3>1, <3>3, EarlyContent
    <2> QED BY <1>3, <2>1, <2>2 DEF ReadBurst
  <1>4. CASE ReadReturn
    <2>1. /\ pc = "burst" /\ p >= ReadTo /\ call.op = "read" /\ pc' = "idle"
          /\ UNCHANGED <<buf, array, mode, unit>>
      BY <1>4 DEF ReadReturn, Leave, chipVars
    <2>2. Len(buf) = End - Begin
      <3>1. p <= ReadTo /\ Len(buf) = p - ReadFrom
        BY <2>1 DEF IInv, Buffer
      <3>2. ReadTo \in Nat /\ ReadTo = End /\ ReadFrom = Begin
        BY <1>c, <2>1, CallRange DEF ReadTo, ReadFrom
      <3>3. p = ReadTo
        BY <1>c, <2>1, <3>1, <3>2
      <3> QED BY <3>1, <3>2, <3>3
    <2>3. steady => \A j \in 0 .. call.size - 1 :
                      buf[((Skip + j) \div PageSize) + 1][(Skip + j) % PageSize]
                        = old[(call.offset + j) \div PageSize][(call.offset + j) % PageSize]
      <3> SUFFICES ASSUME steady, NEW j \in 0 .. call.size - 1
                   PROVE  buf[((Skip + j) \div PageSize) + 1][(Skip + j) % PageSize]
                        = old[(call.offset + j) \div PageSize][(call.offset + j) % PageSize]
        OBVIOUS
      <3>1. ReadSoFar
        BY <2>1 DEF Content, HasRead
      <3> QED BY <1>c, <2>1, <2>2, <3>1, RangeRead
    <2>4. ReadReturnsCells'
      <3>1. Skip' = Skip
        BY <1>k DEF Skip
      <3> QED BY <1>k, <2>1, <2>3, <3>1 DEF ReadReturnsCells
    <2>5. Ended'
      BY <1>k, <2>1, <2>4 DEF Ended, LayoutDetected, WrittenAsAsked, Done
    <2> QED BY <2>1, <2>5 DEF Content, Rests, HasRead, ToWrite, Beside, Erasing, Blank, Loading
  <1>5. CASE PrepareSectors
    <2>1. /\ pc = "burst" /\ pc' = "clear1" /\ call.op = "write"
          /\ buf' = Overlay(buf, Skip, call.data) /\ UNCHANGED <<array, working>>
      BY <1>5 DEF PrepareSectors, Step, chipVars
    <2>2. steady => ReadSoFar
      BY <2>1 DEF Content, HasRead
    <2>3. steady /\ SBegin = Begin => Prepared'
      BY <1>c, <1>k, <2>1, <2>2, OverlayPrepared
    <2>4. SBegin' = SBegin /\ Begin' = Begin
      BY <1>k DEF SBegin, Begin
    <2>5. Rests' /\ HasRead' /\ ToWrite'
      BY <1>k, <1>i, <2>1, <2>3, <2>4 DEF Rests, HasRead, ToWrite
    <2> QED BY <2>1, <2>5, EarlyContent
  <1>6. CASE Panic
    BY <1>6, OverContent DEF Panic
  <1> QED BY <1>1, <1>2, <1>3, <1>4, <1>5, <1>6 DEF Reading

------------------------------------------------------------------------------
(* The loops of a write *)

\* What is to be written and the pages beside it last through the loops.
LEMMA LoopKept ==
  ASSUME IInv, Content, UNCHANGED <<call, old, steady, buf, array>>,
         pc \in StatusLabels \cup ClearLabels \cup EraseLabels \cup LoadLoop,
         pc' \in EraseLabels \cup LoadLoop
  PROVE  /\ ToWrite'
         /\ pc \in EraseLabels \cup LoadLoop /\ target' = target => Beside'
  <1>1. /\ Prepared' <=> Prepared
        /\ Untouched' <=> Untouched
        /\ Written' = Written /\ SBegin' = SBegin /\ Begin' = Begin
    BY StatementsKept
  <1>2. ToWrite'
    BY <1>1 DEF Content, ToWrite, LoadLoop, LoadLabels, EraseLabels, ClearLabels, StatusLabels
  <1>3. pc \in EraseLabels \cup LoadLoop /\ target' = target => Beside'
    BY <1>1 DEF Content, Beside
  <1> QED BY <1>2, <1>3

\* The sectors of an erase are those of the write, from the page it is at.
LEMMA ErasesFacts ==
  ASSUME IInv, Content, pc \in EraseLabels, p < SEnd
  PROVE  /\ Erases \subseteq Written
         /\ \A q \in SBegin .. p - 1 : q \notin Erases
         /\ ~WholeChip => /\ SectorPages(p) = p .. SectorEnd(p) - 1
                          /\ SectorEnd(p) \in Nat /\ p < SectorEnd(p)
         /\ WholeChip => p = SBegin /\ Erases = Pages /\ Pages = Written
  <1>1. /\ SBegin \in Nat /\ SEnd \in Nat /\ SBegin <= SEnd /\ SEnd <= TotalPages
        /\ TotalPages \in Nat /\ p \in Nat /\ SectorBegin(SEnd) = SEnd
    BY WriteFacts DEF IInv, Control
  <1>2. SBegin <= p /\ SectorBegin(p) = p /\ (WholeChip => p \in {SBegin, SEnd})
    BY DEF IInv, Limbo, Content, Erasing
  <1>3. CASE WholeChip
    <2>1. p = SBegin /\ Erases = Pages
      BY <1>1, <1>2, <1>3 DEF Erases
    <2>2. Pages = Written
      BY <1>3 DEF Written, Pages, WholeChip
    <2> QED BY <1>1, <1>3, <2>1, <2>2
  <1>4. CASE ~WholeChip
    <2>1. SectorEnd(p) \in Nat /\ p < SectorEnd(p) /\ SectorPages(p) = p .. SectorEnd(p) - 1
      BY <1>1, <1>2, SectorHoldsPage DEF SectorPages
    <2>2. SectorEnd(p) <= SEnd
      <3>1. PICK a \in Nat, b \in Nat : p = PagesPerSector * a /\ SEnd = PagesPerSector * b
        <4>1. \A q \in Nat : SectorBegin(q) = q => \E a \in Nat : q = PagesPerSector * a
          <5> TAKE q \in Nat
          <5> HAVE SectorBegin(q) = q
          <5>1. PICK a \in Nat, r \in 0 .. PagesPerSector - 1 :
                  q = PagesPerSector * a + r /\ r = q % PagesPerSector
            <6>1. q \div PagesPerSector \in Nat /\ q % PagesPerSector \in 0 .. PagesPerSector - 1
                  /\ q = PagesPerSector * (q \div PagesPerSector) + (q % PagesPerSector)
              BY Division, LayoutAssumption
            <6> QED BY <6>1
          <5>2. r \in Nat /\ q - r = q
            BY <5>1, LayoutAssumption DEF SectorBegin
          <5>3. r = 0
            BY <5>2
          <5>4. PICK m \in Nat : m = PagesPerSector * a
            BY LayoutAssumption
          <5>5. q = m + r
            BY <5>1, <5>4
          <5>6. q = m
            BY <5>3, <5>4, <5>5
          <5> QED BY <5>4, <5>6
        <4> QED BY <1>1, <1>2, <4>1
      <3>2. a < b
        <4>1. ASSUME a >= b PROVE PagesPerSector * a >= PagesPerSector * b
          BY <4>1, LayoutAssumption
        <4>2. PagesPerSector * a \in Nat /\ PagesPerSector * b \in Nat
          BY LayoutAssumption
        <4> QED BY <3>1, <4>1, <4>2
      <3>3. PagesPerSector * (a + 1) <= PagesPerSector * b
        BY <3>2, LayoutAssumption
      <3>4. PagesPerSector * (a + 1) = PagesPerSector * a + PagesPerSector
        BY LayoutAssumption
      <3>5. SectorEnd(p) = p + PagesPerSector
        BY <1>2 DEF SectorEnd
      <3> QED BY <1>1, <3>1, <3>3, <3>4, <3>5, LayoutAssumption
    <2>3. Erases = p .. SectorEnd(p) - 1
      BY <1>4, <2>1 DEF Erases
    <2>4. Erases \subseteq Written
      BY <1>1, <1>2, <2>1, <2>2, <2>3 DEF Written
    <2>5. \A q \in SBegin .. p - 1 : q \notin Erases
      BY <1>1, <1>2, <2>1, <2>3
    <2> QED BY <1>4, <2>1, <2>4, <2>5
  <1> QED BY <1>3, <1>4

\* The status that ends a poll is that of a chip that is done, and its OK bit
\* says whether the cells hold what they are to hold.
LEMMA PollStatusContent ==
  ASSUME IInv, Content, NEW kind \in {"erase", "program"}, PollStatus(kind)
  PROVE  Content'
  <1> USE DEF EraseLabels, LoadLabels, LoadLoop
  <1>1. CASE Return("io")
    BY <1>1, ReturnContent
  <1>2. CASE /\ status' \in StatusReads
             /\ pc' = IF BusyBitOf[kind] \in status' THEN pc ELSE ClearLabel[kind]
             /\ UNCHANGED <<unit, result, p, w, buf, ctxVars, callVars, history>>
    <2>1. /\ UNCHANGED <<array, page, target, working, goal, okBits, cir, p, w, buf>>
          /\ UNCHANGED <<call, old, steady, clean, cancelled>> /\ pc = PollLabel[kind]
      BY <1>2 DEF PollStatus, chipVars, callVars, history, ctxVars
    <2>2. mode = "status" /\ working \in {"no", kind} /\ okBits \subseteq OkBits
      BY <2>1 DEF PollLabel, IInv, Modes, Wsm, TypeOK, ChipTypeOK
    <2>3. status' = StatusRegister
      BY <1>2, <2>2 DEF StatusReads
    <2>4. BusyBitOf[kind] \notin status'
            => /\ working = "no"
               /\ \A bit \in OkBits : bit \in status' => bit \in okBits
      BY <2>2, <2>3 DEF StatusRegister, BusyBitOf, OkBits
    <2>5. /\ Written' = Written /\ SBegin' = SBegin /\ SEnd' = SEnd /\ WholeChip' = WholeChip
          /\ Erases' = Erases /\ PageToLoad' = PageToLoad
          /\ Programmed' <=> Programmed
      BY <2>1, StatementsKept
    <2>6. SectorPages(p)' = SectorPages(p) /\ SetupPages(cir)' = SetupPages(cir)
      BY <2>1 DEF SectorPages, SetupPages
    <2>7. CASE kind = "erase"
      <3>1. pc = "erasePoll" /\ pc' \in {"erasePoll", "eraseClear"}
        BY <1>2, <2>1, <2>7 DEF PollLabel, ClearLabel
      <3>2. ToWrite' /\ Beside'
        BY <2>1, <3>1, LoopKept
      <3>3. pc' = "eraseClear" => working = "no" /\ ("eraseOK" \in status' => "eraseOK" \in okBits)
        BY <1>2, <2>4, <2>7, <3>1 DEF OkBits
      <3>4. pc' = "eraseClear" /\ "eraseOK" \in status' => ErasedIn(Erases)
        BY <3>1, <3>3 DEF Content, Erasing
      <3>5. Erasing'
        BY <2>1, <2>5, <3>1, <3>4 DEF Content, Erasing, ErasedIn
      <3> QED BY <3>1, <3>2, <3>5, EraseContent
    <2>8. CASE kind = "program"
      <3>1. pc = "programPoll" /\ pc' \in {"programPoll", "programClear"}
        BY <1>2, <2>1, <2>8 DEF PollLabel, ClearLabel
      <3>2. ToWrite' /\ Beside'
        BY <2>1, <3>1, LoopKept
      <3>3. pc' = "programClear"
              => working = "no" /\ ("programOK" \in status' => "programOK" \in okBits)
        BY <1>2, <2>4, <2>8, <3>1 DEF OkBits
      <3>4. Blank'
        BY <2>1, <2>5, <3>1 DEF Content, Blank, ErasedIn
      <3>5. Loading'
        BY <2>1, <2>5, <3>1, <3>3 DEF Content, Loading, Sound
      <3> QED BY <3>1, <3>2, <3>4, <3>5, LoadContent
    <2> QED BY <2>7, <2>8
  <1> QED BY <1>1, <1>2 DEF PollStatus

\* The page that follows is gone on with only when the OK bit was set.
LEMMA ClearContent ==
  ASSUME IInv, Content, NEW kind \in {"erase", "program"}, ClearAndCheck(kind)
  PROVE  Content'
  <1> USE DEF EraseLabels, LoadLabels, LoadLoop
  <1>1. CASE Return("io") \/ Return("NOK")
    BY <1>1, ReturnContent
  <1>2. CASE /\ clearStatus /\ OkBitOf[kind] \in status
             /\ pc' = IF kind = "erase" THEN "eraseSetup" ELSE "loadCmd"
             /\ p' = NextPage(kind)
             /\ UNCHANGED <<unit, result, w, buf, status, cancelled, callVars, history>>
    <2>1. /\ UNCHANGED <<array, target, working, buf, status>>
          /\ UNCHANGED <<call, old, steady, clean, cancelled>> /\ pc = ClearLabel[kind]
      BY <1>2 DEF ClearAndCheck, clearStatus, WriteData, callVars, history
    <2>2. /\ Written' = Written /\ SBegin' = SBegin /\ SEnd' = SEnd /\ WholeChip' = WholeChip
      BY <2>1, StatementsKept
    <2>3. call.op = "write"
      BY <2>1 DEF IInv, Control, ClearLabel
    <2>4. pc \in EraseLabels \cup LoadLoop
      BY <2>1 DEF ClearLabel
    <2>5. SBegin \in Nat /\ SEnd \in Nat /\ p \in Nat
      BY <2>3, <2>4, WriteFacts
    <2>6. CASE kind = "erase"
      <3>1. pc = "eraseClear" /\ pc' = "eraseSetup" /\ "eraseOK" \in status
        BY <1>2, <2>1, <2>6 DEF ClearLabel, OkBitOf
      <3>2. ToWrite' /\ Beside'
        BY <2>1, <3>1, LoopKept
      <3>3. ErasedIn(Erases) /\ ErasedIn(SBegin .. p - 1) /\ p < SEnd
        BY <3>1 DEF Content, Erasing, IInv, Limbo
      <3>4. ErasedIn(SBegin .. p' - 1) /\ (WholeChip => p' \in {SBegin, SEnd})
        <4>1. CASE WholeChip
          <5>1. p' = SEnd
            BY <1>2, <2>6, <4>1 DEF NextPage
          <5>2. Erases = Written
            BY <3>1, <3>3, <4>1, ErasesFacts
          <5> QED BY <3>3, <4>1, <5>1, <5>2 DEF Written
        <4>2. CASE ~WholeChip
          <5>1. p' = SectorEnd(p)
            BY <1>2, <2>6, <4>2 DEF NextPage
          <5>2. Erases = p .. p' - 1 /\ p' \in Nat
            BY <3>1, <3>3, <4>2, <5>1, ErasesFacts DEF Erases
          <5>3. SBegin .. p' - 1 \subseteq (SBegin .. p - 1) \cup (p .. p' - 1)
            BY <2>5, <5>2, RangeSplit
          <5> QED BY <3>3, <4>2, <5>2, <5>3 DEF ErasedIn
        <4> QED BY <4>1, <4>2
      <3>5. Erasing'
        BY <2>1, <2>2, <3>1, <3>4 DEF Erasing, ErasedIn
      <3> QED BY <3>1, <3>2, <3>5, EraseContent
    <2>7. CASE kind = "program"
      <3>1. pc = "programClear" /\ pc' = "loadCmd" /\ "programOK" \in status /\ p' = p + 1
        BY <1>2, <2>1, <2>7 DEF ClearLabel, OkBitOf, NextPage
      <3>2. ToWrite' /\ Beside'
        BY <2>1, <3>1, LoopKept
      <3>3. Blank'
        BY <2>1, <2>2, <3>1 DEF Content, Blank, ErasedIn
      <3>4. Sound' => Programmed'
        <4> SUFFICES ASSUME Sound', NEW q \in SBegin .. p
                     PROVE  array[q] = buf[q - SBegin + 1]
          BY <2>1, <2>2, <2>5, <3>1 DEF Programmed
        <4>1. Programmed /\ array[p] = buf[p - SBegin + 1]
          BY <2>1, <3>1 DEF Content, Loading, Sound, PageToLoad
        <4>2. q = p \/ q \in SBegin .. p - 1
          BY <2>5
        <4> QED BY <4>1, <4>2 DEF Programmed
      <3>5. Loading'
        BY <3>1, <3>4 DEF Loading
      <3> QED BY <3>1, <3>2, <3>3, <3>5, LoadContent
    <2> QED BY <2>6, <2>7
  <1> QED BY <1>1, <1>2 DEF ClearAndCheck

\* The polls and what follows them keep what has been shown of the contents.
LEMMA PollingContent == IInv /\ Content /\ Polling => Content'
  <1> SUFFICES ASSUME IInv, Content, NEW kind \in {"erase", "program"},
                      PollStatus(kind) \/ PollAbandoned(kind) \/ ClearAndCheck(kind)
               PROVE  Content'
    BY DEF Polling
  <1>1. CASE PollAbandoned(kind)
    BY <1>1, ReturnContent DEF PollAbandoned
  <1> QED BY <1>1, PollStatusContent, ClearContent

\* The setup selects the pages at p and the command starts their erase.
LEMMA EraseContentStep == IInv /\ Content /\ (EraseSetup \/ EraseCommand) => Content'
  <1> SUFFICES ASSUME IInv, Content, EraseSetup \/ EraseCommand PROVE Content'
    OBVIOUS
  <1> USE DEF EraseLabels
  <1>k. UNCHANGED <<call, old, steady>>
    BY CallKept DEF Driver, Writing
  <1>c. /\ pc \in {"eraseSetup", "eraseCmd"} /\ p < SEnd /\ working = "no" /\ target = {}
        /\ call.op = "write"
    BY DEF EraseSetup, EraseCommand, IInv, Limbo, Wsm, Control
  <1>e. /\ Erases \subseteq Written
        /\ \A q \in SBegin .. p - 1 : q \notin Erases
        /\ ~WholeChip => Erases = SectorPages(p)
        /\ WholeChip => Erases = Pages
    BY <1>c, ErasesFacts DEF Erases
  <1>f. Written \subseteq Pages
    BY <1>c, WriteFacts
  <1>1. CASE EraseSetup
    <2>1. CASE Leave("io")
      <3>1. pc' \in {"idle", "closed"} /\ result' = "io"
        BY <2>1 DEF Leave
      <3> QED BY <3>1, OverContent
    <2>2. CASE /\ WriteSetup(IF WholeChip THEN "chipErase" ELSE "sectorErase",
                             IF WholeChip THEN 0 ELSE p)
               /\ pc' = "eraseCmd" /\ UNCHANGED localVars
      <3>1. UNCHANGED <<p, buf, array, target, working>> /\ pc = "eraseSetup"
        BY <1>1, <2>2 DEF EraseSetup, WriteSetup, localVars
      <3>2. ToWrite' /\ Beside'
        BY <1>k, <2>2, <3>1, LoopKept
      <3>3. SBegin' = SBegin /\ SEnd' = SEnd /\ WholeChip' = WholeChip /\ Erases' = Erases
        BY <1>k, <3>1, StatementsKept
      <3>4. SetupPages(cir)' = Erases
        <4>1. CASE WholeChip
          <5>1. cir'.op = "chipErase"
            BY <2>2, <4>1 DEF WriteSetup
          <5> QED BY <1>e, <4>1, <5>1 DEF SetupPages
        <4>2. CASE ~WholeChip
          <5>1. cir'.op = "sectorErase" /\ cir'.page = p
            BY <2>2, <4>2 DEF WriteSetup
          <5>2. SetupPages(cir)' = Pages \cap SectorPages(p)
            BY <5>1 DEF SetupPages, SectorPages
          <5> QED BY <1>e, <1>f, <4>2, <5>2
        <4> QED BY <4>1, <4>2
      <3>5. Erasing'
        BY <2>2, <3>1, <3>3, <3>4 DEF Content, Erasing, ErasedIn
      <3> QED BY <2>2, <3>2, <3>5, EraseContent
    <2> QED BY <1>1, <2>1, <2>2 DEF EraseSetup
  <1>2. CASE EraseCommand
    <2>1. CASE Return("io")
      BY <2>1, ReturnContent
    <2>2. CASE WriteErase /\ Goto("erasePoll")
      <3>1. pc = "eraseCmd" /\ pc' = "erasePoll" /\ UNCHANGED <<p, buf>>
        BY <1>2, <2>2 DEF EraseCommand, Goto, Step, localVars
      <3>2. SetupPages(cir) = Erases
        BY <3>1 DEF Content, Erasing
      <3>3. Start("erase", Erases, ErasedPage)
        BY <1>c, <2>2, <3>1, <3>2 DEF WriteErase, IInv, Wsm
      <3>4. /\ working' = "erase" /\ target' = Erases /\ goal' = ErasedPage
            /\ \A q \in Pages \ Erases : array'[q] = array[q]
        BY <3>3 DEF Start
      <3>5. /\ Prepared' <=> Prepared
            /\ Written' = Written /\ SBegin' = SBegin /\ SEnd' = SEnd /\ Begin' = Begin
            /\ WholeChip' = WholeChip /\ Erases' = Erases
        BY <1>k, <3>1, StatementsKept
      <3>6. ToWrite'
        BY <1>k, <3>1, <3>5 DEF Content, ToWrite
      <3>7. Beside'
        BY <1>k, <1>e, <3>1, <3>4, <3>5 DEF Content, Beside, Untouched
      <3>8. ErasedIn(SBegin .. p - 1)'
        <4> SUFFICES ASSUME NEW q \in SBegin .. p - 1 PROVE array'[q] = ErasedPage
          BY <3>1, <3>5 DEF ErasedIn
        <4>1. q \in Pages \ Erases
          <5>1. SBegin \in Nat /\ p \in Nat /\ SEnd \in Nat
            BY <1>c, WriteFacts
          <5>2. q \in Written
            BY <1>c, <5>1 DEF Written
          <5> QED BY <1>e, <1>f, <5>2
        <4>2. array[q] = ErasedPage
          BY <3>1 DEF Content, Erasing, ErasedIn
        <4> QED BY <3>4, <4>1, <4>2
      <3>9. Erasing'
        BY <3>1, <3>4, <3>5, <3>8 DEF Content, Erasing
      <3> QED BY <3>1, <3>6, <3>7, <3>9, EraseContent
    <2> QED BY <1>2, <2>1, <2>2 DEF EraseCommand, Pi
  <1> QED BY <1>1, <1>2

\* An erased byte takes any value, and the internal page does when it is erased.
LEMMA AndErased == \A b \in Byte : And(Erased, b) = b
  BY DEF And

\* A page is given by its bytes.
LEMMA SamePage ==
  ASSUME NEW a \in PageContent, NEW b \in PageContent, \A i \in InPage : a[i] = b[i]
  PROVE  a = b
  BY DEF PageContent

\* The page that the loop loads is a page of the buffer.
LEMMA LoadFacts ==
  ASSUME IInv, pc \in LoadLoop, p < SEnd
  PROVE  /\ SBegin \in Nat /\ SEnd \in Nat /\ p \in Nat /\ SBegin <= p
         /\ p \in Written /\ Written \subseteq Pages
         /\ PageToLoad \in PageContent /\ page \in PageContent /\ w \in Nat
         /\ \A i \in InPage : PageToLoad[i] \in Byte /\ page[i] \in Byte
         /\ array \in [Pages -> PageContent]
  <1>1. /\ SBegin \in Nat /\ SEnd \in Nat /\ p \in Nat /\ Written \subseteq Pages
        /\ buf \in Seq(PageContent) /\ Len(buf) = SEnd - SBegin
    BY WriteFacts DEF IInv, Control, LoadLoop
  <1>2. SBegin <= p
    BY DEF IInv, Limbo, LoadLoop
  <1>3. p \in Written /\ p - SBegin + 1 \in 1 .. Len(buf)
    BY <1>1, <1>2 DEF Written
  <1>4. PageToLoad \in PageContent
    BY <1>1, <1>3 DEF PageToLoad
  <1>5. page \in PageContent /\ array \in [Pages -> PageContent] /\ w \in Nat
    BY DEF IInv, TypeOK, ChipTypeOK, DriverTypeOK
  <1> QED BY <1>1, <1>2, <1>3, <1>4, <1>5, PageTypes

\* A page that is loaded into an erased internal page, or over any contents
\* when the chip takes them, is what the internal page then holds.
LEMMA LoadContentStep ==
  IInv /\ Content /\ (LoadCommand \/ LoadBurst \/ LoadWord \/ LoadWordsDone) => Content'
  <1> SUFFICES ASSUME IInv, Content, LoadCommand \/ LoadBurst \/ LoadWord \/ LoadWordsDone
               PROVE  Content'
    OBVIOUS
  <1> USE DEF LoadLoop, LoadLabels
  <1>k. UNCHANGED <<call, old, steady>>
    BY CallKept DEF Driver, Writing
  <1>c. pc \in {"loadCmd", "loadData", "loadWords"} /\ p < SEnd
    BY DEF LoadCommand, LoadBurst, LoadWord, LoadWordsDone, IInv, Limbo
  <1>f. /\ PageToLoad \in PageContent /\ page \in PageContent /\ w \in Nat
        /\ \A i \in InPage : PageToLoad[i] \in Byte /\ page[i] \in Byte
    BY <1>c, LoadFacts
  <1>a. ASSUME UNCHANGED <<p, buf, array, target>>, pc' \in {"loadData", "loadWords", "programCmd"},
               pc = "loadCmd" => ~cancelled, clean' => clean,
               Sound' /\ pc' = "loadWords" => LoadedTo',
               Sound' /\ pc' = "programCmd" => page' = PageToLoad
        PROVE  Content'
    <2>1. ToWrite' /\ Beside'
      BY <1>a, <1>k, <1>c, LoopKept
    <2>2. SEnd' = SEnd /\ PageToLoad' = PageToLoad /\ (Programmed' <=> Programmed)
      BY <1>a, <1>k, StatementsKept
    <2>3. ErasedIn(p .. SEnd - 1)
      BY <1>a, <1>c DEF Content, Blank
    <2>4. Blank'
      BY <1>a, <2>2, <2>3 DEF Blank, ErasedIn
    <2>5. Sound' => Programmed
      BY <1>a, <1>c DEF Content, Loading, Sound
    <2>6. Loading'
      BY <1>a, <2>2, <2>5 DEF Loading
    <2> QED BY <1>a, <2>1, <2>4, <2>6, LoadContent
  <1>1. CASE LoadCommand
    <2>1. CASE Return("io")
      BY <2>1, ReturnContent
    <2>2. CASE WriteMode("loadBytePage") /\ Goto("loadData")
      <3>1. /\ UNCHANGED <<p, buf, array, target, clean>> /\ pc' = "loadData"
            /\ pc = "loadCmd" /\ ~cancelled
        BY <1>1, <2>2 DEF LoadCommand, WriteMode, Goto, Step, localVars
      <3> QED BY <3>1, <1>a
    <2> QED BY <1>1, <2>1, <2>2 DEF LoadCommand, Pi
  <1>2. CASE LoadBurst
    <2>0. clean' = (clean /\ page = ErasedPage) /\ pc = "loadData" /\ mode = "load"
      BY <1>2 DEF LoadBurst, IInv, Modes
    <2>1. CASE pc' = "idle" /\ result' = "io"
      BY <2>1, OverContent
    <2>2. CASE /\ WriteData(0, PageSize, PageToLoad) /\ pc' = "programCmd" /\ UNCHANGED localVars
      <3>1. UNCHANGED <<p, buf, array, target>>
        BY <2>2 DEF WriteData, localVars
      <3>2. page' = [i \in InPage |->
                       IF PageClearsOnly THEN And(page[i], PageToLoad[i]) ELSE PageToLoad[i]]
        <4>1. \A i \in InPage : 0 <= i /\ i < PageSize
          BY LayoutAssumption DEF InPage
        <4>2. page' = [i \in InPage |->
                        IF 0 <= i /\ i < PageSize
                          THEN IF PageClearsOnly THEN And(page[i], PageToLoad[i])
                               ELSE PageToLoad[i]
                          ELSE page[i]]
          BY <2>0, <2>2 DEF WriteData
        <4> QED BY <4>1, <4>2
      <3>3. ASSUME Sound' PROVE page' = PageToLoad
        <4>1. PageClearsOnly => \A i \in InPage : page[i] = Erased
          BY <2>0, <3>3 DEF Sound, ErasedPage
        <4>2. \A i \in InPage : page'[i] = PageToLoad[i]
          BY <1>f, <3>2, <4>1, AndErased
        <4>3. page' = [i \in InPage |-> PageToLoad[i]]
          BY <3>2, <4>2
        <4> QED BY <1>f, <4>3 DEF PageContent
      <3> QED BY <2>0, <2>2, <3>1, <3>3, <1>a
    <2>3. CASE /\ pc' = "loadWords" /\ w' = 0 /\ UNCHANGED <<chipVars, p, buf>>
      <3>1. UNCHANGED <<p, buf, array, target, page>>
        BY <2>3 DEF chipVars
      <3>2. ASSUME Sound' PROVE LoadedTo'
        <4>1. \A i \in InPage : PageClearsOnly => page[i] = Erased
          BY <2>0, <3>2 DEF Sound, ErasedPage
        <4>2. \A i \in InPage : ~(i < 0)
          BY LayoutAssumption DEF InPage
        <4> QED BY <2>3, <3>1, <4>1, <4>2 DEF LoadedTo
      <3> QED BY <2>0, <2>3, <3>1, <3>2, <1>a
    <2> QED BY <1>2, <2>1, <2>2, <2>3 DEF LoadBurst, localVars
  <1>3. CASE LoadWord
    <2>1. CASE Return("io")
      BY <2>1, ReturnContent
    <2>2. CASE /\ WriteData(w, w + WordSize, PageToLoad)
               /\ Step("loadWords") /\ w' = w + WordSize /\ UNCHANGED <<p, buf, status>>
      <3>1. UNCHANGED <<p, buf, array, target, clean>> /\ pc' = "loadWords"
        BY <2>2 DEF WriteData, Step
      <3>2. pc = "loadWords" /\ mode = "load"
        BY <1>3 DEF LoadWord, IInv, Modes
      <3>3. page' = [i \in InPage |->
                       IF w <= i /\ i < w + WordSize
                         THEN IF PageClearsOnly THEN And(page[i], PageToLoad[i])
                              ELSE PageToLoad[i]
                         ELSE page[i]]
        BY <2>2, <3>2 DEF WriteData
      <3>4. PageToLoad' = PageToLoad
        BY <1>k, <3>1, StatementsKept
      <3>5. ASSUME Sound' PROVE LoadedTo'
        <4>1. LoadedTo
          BY <3>1, <3>2, <3>5 DEF Content, Loading, Sound
        <4> SUFFICES ASSUME NEW i \in InPage
                     PROVE  IF i < w + WordSize THEN page'[i] = PageToLoad[i]
                            ELSE PageClearsOnly => page'[i] = Erased
          BY <2>2, <3>4 DEF LoadedTo
        <4>2. i \in Nat /\ w \in Nat /\ WordSize \in Nat
          BY <1>f, LayoutAssumption, FlashAssumption DEF InPage
        <4>3. CASE i < w
          <5>1. page'[i] = page[i] /\ page[i] = PageToLoad[i]
            BY <3>3, <4>1, <4>2, <4>3 DEF LoadedTo
          <5> QED BY <4>2, <4>3, <5>1
        <4>4. CASE w <= i /\ i < w + WordSize
          <5>1. PageClearsOnly => page[i] = Erased
            BY <4>1, <4>2, <4>4 DEF LoadedTo
          <5>2. page'[i] = IF PageClearsOnly THEN And(page[i], PageToLoad[i]) ELSE PageToLoad[i]
            BY <3>3, <4>4
          <5> QED BY <1>f, <4>4, <5>1, <5>2, AndErased
        <4>5. CASE w + WordSize <= i
          <5>1. page'[i] = page[i]
            BY <3>3, <4>2, <4>5
          <5>2. PageClearsOnly => page[i] = Erased
            BY <4>1, <4>2, <4>5 DEF LoadedTo
          <5> QED BY <4>2, <4>5, <5>1, <5>2
        <4> QED BY <4>2, <4>3, <4>4, <4>5
      <3> QED BY <3>1, <3>2, <3>5, <1>a
    <2> QED BY <1>3, <2>1, <2>2 DEF LoadWord, Pi
  <1>4. CASE LoadWordsDone
    <2>1. /\ UNCHANGED <<p, buf, array, target, clean, page>> /\ pc' = "programCmd"
          /\ pc = "loadWords" /\ w >= PageSize
      BY <1>4 DEF LoadWordsDone, Goto, Step, localVars, chipVars
    <2>2. ASSUME Sound' PROVE page' = PageToLoad
      <3>1. LoadedTo
        BY <2>1, <2>2 DEF Content, Loading, Sound
      <3>2. \A i \in InPage : i < w
        BY <1>f, <2>1, LayoutAssumption DEF InPage
      <3>3. \A i \in InPage : page[i] = PageToLoad[i]
        BY <3>1, <3>2 DEF LoadedTo
      <3>4. page = PageToLoad
        BY <1>f, <3>3, SamePage
      <3> QED BY <2>1, <3>4
    <2> QED BY <2>1, <2>2, <1>a
  <1> QED BY <1>1, <1>2, <1>3, <1>4

\* The bytes of a write are in the pages of its sectors.
LEMMA OutsideRange ==
  ASSUME IInv, pc \in LoadLoop, call.op = "write",
         NEW q \in Pages \ Written, NEW i \in InPage
  PROVE  ~(q * PageSize + i - call.offset >= 0 /\ q * PageSize + i - call.offset < call.size)
  <1> SUFFICES ASSUME q * PageSize + i - call.offset >= 0,
                      q * PageSize + i - call.offset < call.size
               PROVE  FALSE
    OBVIOUS
  <1>1. /\ call \in AnyCall /\ ValidOffsetSize(call.offset, call.size)
        /\ SBegin \in Nat /\ SEnd \in Nat /\ call.offset \in Nat
    BY WriteFacts
  <1>2. call.size \in Nat /\ q \in Nat /\ i \in 0 .. PageSize - 1
    BY <1>1, CallTypes, PageTypes DEF InPage
  <1>3. PICK b \in Nat, e \in Nat : b = Begin /\ e = End
    BY <1>1, <1>2, RangeCoversBytes DEF Begin, End
  <1>4. PICK m \in Nat : m = q * PageSize
    BY <1>2, LayoutAssumption
  <1>5. call.offset <= m + i /\ m + i < call.offset + call.size /\ call.size > 0
    BY <1>1, <1>2, <1>4, LayoutAssumption
  <1>6. PICK x \in Nat, y \in Nat : x = PageSize * b /\ y = PageSize * e
    BY LayoutAssumption
  <1>7. x <= call.offset /\ call.offset + call.size <= y
    <2>1. call.offset = PageSize * b + Remainder(call.offset)
          /\ Remainder(call.offset) \in 0 .. PageSize - 1
      BY <1>1, <1>2, <1>3, RangeCoversBytes DEF Begin
    <2>2. PICK r \in Nat : r = Remainder(call.offset)
      BY <2>1, LayoutAssumption
    <2>3. call.offset = x + r
      BY <1>6, <2>1, <2>2
    <2>4. call.offset + call.size <= PageSize * e
      BY <1>1, <1>2, <1>3, <1>5, RangeCoversBytes DEF End
    <2> QED BY <1>6, <2>2, <2>3, <2>4
  <1>8. b <= q
    <2>1. ASSUME q + 1 <= b PROVE PageSize * (q + 1) <= PageSize * b
      BY <1>2, <2>1, LayoutAssumption
    <2>2. PageSize * (q + 1) = m + PageSize
      BY <1>2, <1>4, LayoutAssumption
    <2>3. ~(q + 1 <= b)
      BY <1>1, <1>2, <1>5, <1>6, <1>7, <2>1, <2>2, LayoutAssumption
    <2> QED BY <1>2, <2>3
  <1>9. q < e
    <2>1. ASSUME e <= q PROVE PageSize * e <= PageSize * q
      BY <1>2, <2>1, LayoutAssumption
    <2>2. PageSize * q = m
      BY <1>2, <1>4, LayoutAssumption
    <2>3. ~(e <= q)
      BY <1>1, <1>2, <1>5, <1>6, <1>7, <2>1, <2>2, LayoutAssumption
    <2> QED BY <1>2, <2>3
  <1>10. SBegin <= b
    BY <1>3, SectorHoldsPage DEF SBegin, SectorsBegin
  <1>11. e <= SEnd
    <2>1. e > b
      BY <1>2, <1>8, <1>9
    <2>2. SEnd = SectorEnd(e - 1) /\ e - 1 \in Nat
      BY <1>3, <2>1 DEF SEnd, SectorsEnd
    <2>3. e - 1 < SectorEnd(e - 1) /\ SectorEnd(e - 1) \in Nat
      BY <2>2, SectorHoldsPage
    <2> QED BY <2>2, <2>3
  <1>12. q \in Written
    BY <1>1, <1>2, <1>8, <1>9, <1>10, <1>11 DEF Written
  <1> QED BY <1>12

\* What has been shown does not depend on the timers, and less on a call that is cancelled.
LEMMA SameContent ==
  ASSUME Content, UNCHANGED chipVars,
         UNCHANGED <<pc, unit, result, p, w, buf, status, call, old, steady, clean>>,
         cancelled => cancelled'
  PROVE  Content'
  <1>1. UNCHANGED <<array, page, mode, cir, working, target, goal, okBits>>
    BY DEF chipVars
  <1>2. /\ Prepared' <=> Prepared
        /\ ReadSoFar' <=> ReadSoFar
        /\ Written' = Written /\ Begin' = Begin /\ SBegin' = SBegin /\ SEnd' = SEnd
        /\ WholeChip' = WholeChip
        /\ Erases' = Erases /\ PageToLoad' = PageToLoad
        /\ Untouched' <=> Untouched
        /\ Programmed' <=> Programmed
    BY <1>1, StatementsKept
  <1>3. SetupPages(cir)' = SetupPages(cir) /\ (LoadedTo' <=> LoadedTo) /\ (Sound' <=> Sound)
    BY <1>1, <1>2 DEF SetupPages, LoadedTo, Sound, SectorPages
  <1>4. Rests' /\ HasRead' /\ ToWrite' /\ Beside'
    BY <1>1, <1>2 DEF Content, Rests, HasRead, ToWrite, Beside
  <1>5. Erasing' /\ Blank'
    BY <1>1, <1>2, <1>3 DEF Content, Erasing, Blank, ErasedIn
  <1>6. Loading'
    BY <1>1, <1>2, <1>3 DEF Content, Loading
  <1>7. Ended'
    <2>1. LayoutDetected' /\ (Done("write")' => working' = "no")
      BY <1>1 DEF Content, Ended, LayoutDetected, Done
    <2>2. ReadReturnsCells'
      BY <1>1 DEF Content, Ended, ReadReturnsCells, Done, Skip
    <2>3. WrittenAsAsked'
      BY <1>1, <1>2 DEF Content, Ended, WrittenAsAsked, Done, Expected
    <2> QED BY <2>1, <2>2, <2>3 DEF Ended
  <1> QED BY <1>4, <1>5, <1>6, <1>7 DEF Content

\* The end of an erase or of the programming of a page gives the cells their
\* goal when it succeeded, and clears the OK bit when it did not.
LEMMA FinishContent ==
  ASSUME IInv, Content, NEW ok \in BOOLEAN, Finish(ok),
         UNCHANGED <<pc, unit, result, p, w, buf, status, call, old, steady, clean, cancelled>>
  PROVE  Content'
  <1> USE DEF LoadLoop, LoadLabels, EraseLabels
  <1>1. /\ working # "no" /\ working' = "no" /\ target' = {} /\ UNCHANGED <<page, mode, cir>>
        /\ array' = IF ok THEN [q \in Pages |-> IF q \in target THEN goal ELSE array[q]]
                    ELSE array
        /\ okBits' = IF ok THEN okBits \cup {OkBitOf[working]} ELSE okBits \ {OkBitOf[working]}
    BY DEF Finish
  <1>2. \A q \in Pages : /\ q \notin target => array'[q] = array[q]
                         /\ q \in target => array'[q] = IF ok THEN goal ELSE array[q]
    BY <1>1
  <1>3. /\ Prepared' <=> Prepared
        /\ ReadSoFar' <=> ReadSoFar
        /\ Written' = Written /\ Begin' = Begin /\ SBegin' = SBegin /\ SEnd' = SEnd
        /\ WholeChip' = WholeChip
        /\ Erases' = Erases /\ PageToLoad' = PageToLoad
    BY StatementsKept
  <1>4. pc \notin {"eraseSetup", "eraseCmd", "eraseClear", "loadCmd", "loadData", "loadWords",
                   "programCmd", "programClear"}
    BY <1>1 DEF IInv, Wsm
  <1>5. Rests' /\ HasRead'
    BY <1>1, <1>3 DEF Content, Rests, HasRead
  <1>6. ToWrite'
    BY <1>3 DEF Content, ToWrite
  <1>7. Beside'
    <2>1. pc \in EraseLabels \cup LoadLoop /\ steady => Untouched'
      BY <1>2, <1>3 DEF Content, Beside, Untouched
    <2> QED BY <1>1, <2>1 DEF Beside
  <1>8. pc \in {"erasePoll", "programPoll"}
          => /\ SBegin \in Nat /\ SEnd \in Nat /\ p \in Nat /\ SBegin <= p /\ p < SEnd
             /\ Written \subseteq Pages
    <2> SUFFICES ASSUME pc \in {"erasePoll", "programPoll"}
                 PROVE  /\ SBegin \in Nat /\ SEnd \in Nat /\ p \in Nat /\ SBegin <= p /\ p < SEnd
                        /\ Written \subseteq Pages
      OBVIOUS
    <2>1. SBegin <= p /\ p < SEnd /\ call.op = "write"
      BY DEF IInv, Limbo, Control
    <2> QED BY <2>1, WriteFacts
  <1>9. Erasing'
    <2>1. CASE pc = "erasePoll"
      <3>1. working = "erase" /\ target = Erases /\ goal = ErasedPage
        BY <1>1, <2>1 DEF Content, Erasing, IInv, Wsm
      <3>2. Erases \subseteq Pages /\ SBegin .. p - 1 \subseteq Pages
        <4>1. Erases \subseteq Written /\ Written \subseteq Pages
          BY <1>8, <2>1, ErasesFacts
        <4>2. SBegin .. p - 1 \subseteq Written
          BY <1>8, <2>1 DEF Written
        <4> QED BY <4>1, <4>2
      <3>3. ErasedIn(SBegin .. p - 1)'
        <4>1. \A q \in SBegin .. p - 1 : array[q] = ErasedPage
          BY <2>1 DEF Content, Erasing, ErasedIn
        <4> QED BY <1>2, <1>3, <3>1, <3>2, <4>1 DEF ErasedIn
      <3>4. "eraseOK" \in okBits' => ok
        BY <1>1, <3>1 DEF OkBitOf
      <3>5. "eraseOK" \in okBits' => ErasedIn(Erases)'
        BY <1>2, <1>3, <3>1, <3>2, <3>4 DEF ErasedIn
      <3>6. WholeChip => p \in {SBegin, SEnd}
        BY <2>1 DEF Content, Erasing
      <3> QED BY <1>1, <1>3, <2>1, <3>3, <3>5, <3>6 DEF Erasing
    <2>2. CASE pc # "erasePoll"
      BY <1>4, <2>2 DEF Erasing
    <2> QED BY <2>1, <2>2
  <1>10. Blank' /\ Loading'
    <2>1. CASE pc = "programPoll"
      <3>1. working = "program" /\ target = {p} /\ (Sound => goal = PageToLoad)
        BY <1>1, <2>1 DEF Content, Blank, Loading, IInv, Wsm
      <3>2. /\ p \in Pages
            /\ \A q \in SBegin .. p - 1 : q \in Pages /\ q # p
            /\ \A q \in p + 1 .. SEnd - 1 : q \in Pages /\ q # p
        BY <1>8, <2>1 DEF Written
      <3>3. ErasedIn(p + 1 .. SEnd - 1)'
        BY <1>2, <1>3, <2>1, <3>1, <3>2 DEF Content, Blank, ErasedIn
      <3>4. Blank'
        BY <1>1, <2>1, <3>3 DEF Blank
      <3>5. Sound' => Programmed'
        <4>1. Sound' => Programmed
          BY <2>1 DEF Content, Loading, Sound
        <4> QED BY <1>2, <1>3, <3>1, <3>2, <4>1 DEF Programmed
      <3>6. "programOK" \in okBits' => ok
        BY <1>1, <3>1 DEF OkBitOf
      <3>7. "programOK" \in okBits' /\ Sound => array'[p] = PageToLoad
        BY <1>2, <3>1, <3>2, <3>6
      <3>8. Sound' <=> Sound
        BY DEF Sound
      <3>9. Loading'
        BY <1>1, <1>3, <2>1, <3>5, <3>7, <3>8 DEF Loading
      <3> QED BY <3>4, <3>9
    <2>2. CASE pc # "programPoll"
      <3>1. Blank'
        BY <1>4, <2>2 DEF Blank
      <3>2. Loading'
        BY <1>4, <2>2 DEF Loading
      <3> QED BY <3>1, <3>2
    <2> QED BY <2>1, <2>2
  <1>11. Ended'
    <2>1. ~Done("write") /\ ~Done("write")'
      BY <1>1 DEF Content, Ended, Done
    <2>2. LayoutDetected'
      BY <1>1 DEF Content, Ended, LayoutDetected, Done
    <2>3. ReadReturnsCells'
      BY DEF Content, Ended, ReadReturnsCells, Done, Skip
    <2> QED BY <2>1, <2>2, <2>3 DEF Ended, WrittenAsAsked
  <1> QED BY <1>5, <1>6, <1>7, <1>9, <1>10, <1>11 DEF Content

\* The loop begins on erased sectors, programs the page that was loaded and ends
\* when every page holds what it was to hold.
LEMMA ProgramContent ==
  IInv /\ Content /\ (ErasesDone \/ ProgramCommand \/ WriteReturn) => Content'
  <1> SUFFICES ASSUME IInv, Content, ErasesDone \/ ProgramCommand \/ WriteReturn
               PROVE  Content'
    OBVIOUS
  <1> USE DEF LoadLoop, LoadLabels, EraseLabels
  <1>k. UNCHANGED <<call, old, steady>>
    BY CallKept DEF Driver, Writing
  <1>c. pc \in {"eraseSetup", "programCmd", "loadCmd"} /\ call.op = "write" /\ working = "no"
    BY DEF ErasesDone, ProgramCommand, WriteReturn, IInv, Control, Wsm
  <1>b. /\ SBegin \in Nat /\ SEnd \in Nat /\ p \in Nat /\ SBegin <= SEnd /\ Written \subseteq Pages
        /\ buf \in Seq(PageContent) /\ Len(buf) = SEnd - SBegin
    BY <1>c, WriteFacts
  <1>1. CASE ErasesDone
    <2>1. /\ pc = "eraseSetup" /\ pc' = "loadCmd" /\ p' = SBegin /\ (p >= SEnd \/ cancelled)
          /\ UNCHANGED <<buf, array, target, cancelled>>
      BY <1>1 DEF ErasesDone, Step, chipVars, ctxVars
    <2>2. ToWrite' /\ Beside'
      BY <1>k, <2>1, LoopKept
    <2>3. SBegin' = SBegin /\ SEnd' = SEnd
      BY <1>k, <2>1, StatementsKept
    <2>4. Blank'
      <3>1. cancelled \/ ErasedIn(SBegin .. SEnd - 1)
        BY <1>b, <2>1 DEF Content, Erasing, ErasedIn
      <3> QED BY <2>1, <2>3, <3>1 DEF Blank, ErasedIn
    <2>5. Programmed'
      BY <1>b, <2>1, <2>3 DEF Programmed
    <2>6. Loading'
      BY <2>1, <2>5 DEF Loading
    <2> QED BY <2>1, <2>2, <2>4, <2>6, LoadContent
  <1>2. CASE ProgramCommand
    <2>1. CASE Return("io")
      BY <2>1, ReturnContent
    <2>2. CASE WriteProgram(p) /\ Goto("programPoll")
      <3>1. /\ pc = "programCmd" /\ pc' = "programPoll"
            /\ UNCHANGED <<p, buf, clean>>
        BY <1>2, <2>2 DEF ProgramCommand, Goto, Step, localVars
      <3>2. p < SEnd
        BY <3>1 DEF IInv, Limbo
      <3>3. /\ p \in Written /\ PageToLoad \in PageContent /\ page \in PageContent /\ SBegin <= p
            /\ \A i \in InPage : page[i] \in Byte
        BY <3>1, <3>2, LoadFacts
      <3>4. /\ working' = "program" /\ target' = {p}
            /\ goal' = [i \in InPage |-> And(array[p][i], page[i])]
            /\ \A q \in Pages : q # p => array'[q] = array[q]
        BY <1>c, <2>2 DEF WriteProgram, Start
      <3>5. /\ Prepared' <=> Prepared
            /\ Written' = Written /\ SBegin' = SBegin /\ SEnd' = SEnd /\ Begin' = Begin
            /\ PageToLoad' = PageToLoad
        BY <1>k, <3>1, StatementsKept
      <3>6. ErasedIn(p .. SEnd - 1)
        BY <3>1 DEF Content, Blank
      <3>7. ToWrite'
        BY <1>k, <3>1, <3>5 DEF Content, ToWrite
      <3>8. Beside'
        BY <1>k, <3>1, <3>3, <3>4, <3>5 DEF Content, Beside, Untouched
      <3>9. Blank'
        <4>1. \A q \in p + 1 .. SEnd - 1 : array'[q] = ErasedPage
          <5> TAKE q \in p + 1 .. SEnd - 1
          <5>1. q \in p .. SEnd - 1 /\ q # p
            BY <1>b
          <5>2. q \in Pages
            BY <1>b, <3>3, <5>1 DEF Written
          <5> QED BY <3>4, <3>6, <5>1, <5>2 DEF ErasedIn
        <4> QED BY <3>1, <3>4, <3>5, <4>1 DEF Blank, ErasedIn
      <3>10. Sound' => Programmed' /\ goal' = PageToLoad
        <4> SUFFICES ASSUME Sound' PROVE Programmed' /\ goal' = PageToLoad
          OBVIOUS
        <4>1. Programmed /\ page = PageToLoad
          BY <3>1 DEF Content, Loading, Sound
        <4>2. \A q \in SBegin .. p - 1 : q \in Pages /\ q # p
          BY <1>b, <3>2 DEF Written
        <4>3. Programmed'
          BY <3>1, <3>4, <3>5, <4>1, <4>2 DEF Programmed
        <4>4. \A i \in InPage : array[p][i] = Erased
          <5>1. array[p] = ErasedPage
            BY <1>b, <3>2, <3>6 DEF ErasedIn
          <5> QED BY <5>1 DEF ErasedPage
        <4>5. \A i \in InPage : And(array[p][i], page[i]) = page[i]
          BY <3>3, <4>4, AndErased
        <4>6. goal' = [i \in InPage |-> page[i]]
          BY <3>4, <4>5
        <4>7. goal' = page
          BY <3>3, <4>6 DEF PageContent
        <4> QED BY <4>1, <4>3, <4>7
      <3>11. Loading'
        BY <3>1, <3>4, <3>5, <3>10 DEF Loading
      <3> QED BY <3>1, <3>7, <3>8, <3>9, <3>11, LoadContent
    <2> QED BY <1>2, <2>1, <2>2 DEF ProgramCommand, Pi
  <1>3. CASE WriteReturn
    <2>1. /\ pc = "loadCmd" /\ pc' = "idle" /\ result' = (IF cancelled THEN "cancelled" ELSE "ok")
          /\ (p >= SEnd \/ cancelled)
          /\ UNCHANGED <<array, working, clean>>
      BY <1>3, <1>c DEF WriteReturn, Leave, chipVars
    <2>2. CASE cancelled
      BY <2>1, <2>2, OverContent
    <2>3. CASE ~cancelled
      <3>1. p = SEnd
        BY <1>b, <2>1, <2>3 DEF IInv, Limbo
      <3>2. SBegin' = SBegin /\ Begin' = Begin
        BY <1>k DEF SBegin, Begin
      <3>3. ASSUME steady, SBegin = Begin, Sound, NEW q \in Pages, NEW i \in InPage
            PROVE  array[q][i] = Expected(q, i)
        <4>1. CASE q \in Written
          <5>1. Programmed /\ Prepared
            BY <1>c, <2>1, <3>3 DEF Content, Loading, ToWrite
          <5>2. PICK k \in 1 .. Len(buf) : k = q - SBegin + 1
            BY <1>b, <4>1 DEF Written
          <5>3. array[q] = buf[k]
            BY <3>1, <4>1, <5>1, <5>2 DEF Programmed, Written
          <5>4. buf[k][i] = Expected(SBegin + k - 1, i)
            BY <5>1, <5>2 DEF Prepared
          <5>5. SBegin + k - 1 = q
            BY <1>b, <4>1, <5>2 DEF Written
          <5> QED BY <5>3, <5>4, <5>5
        <4>2. CASE q \notin Written
          <5>1. array[q] = old[q]
            BY <2>1, <3>3, <4>2 DEF Content, Beside, Untouched
          <5>2. ~(q * PageSize + i - call.offset >= 0
                    /\ q * PageSize + i - call.offset < call.size)
            BY <1>c, <2>1, <4>2, OutsideRange
          <5> QED BY <5>1, <5>2 DEF Expected
        <4> QED BY <4>1, <4>2
      <3>4. WrittenAsAsked'
        BY <1>k, <2>1, <3>2, <3>3 DEF WrittenAsAsked, Expected, Sound
      <3>5. Ended'
        BY <1>c, <1>k, <2>1, <3>4 DEF Ended, LayoutDetected, ReadReturnsCells, Done
      <3> QED BY <2>1, <3>5 DEF Content, Rests, HasRead, ToWrite, Beside, Erasing, Blank, Loading,
                 BeforeErase, IDLabels, StatusLabels, ClearLabels, ReadLabels
    <2> QED BY <2>2, <2>3
  <1> QED BY <1>1, <1>2, <1>3

\* Interrupts, timeouts, kills and the chip keep what has been shown of the contents.
LEMMA EnvironmentContent ==
  IInv /\ Content /\ (Interrupt \/ Timeout \/ Kill \/ WsmDone) => Content'
  <1> SUFFICES ASSUME IInv, Content, Interrupt \/ Timeout \/ Kill \/ WsmDone PROVE Content'
    OBVIOUS
  <1> USE DEF LoadLoop, LoadLabels, EraseLabels
  <1>1. CASE Kill
    BY <1>1, OverContent DEF Kill
  <1>2. CASE Interrupt \/ Timeout
    <2>1. /\ UNCHANGED chipVars
          /\ UNCHANGED <<pc, unit, result, p, w, buf, status, call, old, steady, clean>>
          /\ cancelled => cancelled'
      BY <1>2 DEF Interrupt, Timeout, localVars, callVars, history, IInv, TypeOK, DriverTypeOK
    <2> QED BY <2>1, SameContent
  <1>3. CASE WsmDone
    <2>1. PICK ok \in BOOLEAN : Finish(ok)
      BY <1>3 DEF WsmDone
    <2>2. UNCHANGED <<pc, unit, result, p, w, buf, status, call, old, steady, clean, cancelled>>
      BY <1>3 DEF WsmDone, driverVars, localVars, ctxVars, callVars, history
    <2> QED BY <2>1, <2>2, FinishContent
  <1> QED BY <1>1, <1>2, <1>3

------------------------------------------------------------------------------
(* The invariant and what follows from it *)

\* Nothing has been asked of the chip at the start.
LEMMA InitContent == Init => Content
  BY DEF Init, Content, Rests, HasRead, ToWrite, Beside, Erasing, Blank, Loading, Ended, Done,
         LayoutDetected, ReadReturnsCells, WrittenAsAsked, BeforeErase, LoadLoop, IDLabels,
         StatusLabels, ClearLabels, ReadLabels, EraseLabels, LoadLabels

\* Every step keeps what has been shown of the contents.
LEMMA ContentStep == IInv /\ Content /\ [Next]_vars => Content'
  <1> SUFFICES ASSUME IInv, Content, [Next]_vars PROVE Content'
    OBVIOUS
  <1>1. CASE UNCHANGED vars
    <2>1. /\ UNCHANGED chipVars
          /\ UNCHANGED <<pc, unit, result, p, w, buf, status, call, old, steady, clean, cancelled>>
      BY <1>1 DEF vars, driverVars, localVars, ctxVars, callVars, history
    <2> QED BY <2>1, SameContent
  <1>2. CASE Writing
    BY <1>2, EraseContentStep, LoadContentStep, ProgramContent DEF Writing
  <1>3. CASE Calling \/ Registers \/ Reading \/ Polling
    BY <1>3, CallingContent, RegistersContent, ReadingContent, PollingContent
  <1>4. CASE Interrupt \/ Timeout \/ Kill \/ WsmDone
    BY <1>4, EnvironmentContent
  <1> QED BY <1>1, <1>2, <1>3, <1>4 DEF Next, Driver

\* Every reachable state satisfies what has been shown of the contents.
LEMMA ContentHolds == Spec => []Content
  <1>1. Init => Content
    BY InitContent
  <1>2. IInv /\ Content /\ [Next]_vars => Content'
    BY ContentStep
  <1> QED BY <1>1, <1>2, Invariance, PTL DEF Spec

\* New detects the layout of an idle chip in spite of the quirk, and leaves the
\* chip in array mode.
THEOREM LayoutFound == Spec => []LayoutDetected
  <1>1. Content => LayoutDetected
    BY DEF Content, Ended
  <1> QED BY <1>1, ContentHolds, PTL

\* A successful Read of an idle chip returns the bytes of its range, whatever
\* boundaries its bursts have to stop at.
THEOREM ReadsReturnCells == Spec => []ReadReturnsCells
  <1>1. Content => ReadReturnsCells
    BY DEF Content, Ended
  <1> QED BY <1>1, ContentHolds, PTL

\* A successful Write that begins in the first page of a sector leaves its data
\* in the range and every other byte of the chip as it was, after any sequence
\* of calls, failures, interrupts and restarts.
THEOREM WritesAsAsked == Spec => []WrittenAsAsked
  <1>1. Content => WrittenAsAsked
    BY DEF Content, Ended
  <1> QED BY <1>1, ContentHolds, PTL

\* The erase command only follows its setup, both it and the program command
\* only reach an idle chip, and a page is only programmed when it is erased.
THEOREM CommandsAreTaken == Spec => []CommandsTaken
  <1>1. IInv /\ Content => CommandsTaken
    <2> SUFFICES ASSUME IInv, Content PROVE CommandsTaken
      OBVIOUS
    <2>1. pc \in {"eraseCmd", "programCmd"} => working = "no"
      BY DEF IInv, Wsm
    <2>2. pc = "eraseCmd" => SetupPages(cir) # {}
      <3> SUFFICES ASSUME pc = "eraseCmd" PROVE SetupPages(cir) # {}
        OBVIOUS
      <3>1. SetupPages(cir) = Erases
        BY DEF Content, Erasing
      <3>2. p < SEnd
        BY DEF IInv, Limbo, EraseLabels
      <3>3. p \in Nat
        BY DEF IInv, TypeOK, DriverTypeOK
      <3>4. p \in SectorPages(p) /\ 0 \in Pages
        BY <3>3, SectorHoldsPage, PageTypes
      <3> QED BY <3>1, <3>4 DEF Erases
    <2>3. pc = "programCmd" => array[p] = ErasedPage
      <3> SUFFICES ASSUME pc = "programCmd" PROVE array[p] = ErasedPage
        OBVIOUS
      <3>1. ErasedIn(p .. SEnd - 1)
        BY DEF Content, Blank
      <3>2. p < SEnd
        BY DEF IInv, Limbo, LoadLabels
      <3>3. p \in Nat /\ SEnd \in Nat
        BY <3>2, LoadFacts DEF LoadLoop, LoadLabels
      <3> QED BY <3>1, <3>2, <3>3 DEF ErasedIn
    <2> QED BY <2>1, <2>2, <2>3 DEF CommandsTaken
  <1> QED BY <1>1, Invariance, ContentHolds, PTL
==============================================================================
