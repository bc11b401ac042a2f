----------------------------- MODULE FlashProofs -----------------------------
(***************************************************************************)
(* The arithmetic of FlashLayout; type correctness of Flash, the modes it  *)
(* reads in, that it implements FlashStore and that its calls come to an   *)
(* end, for every chip geometry, every set of requests and every number of *)
(* calls, failures, interrupts and restarts.                               *)
(***************************************************************************)
EXTENDS Flash, SequenceTheorems, TLAPS, Measures

EraseLabels == {"eraseSetup", "eraseCmd", "erasePoll", "eraseClear"}
LoadLabels == {"loadData", "loadWords", "programCmd", "programPoll", "programClear"}
ClearLabels == {"clear1", "clear2", "clearWrite"}
StatusLabels == {"status1", "status2", "statusRead"}
ReadLabels == {"readArray", "burst"}
IDLabels == {"id1", "id2", "idRead"}

\* Which calls are where, with valid arguments and a known layout.
Control ==
  /\ pc = "newArray" => call.op = "new"
  /\ pc \in IDLabels => call.op \in {"new", "siliconID"}
  /\ pc \in StatusLabels => call.op \in {"status", "write"}
  /\ pc \in ClearLabels => call.op \in {"clearStatus", "write"}
  /\ pc \in ReadLabels => call.op \in {"read", "write"}
  /\ pc \in EraseLabels \cup LoadLabels \cup {"loadCmd"} => call.op = "write"
  /\ pc \notin {"idle", "closed"} /\ call.op \in {"read", "write"}
       => ValidOffsetSize(call.offset, call.size)
  /\ pc # "closed" /\ (pc \in IDLabels => call.op # "new") => unit \in Units

\* The pages in the buffer are those the loops go over.
Buffer ==
  /\ pc = "readArray" => buf = <<>>
  /\ pc = "burst" => ReadFrom <= p /\ p <= ReadTo /\ Len(buf) = p - ReadFrom
  /\ call.op = "write"
       /\ pc \in StatusLabels \cup ClearLabels \cup EraseLabels \cup LoadLabels \cup {"loadCmd"}
       => Len(buf) = SEnd - SBegin

\* The chip is in the mode that the driver counts on.
Modes ==
  /\ pc \in {"clear2", "status2"} => cir.op = "status"
  /\ pc \in {"clearWrite", "statusRead", "loadCmd", "programPoll", "programClear"} \cup EraseLabels
       => mode = "status"
  /\ pc \in {"loadData", "loadWords"} => mode = "load"
  /\ pc \in ReadLabels /\ steady => working = "no"
  /\ pc = "burst" /\ steady => mode = "array"

\* The WSM does what the driver waits for, and nothing when it is to be commanded.
Wsm ==
  /\ pc \in {"eraseSetup", "eraseCmd", "eraseClear", "loadCmd", "loadData", "loadWords",
             "programCmd", "programClear"}
       => working = "no"
  /\ pc = "eraseCmd" => cir.op \in {"sectorErase", "chipErase"}
  /\ pc = "erasePoll" => working \in {"no", "erase"}
  /\ pc = "programPoll" => working \in {"no", "program"}
  /\ working = "no" => target = {}

\* The pages that the WSM works on, and those that are to be erased or
\* programmed next, are in limbo.
Limbo ==
  /\ target \subseteq limbo
  /\ pc = "eraseCmd" => SetupPages(cir) \subseteq limbo
  /\ pc \in EraseLabels
       => SBegin <= p /\ SectorBegin(p) = p /\ SBegin .. p - 1 \subseteq limbo
  /\ pc \in EraseLabels \ {"eraseSetup"}
       => p < SEnd /\ (IF WholeChip THEN Pages ELSE SectorPages(p)) \subseteq limbo
  /\ pc = "loadCmd"
       => SBegin <= p /\ p <= SEnd /\ (cancelled \/ SBegin .. SEnd - 1 \subseteq limbo)
  /\ pc \in LoadLabels
       => SBegin <= p /\ p < SEnd /\ SBegin .. SEnd - 1 \subseteq limbo

IInv == TypeOK /\ Control /\ Buffer /\ Modes /\ Wsm /\ Limbo

------------------------------------------------------------------------------
(* The geometry of the chips, for every size of a page, a sector, a chip and a read block *)

(***************************************************************************)
(* Euclidean division by a positive number, in the form the other proofs   *)
(* use it.                                                                 *)
(***************************************************************************)
LEMMA Division ==
  ASSUME NEW a \in Nat, NEW n \in Nat \ {0}
  PROVE  /\ a \div n \in Nat
         /\ a % n \in 0 .. n - 1
         /\ a = n * (a \div n) + (a % n)
  OBVIOUS

\* Quotient and remainder are unique.
LEMMA DivisionUnique ==
  ASSUME NEW k \in Nat, NEW n \in Nat \ {0}, NEW r \in 0 .. n - 1
  PROVE  /\ (n * k + r) \div n = k
         /\ (n * k + r) % n = r
  OBVIOUS

(***************************************************************************)
(* SectorBegin and SectorEnd (layout.go:83): a page lies inside its sector, *)
(* which begins and ends at sector boundaries, so that the loop of Write   *)
(* that goes from SectorEnd to SectorEnd never skips or repeats a page.    *)
(***************************************************************************)
THEOREM SectorHoldsPage ==
  ASSUME NEW q \in Nat
  PROVE  /\ SectorBegin(q) \in Nat /\ SectorEnd(q) \in Nat
         /\ SectorBegin(q) <= q /\ q < SectorEnd(q)
         /\ q \in SectorPages(q)
  <1>1. q % PagesPerSector \in 0 .. PagesPerSector - 1
    BY Division, LayoutAssumption
  <1>2. q = PagesPerSector * (q \div PagesPerSector) + (q % PagesPerSector)
    BY Division, LayoutAssumption
  <1>3. PagesPerSector * (q \div PagesPerSector) \in Nat
    BY Division, LayoutAssumption
  <1> QED
    BY <1>1, <1>2, <1>3, LayoutAssumption DEF SectorBegin, SectorEnd, SectorPages

\* Sectors begin and end at sector boundaries.
THEOREM SectorsAligned ==
  ASSUME NEW q \in Nat
  PROVE  /\ SectorBegin(SectorBegin(q)) = SectorBegin(q)
         /\ SectorBegin(SectorEnd(q)) = SectorEnd(q)
  <1> DEFINE k == q \div PagesPerSector
  <1>1. k \in Nat /\ SectorBegin(q) = PagesPerSector * k
    BY Division, LayoutAssumption DEF SectorBegin
  <1>2. SectorEnd(q) = PagesPerSector * (k + 1)
    BY <1>1, LayoutAssumption DEF SectorEnd
  <1> HIDE DEF k
  <1>3. \A m \in Nat : (PagesPerSector * m) % PagesPerSector = 0
    <2>1. ASSUME NEW m \in Nat PROVE (PagesPerSector * m + 0) % PagesPerSector = 0
      BY DivisionUnique, LayoutAssumption
    <2> QED BY <2>1, LayoutAssumption
  <1>4. \A m \in Nat : PagesPerSector * m \in Nat
    BY LayoutAssumption
  <1>5. \A m \in Nat : SectorBegin(PagesPerSector * m) = PagesPerSector * m
    BY <1>3, <1>4 DEF SectorBegin
  <1> QED BY <1>1, <1>2, <1>5

(***************************************************************************)
(* convertAddressRange (layout.go:144): the pages it returns begin with    *)
(* the page that holds the first byte, end with the page that holds the    *)
(* last one, and lie inside the chip.                                      *)
(***************************************************************************)
THEOREM RangeCoversBytes ==
  ASSUME NEW offset \in Int, NEW size \in Int, ValidOffsetSize(offset, size)
  PROVE  /\ RangeBegin(offset) \in Nat /\ RangeEnd(offset, size) \in Nat
         /\ RangeBegin(offset) <= RangeEnd(offset, size)
         /\ offset = PageSize * RangeBegin(offset) + Remainder(offset)
         /\ Remainder(offset) \in 0 .. PageSize - 1
         /\ size > 0 => /\ RangeBegin(offset) < RangeEnd(offset, size)
                        /\ offset + size <= PageSize * RangeEnd(offset, size)
                        /\ PageSize * (RangeEnd(offset, size) - 1) < offset + size
                        /\ RangeEnd(offset, size) <= TotalPages
  <1>1. PageSize \in Nat \ {0} /\ offset \in Nat /\ size \in Nat
    BY LayoutAssumption DEF ValidOffsetSize
  <1>2. /\ RangeBegin(offset) \in Nat
        /\ offset = PageSize * RangeBegin(offset) + Remainder(offset)
        /\ Remainder(offset) \in 0 .. PageSize - 1
    BY <1>1, Division DEF RangeBegin, Remainder
  <1>3. CASE size = 0
    BY <1>1, <1>2, <1>3 DEF RangeEnd
  <1>4. CASE size > 0
    <2> DEFINE last == offset + size - 1
               lastPage == last \div PageSize
    <2>0. last \in Nat
      BY <1>1, <1>4
    <2>1. /\ last \in Nat /\ lastPage \in Nat
          /\ last = PageSize * lastPage + (last % PageSize)
          /\ last % PageSize \in 0 .. PageSize - 1
      <3> HIDE DEF last
      <3> QED BY <1>1, <2>0, Division
    <2>2. RangeEnd(offset, size) = lastPage + 1
      BY <1>4 DEF RangeEnd
    <2>3. RangeBegin(offset) <= lastPage
      <3>1. SUFFICES ASSUME lastPage + 1 <= RangeBegin(offset) PROVE FALSE
        BY <1>2, <2>1
      <3>2. PageSize * (lastPage + 1) <= PageSize * RangeBegin(offset)
        BY <1>1, <1>2, <2>1, <3>1
      <3> QED BY <1>1, <1>2, <1>4, <2>1, <3>2
    <2>4. lastPage < TotalPages
      <3>1. SUFFICES ASSUME TotalPages <= lastPage PROVE FALSE
        BY <2>1, LayoutAssumption DEF TotalPages
      <3>2. /\ TotalPages \in Nat /\ ChipSize = PageSize * TotalPages
        BY LayoutAssumption DEF ChipSize, SectorSize, TotalPages
      <3>3. PageSize * TotalPages <= PageSize * lastPage
        BY <1>1, <2>1, <3>1, <3>2
      <3>4. last < ChipSize
        BY <1>1, <3>2, <1>4 DEF ValidOffsetSize
      <3> QED BY <1>1, <2>1, <3>2, <3>3, <3>4
    <2> QED
      BY <1>1, <1>2, <2>1, <2>2, <2>3, <2>4, LayoutAssumption DEF TotalPages
  <1> QED BY <1>1, <1>3, <1>4

(***************************************************************************)
(* ReadBurstEnd (layout.go:93): a burst that ends there makes progress and *)
(* stays inside one block of the chip's address counter, which would wrap. *)
(***************************************************************************)
THEOREM BurstStaysInBlock ==
  ASSUME NEW q \in Nat, NEW r \in q .. ReadBurstEnd(q) - 1
  PROVE  /\ q < ReadBurstEnd(q)
         /\ r \div ReadPageBoundary = q \div ReadPageBoundary
  <1> DEFINE k == q \div ReadPageBoundary
  <1>1. /\ ReadPageBoundary \in Nat \ {0}
        /\ k \in Nat
        /\ q % ReadPageBoundary \in 0 .. ReadPageBoundary - 1
        /\ q = ReadPageBoundary * k + (q % ReadPageBoundary)
    BY Division, LayoutAssumption
  <1> HIDE DEF k
  <1> DEFINE first == ReadPageBoundary * k
             rest == r - first
  <1>2. first \in Nat /\ q - (q % ReadPageBoundary) = first
    BY <1>1
  <1>3. ReadBurstEnd(q) = first + ReadPageBoundary
    BY <1>2 DEF ReadBurstEnd
  <1>4. rest \in 0 .. ReadPageBoundary - 1 /\ r = first + rest
    <2> HIDE DEF first
    <2> QED BY <1>1, <1>2, <1>3
  <1>5. r \div ReadPageBoundary = k
    <2> HIDE DEF rest
    <2>1. (ReadPageBoundary * k + rest) \div ReadPageBoundary = k
      BY <1>1, <1>4, DivisionUnique
    <2> QED BY <2>1, <1>4
  <1> QED BY <1>1, <1>3, <1>5, <1>2 DEF k

(***************************************************************************)
(* pageRangeSectorBoundaries (layout.go:162): the pages of a valid range,  *)
(* widened to whole sectors, stay inside the chip and are aligned.         *)
(***************************************************************************)
LEMMA SectorEndInChip ==
  ASSUME NEW q \in Pages
  PROVE  SectorEnd(q) <= TotalPages
  <1> DEFINE k == q \div PagesPerSector
  <1>1. /\ PagesPerSector \in Nat \ {0} /\ SectorsPerChip \in Nat \ {0}
        /\ q \in Nat /\ q < PagesPerSector * SectorsPerChip
    BY LayoutAssumption DEF Pages, TotalPages
  <1>2. /\ k \in Nat
        /\ q % PagesPerSector \in 0 .. PagesPerSector - 1
        /\ q = PagesPerSector * k + (q % PagesPerSector)
    BY <1>1, Division
  <1>3. SectorEnd(q) = PagesPerSector * k + PagesPerSector
    <2>1. q - (q % PagesPerSector) = PagesPerSector * k
      BY <1>1, <1>2
    <2> QED BY <2>1 DEF SectorEnd, SectorBegin
  <1> HIDE DEF k
  <1>4. k < SectorsPerChip
    <2>1. SUFFICES ASSUME SectorsPerChip <= k PROVE FALSE
      BY <1>1, <1>2
    <2>2. PagesPerSector * SectorsPerChip <= PagesPerSector * k
      BY <1>1, <1>2, <2>1
    <2> QED BY <1>1, <1>2, <2>2
  <1>5. PagesPerSector * (k + 1) <= PagesPerSector * SectorsPerChip
    BY <1>1, <1>2, <1>4
  <1> QED BY <1>1, <1>2, <1>3, <1>5 DEF TotalPages

\* The sectors of a valid range are sectors of the chip and cover its pages.
THEOREM SectorsInChip ==
  ASSUME NEW offset \in Int, NEW size \in Int, ValidOffsetSize(offset, size),
         NEW begin, begin = RangeBegin(offset), NEW end, end = RangeEnd(offset, size)
  PROVE  /\ begin \in Pages /\ end \in Nat /\ begin <= end
         /\ SectorsBegin(begin) \in Pages /\ SectorsEnd(begin, end) \in Nat
         /\ SectorsBegin(begin) <= begin
         /\ SectorsBegin(begin) <= SectorsEnd(begin, end)
         /\ end > begin => end <= SectorsEnd(begin, end)
         /\ begin .. end - 1 \subseteq SectorsBegin(begin) .. SectorsEnd(begin, end) - 1
         /\ SectorsEnd(begin, end) <= TotalPages
         /\ SectorBegin(SectorsBegin(begin)) = SectorsBegin(begin)
         /\ SectorBegin(SectorsEnd(begin, end)) = SectorsEnd(begin, end)
  <1>1. /\ begin \in Nat /\ end \in Nat /\ begin <= end
        /\ size > 0 => begin < end /\ end <= TotalPages
        /\ size <= 0 => end = begin
    BY RangeCoversBytes DEF RangeEnd
  <1>2. TotalPages \in Nat
    BY LayoutAssumption DEF TotalPages
  <1>3. begin < TotalPages
    <2>1. SUFFICES ASSUME TotalPages <= begin PROVE FALSE
      BY <1>1, <1>2
    <2>2. ChipSize = PageSize * TotalPages /\ PageSize \in Nat \ {0}
      BY LayoutAssumption DEF ChipSize, SectorSize, TotalPages
    <2>3. PageSize * TotalPages <= PageSize * begin
      BY <1>1, <1>2, <2>1, <2>2
    <2>4. /\ offset < PageSize * TotalPages
          /\ offset = PageSize * begin + Remainder(offset) /\ Remainder(offset) \in Nat
      BY <2>2, RangeCoversBytes DEF ValidOffsetSize
    <2> QED BY <1>1, <1>2, <2>2, <2>3, <2>4
  <1>4. /\ SectorsBegin(begin) \in Nat /\ SectorsBegin(begin) <= begin
        /\ SectorBegin(SectorsBegin(begin)) = SectorsBegin(begin)
    BY <1>1, SectorHoldsPage, SectorsAligned DEF SectorsBegin
  <1>5. CASE end > begin
    <2>1. end - 1 \in Pages
      BY <1>1, <1>2, <1>5 DEF Pages
    <2>2. end - 1 \in Nat /\ SectorsEnd(begin, end) = SectorEnd(end - 1)
      BY <1>5, <1>1 DEF SectorsEnd
    <2>3. /\ SectorEnd(end - 1) \in Nat /\ end - 1 < SectorEnd(end - 1)
          /\ SectorBegin(SectorEnd(end - 1)) = SectorEnd(end - 1)
          /\ SectorEnd(end - 1) <= TotalPages
      BY <2>1, <2>2, SectorHoldsPage, SectorsAligned, SectorEndInChip
    <2> QED BY <1>1, <1>2, <1>3, <1>4, <1>5, <2>2, <2>3 DEF Pages
  <1>6. CASE end <= begin
    <2>1. SectorsEnd(begin, end) = SectorsBegin(begin)
      BY <1>1, <1>6 DEF SectorsEnd
    <2>2. begin .. end - 1 = {} /\ ~(end > begin)
      BY <1>1, <1>6
    <2> QED BY <1>1, <1>2, <1>3, <1>4, <2>1, <2>2 DEF Pages
  <1> QED BY <1>1, <1>5, <1>6

\* The pages of data that begins and ends with a sector are those of its sectors.
LEMMA PagesOfSectors ==
  ASSUME NEW offset \in Int, NEW size \in Int, ValidOffsetSize(offset, size),
         offset % SectorSize = 0, size % SectorSize = 0,
         NEW begin, begin = RangeBegin(offset), NEW end, end = RangeEnd(offset, size)
  PROVE  /\ SectorsBegin(begin) = begin
         /\ size \div PageSize = SectorsEnd(begin, end) - begin
         /\ offset = PageSize * begin /\ size = PageSize * (size \div PageSize)
  <1> DEFINE a == offset \div SectorSize
             b == size \div SectorSize
  <1>1. /\ PageSize \in Nat \ {0} /\ PagesPerSector \in Nat \ {0}
        /\ SectorSize = PageSize * PagesPerSector /\ SectorSize \in Nat \ {0}
        /\ offset \in Nat /\ size \in Nat
    BY LayoutAssumption DEF ValidOffsetSize, SectorSize
  <1>2. a \in Nat /\ b \in Nat /\ offset = SectorSize * a /\ size = SectorSize * b
    <2>1. a \in Nat /\ offset = SectorSize * a + (offset % SectorSize)
      BY <1>1, Division
    <2>2. b \in Nat /\ size = SectorSize * b + (size % SectorSize)
      BY <1>1, Division
    <2> HIDE DEF a, b
    <2>3. SectorSize * a \in Nat /\ SectorSize * b \in Nat
      BY <1>1, <2>1, <2>2
    <2> QED BY <2>1, <2>2, <2>3
  <1> HIDE DEF a, b
  <1>3. \A m \in Nat : /\ PagesPerSector * m \in Nat
                       /\ SectorSize * m = PageSize * (PagesPerSector * m)
    BY <1>1
  <1>4. \A m \in Nat : (PageSize * m) \div PageSize = m
    <2>1. ASSUME NEW m \in Nat PROVE (PageSize * m + 0) \div PageSize = m
      BY DivisionUnique, <1>1
    <2> QED BY <2>1, <1>1
  <1>5. \A m \in Nat : (PagesPerSector * m) % PagesPerSector = 0
    <2>1. ASSUME NEW m \in Nat PROVE (PagesPerSector * m + 0) % PagesPerSector = 0
      BY DivisionUnique, <1>1
    <2> QED BY <2>1, <1>1
  <1>6. begin = PagesPerSector * a /\ size \div PageSize = PagesPerSector * b
    BY <1>2, <1>3, <1>4 DEF RangeBegin
  <1>7. SectorsBegin(begin) = begin
    BY <1>2, <1>3, <1>5, <1>6 DEF SectorsBegin, SectorBegin
  <1>8. offset = PageSize * begin /\ size = PageSize * (size \div PageSize)
    BY <1>2, <1>3, <1>6
  <1>9. CASE b = 0
    <2>1. size = 0
      BY <1>1, <1>2, <1>9
    <2>2. end = begin
      BY <2>1 DEF RangeEnd, RangeBegin
    <2>3. begin \in Nat
      BY <1>2, <1>3, <1>6
    <2> QED BY <1>1, <1>6, <1>7, <1>9, <1>8, <2>2, <2>3 DEF SectorsEnd
  <1>10. CASE b > 0
    <2> DEFINE c == a + b - 1
               n == PagesPerSector * c + (PagesPerSector - 1)
    <2>1. c \in Nat /\ PagesPerSector * c \in Nat /\ n \in Nat
      BY <1>1, <1>2, <1>10
    <2>2. offset + size - 1 = PageSize * n + (PageSize - 1)
      BY <1>1, <1>2, <1>10
    <2>3. size > 0
      BY <1>1, <1>2, <1>10
    <2> HIDE DEF n
    <2>4. (offset + size - 1) \div PageSize = n
      <3>1. PageSize - 1 \in 0 .. PageSize - 1
        BY <1>1
      <3>2. (PageSize * n + (PageSize - 1)) \div PageSize = n
        BY <1>1, <2>1, <3>1, DivisionUnique
      <3> QED BY <2>2, <3>2
    <2>5. end = n + 1
      BY <2>3, <2>4 DEF RangeEnd
    <2> HIDE DEF c
    <2>6. n % PagesPerSector = PagesPerSector - 1
      <3>1. PagesPerSector - 1 \in 0 .. PagesPerSector - 1
        BY <1>1
      <3>2. (PagesPerSector * c + (PagesPerSector - 1)) % PagesPerSector = PagesPerSector - 1
        BY <1>1, <2>1, <3>1, DivisionUnique
      <3> QED BY <3>2 DEF n
    <2>7. SectorEnd(n) = PagesPerSector * c + PagesPerSector
      BY <1>1, <2>1, <2>6 DEF SectorEnd, SectorBegin, n
    <2>8. PagesPerSector * c + PagesPerSector = begin + PagesPerSector * b
      BY <1>1, <1>2, <1>6 DEF c
    <2>9. begin \in Nat /\ PagesPerSector * b \in Nat /\ PagesPerSector * b > 0
      BY <1>1, <1>2, <1>3, <1>6, <1>10
    <2>10. end > begin /\ end - 1 = n
      BY <1>1, <2>1, <2>5, <2>8, <2>9 DEF n
    <2>11. SectorsEnd(begin, end) = begin + PagesPerSector * b
      BY <2>7, <2>8, <2>10 DEF SectorsEnd
    <2> QED BY <1>6, <1>7, <1>8, <2>9, <2>11
  <1> QED BY <1>2, <1>9, <1>10

(***************************************************************************)
(* The shortcut of Write (io.go:54): offset and size are multiples of the  *)
(* sector size exactly when the data is all of the bytes of the sectors    *)
(* that are erased, from their first one on, so that nothing of them needs *)
(* to be read before.                                                      *)
(***************************************************************************)
THEOREM WholeSectors ==
  ASSUME NEW offset \in Int, NEW size \in Int, ValidOffsetSize(offset, size),
         NEW begin, begin = RangeBegin(offset), NEW end, end = RangeEnd(offset, size)
  PROVE  offset % SectorSize = 0 /\ size % SectorSize = 0
           <=> /\ offset = PageSize * SectorsBegin(begin)
               /\ size = PageSize * (SectorsEnd(begin, end) - SectorsBegin(begin))
  <1>1. ASSUME offset % SectorSize = 0, size % SectorSize = 0
        PROVE  /\ offset = PageSize * SectorsBegin(begin)
               /\ size = PageSize * (SectorsEnd(begin, end) - SectorsBegin(begin))
    BY <1>1, PagesOfSectors
  <1>2. ASSUME offset = PageSize * SectorsBegin(begin),
               size = PageSize * (SectorsEnd(begin, end) - SectorsBegin(begin))
        PROVE  offset % SectorSize = 0 /\ size % SectorSize = 0
    <2> DEFINE first == SectorsBegin(begin)
               last == SectorsEnd(begin, end)
    <2>1. /\ first \in Pages /\ last \in Nat /\ first <= last
          /\ SectorBegin(first) = first /\ SectorBegin(last) = last
      BY SectorsInChip
    <2>2. /\ PageSize \in Nat \ {0} /\ PagesPerSector \in Nat \ {0}
          /\ SectorSize = PageSize * PagesPerSector /\ SectorSize \in Nat \ {0}
          /\ first \in Nat
      BY <2>1, LayoutAssumption DEF SectorSize, Pages
    <2> HIDE DEF first, last
    <2>3. ASSUME NEW q \in Nat, SectorBegin(q) = q
          PROVE  q \div PagesPerSector \in Nat /\ q = PagesPerSector * (q \div PagesPerSector)
      <3>1. /\ q \div PagesPerSector \in Nat /\ q % PagesPerSector \in 0 .. PagesPerSector - 1
            /\ q = PagesPerSector * (q \div PagesPerSector) + (q % PagesPerSector)
        BY <2>2, Division
      <3>2. q % PagesPerSector = 0
        BY <2>3, <3>1 DEF SectorBegin
      <3>3. PagesPerSector * (q \div PagesPerSector) \in Nat
        BY <2>2, <3>1
      <3> QED BY <3>1, <3>2, <3>3
    <2>4. PICK a \in Nat, b \in Nat : first = PagesPerSector * a /\ last = PagesPerSector * b
      BY <2>1, <2>2, <2>3
    <2>5. offset = SectorSize * a + 0
      BY <1>2, <2>2, <2>4 DEF first
    <2>6. PICK c \in Nat : c = b - a
      <3>1. a <= b
        BY <2>1, <2>2, <2>4
      <3> QED BY <3>1
    <2>7. size = SectorSize * c + 0
      BY <1>2, <2>2, <2>4, <2>6 DEF first, last
    <2>8. (SectorSize * a + 0) % SectorSize = 0 /\ (SectorSize * c + 0) % SectorSize = 0
      <3>1. 0 \in 0 .. SectorSize - 1
        BY <2>2
      <3> QED BY <2>2, <3>1, DivisionUnique
    <2> QED BY <2>5, <2>7, <2>8
  <1> QED BY <1>1, <1>2

------------------------------------------------------------------------------
(* The chip keeps its types *)

\* Numbers and pages of the layout that are used everywhere.
LEMMA PageTypes ==
  /\ ErasedPage \in PageContent /\ GarbagePage \in PageContent
  /\ \A q \in PageContent : \A i \in InPage : q[i] \in Byte
  /\ DOMAIN ModeOf = {"readArray", "status", "siliconID", "loadBytePage"}
  /\ \A op \in DOMAIN ModeOf : ModeOf[op] \in {"array", "status", "id", "load"}
  /\ 0 \in Pages /\ Pages \subseteq Nat
  <1>1. TotalPages \in Nat /\ TotalPages > 0
    BY LayoutAssumption DEF TotalPages
  <1> QED
    BY <1>1, ChipAssumption DEF ErasedPage, GarbagePage, PageContent, ModeOf, Pages

\* A command without an address is a command of the chip.
LEMMA CommandTypes ==
  /\ \A op \in DOMAIN ModeOf : Command(op) \in Commands
  /\ Command("erase") \in Commands
  /\ \A q \in Pages, op \in {"sectorErase", "chipErase", "programPage"} :
       [op |-> op, page |-> q] \in Commands
  BY PageTypes DEF Command, Commands

\* Mode commands keep the types of the chip.
LEMMA WriteModeTyped ==
  ASSUME ChipTypeOK, NEW op \in DOMAIN ModeOf, WriteMode(op)
  PROVE  ChipTypeOK'
  BY PageTypes, CommandTypes DEF ChipTypeOK, WriteMode

\* The setup of an erase keeps the types of the chip.
LEMMA WriteSetupTyped ==
  ASSUME ChipTypeOK, NEW op \in {"sectorErase", "chipErase"}, NEW q \in Pages, WriteSetup(op, q)
  PROVE  ChipTypeOK'
  BY CommandTypes DEF ChipTypeOK, WriteSetup

\* The start of an operation of the WSM keeps the types it touches.
LEMMA StartTyped ==
  ASSUME ChipTypeOK, NEW kind \in {"erase", "program"}, NEW pages \in SUBSET Pages,
         NEW content \in PageContent, Start(kind, pages, content)
  PROVE  /\ array' \in [Pages -> PageContent]
         /\ mode' \in {"array", "status", "id", "load"}
         /\ working' \in {"no", "erase", "program"}
         /\ target' \subseteq Pages
         /\ goal' \in PageContent
  BY PageTypes DEF ChipTypeOK, Start

\* cmdErase keeps the types of the chip.
LEMMA WriteEraseTyped ==
  ASSUME ChipTypeOK, WriteErase
  PROVE  ChipTypeOK'
  <1>1. SetupPages(cir) \subseteq Pages
    BY DEF SetupPages
  <1>2. cir' \in Commands
    BY CommandTypes DEF WriteErase
  <1>3. CASE Start("erase", SetupPages(cir), ErasedPage)
    BY <1>1, <1>2, <1>3, StartTyped, PageTypes DEF WriteErase, ChipTypeOK
  <1>4. CASE UNCHANGED <<array, mode, working, target, goal>>
    BY <1>2, <1>4 DEF WriteErase, ChipTypeOK
  <1> QED BY <1>3, <1>4 DEF WriteErase

\* The bitwise and of two bytes is a byte.
LEMMA AndTyped == \A a, b \in Byte : And(a, b) \in Byte
  BY ChipAssumption DEF And

\* The command to program a page keeps the types of the chip.
LEMMA WriteProgramTyped ==
  ASSUME ChipTypeOK, NEW q \in Pages, WriteProgram(q)
  PROVE  ChipTypeOK'
  <1> DEFINE content == [i \in InPage |-> And(array[q][i], page[i])]
  <1>1. content \in PageContent
    <2>1. \A i \in InPage : array[q][i] \in Byte /\ page[i] \in Byte
      BY PageTypes DEF ChipTypeOK
    <2> QED BY <2>1, AndTyped DEF PageContent
  <1>2. cir' \in Commands
    BY CommandTypes DEF WriteProgram
  <1>3. CASE Start("program", {q}, content) /\ page' = ErasedPage
    <2> HIDE DEF content
    <2> QED BY <1>1, <1>2, <1>3, StartTyped, PageTypes DEF WriteProgram, ChipTypeOK
  <1>4. CASE UNCHANGED <<array, page, mode, working, target, goal>>
    BY <1>2, <1>4 DEF WriteProgram, ChipTypeOK
  <1> QED BY <1>3, <1>4 DEF WriteProgram

\* Writes of data and the clear of the status keep the types of the chip.
LEMMA WriteDataTyped ==
  ASSUME ChipTypeOK, NEW from, NEW to, NEW data \in PageContent, WriteData(from, to, data)
  PROVE  ChipTypeOK'
  <1> DEFINE written(i) == IF PageClearsOnly THEN And(page[i], data[i]) ELSE data[i]
             loaded == [i \in InPage |-> IF from <= i /\ i < to THEN written(i) ELSE page[i]]
  <1>1. \A i \in InPage : page[i] \in Byte /\ data[i] \in Byte
    BY PageTypes DEF ChipTypeOK
  <1>2. loaded \in PageContent
    BY <1>1, AndTyped DEF PageContent
  <1>3. page' = IF mode # "load" THEN page ELSE loaded
    BY DEF WriteData
  <1>4. page' \in PageContent
    BY <1>2, <1>3 DEF ChipTypeOK
  <1> QED BY <1>4 DEF WriteData, ChipTypeOK, DefaultOk

\* The end of an operation of the WSM keeps the types of the chip.
LEMMA FinishTyped ==
  ASSUME ChipTypeOK, NEW ok \in BOOLEAN, Finish(ok)
  PROVE  ChipTypeOK'
  <1>1. OkBitOf[working] \in OkBits
    BY DEF Finish, ChipTypeOK, OkBitOf, OkBits
  <1>2. array' \in [Pages -> PageContent]
    BY DEF Finish, ChipTypeOK
  <1>3. okBits' \subseteq OkBits
    BY <1>1 DEF Finish, ChipTypeOK
  <1> QED BY <1>2, <1>3, PageTypes DEF Finish, ChipTypeOK

------------------------------------------------------------------------------
(* What is read and what is to be written has the types of pages *)

\* A place in the chip is a place in one of its pages.
LEMMA PlaceInPages ==
  ASSUME NEW place \in Nat, place < ChipSize
  PROVE  place \div PageSize \in Pages /\ place % PageSize \in InPage
  <1>1. ValidOffsetSize(place, 0)
    BY LayoutAssumption DEF ValidOffsetSize, ChipSize, SectorSize
  <1>2. RangeBegin(place) \in Pages
    BY <1>1, SectorsInChip
  <1>3. place % PageSize \in 0 .. PageSize - 1
    BY Division, LayoutAssumption
  <1> QED BY <1>2, <1>3 DEF RangeBegin, InPage

\* A byte of a burst is a byte, wherever the burst begins.
LEMMA ArrayByteTyped ==
  ASSUME ChipTypeOK, NEW address \in Nat, NEW j \in Nat
  PROVE  ArrayByte(address, j) \in Byte
  <1> DEFINE block == ReadPageBoundary * PageSize
             first == address * ChipUnit
             place == (first - (first % block)) + ((first + j) % block)
  <1>1. block \in Nat \ {0} /\ first \in Nat
    BY LayoutAssumption, ChipAssumption DEF Units
  <1>2. first + j \in Nat
    BY <1>1
  <1> HIDE DEF block, first
  <1>3. first - (first % block) \in Nat
    <2>1. first = block * (first \div block) + (first % block)
          /\ first \div block \in Nat /\ first % block \in 0 .. block - 1
      BY <1>1, Division
    <2>2. block * (first \div block) \in Nat
      BY <1>1, <2>1
    <2> QED BY <1>1, <2>1, <2>2
  <1>4. (first + j) % block \in Nat
    <2> DEFINE last == first + j
    <2> HIDE DEF last
    <2>1. last \in Nat
      BY <1>2 DEF last
    <2>2. last % block \in 0 .. block - 1
      BY <1>1, <2>1, Division
    <2> QED BY <2>2, <1>1 DEF last
  <1>5. place \in Nat
    BY <1>3, <1>4
  <1>6. ArrayByte(address, j) = IF mode = "array" /\ working = "no" /\ place < ChipSize
                                  THEN array[place \div PageSize][place % PageSize]
                                  ELSE Garbage
    BY DEF ArrayByte, block, first
  <1> HIDE DEF place
  <1>7. place < ChipSize => array[place \div PageSize][place % PageSize] \in Byte
    BY <1>5, PlaceInPages, PageTypes DEF ChipTypeOK
  <1> QED BY <1>6, <1>7, ChipAssumption

\* A burst returns as many pages as it was asked for.
LEMMA BurstPagesTyped ==
  ASSUME ChipTypeOK, NEW address \in Nat, NEW count \in Nat
  PROVE  /\ BurstPages(address, count) \in Seq(PageContent)
         /\ Len(BurstPages(address, count)) = count
  <1>1. \A k \in 1 .. count, i \in InPage : ArrayByte(address, (k - 1) * PageSize + i) \in Byte
    <2>1. ASSUME NEW k \in 1 .. count, NEW i \in InPage
          PROVE  (k - 1) * PageSize + i \in Nat
      BY LayoutAssumption DEF InPage
    <2> QED BY <2>1, ArrayByteTyped
  <1> DEFINE content(k) == [i \in InPage |-> ArrayByte(address, (k - 1) * PageSize + i)]
  <1>2. \A k \in 1 .. count : content(k) \in PageContent
    BY <1>1 DEF PageContent
  <1>3. BurstPages(address, count) = [k \in 1 .. count |-> content(k)]
    BY DEF BurstPages
  <1> HIDE DEF content
  <1> QED BY <1>2, <1>3

\* The arguments of a call are integers and bytes.
LEMMA CallTypes ==
  ASSUME NEW c \in AnyCall
  PROVE  /\ c.op \in {"new", "siliconID", "status", "clearStatus", "read", "write"}
         /\ c.offset \in Int /\ c.size \in Nat /\ c.data \in Seq(Byte)
         /\ c.op = "write" => c.size = Len(c.data)
  <1>1. CASE c \in Requests
    BY <1>1, FlashAssumption
  <1>2. CASE c \in {Plain(op) : op \in {"new", "siliconID", "status", "clearStatus"}}
    <2>1. PICK op \in {"new", "siliconID", "status", "clearStatus"} : c = Plain(op)
      BY <1>2
    <2>2. c.data = <<>>
      BY <2>1 DEF Plain
    <2> QED BY <2>1, <2>2 DEF Plain
  <1> QED BY <1>1, <1>2 DEF AnyCall, Calls

\* A request is a call.
LEMMA RequestTypes == Requests \subseteq AnyCall
  BY DEF AnyCall, Calls

(***************************************************************************)
(* The page bounds of a call with valid arguments.                         *)
(***************************************************************************)
LEMMA CallRange ==
  ASSUME call \in AnyCall, ValidOffsetSize(call.offset, call.size)
  PROVE  /\ Begin \in Pages /\ End \in Nat /\ Begin <= End
         /\ SBegin \in Pages /\ SEnd \in Nat
         /\ SBegin <= SEnd /\ SEnd <= TotalPages
         /\ SectorBegin(SBegin) = SBegin /\ SectorBegin(SEnd) = SEnd
         /\ ReadFrom \in Nat /\ ReadTo \in Nat /\ ReadFrom <= ReadTo
         /\ TotalPages \in Nat
  <1>1. call.offset \in Int /\ call.size \in Int
    BY CallTypes
  <1>2. /\ Begin \in Pages /\ End \in Nat /\ Begin <= End
        /\ SBegin \in Pages /\ SEnd \in Nat
        /\ SBegin <= SEnd /\ SEnd <= TotalPages
        /\ SectorBegin(SBegin) = SBegin /\ SectorBegin(SEnd) = SEnd
    BY <1>1, SectorsInChip DEF Begin, End, SBegin, SEnd
  <1>3. TotalPages \in Nat
    BY LayoutAssumption DEF TotalPages
  <1> QED BY <1>2, <1>3, PageTypes DEF ReadFrom, ReadTo

\* Data of whole sectors is cut into the pages of these sectors.
LEMMA ChunksTyped ==
  ASSUME NEW data \in Seq(Byte)
  PROVE  Chunks(data) \in Seq(PageContent) /\ Len(Chunks(data)) = Len(data) \div PageSize
  <1> DEFINE n == Len(data) \div PageSize
             chunk(k) == [i \in InPage |-> data[(k - 1) * PageSize + i + 1]]
  <1>1. n \in Nat /\ PageSize * n <= Len(data)
    <2>1. Len(data) \in Nat
      OBVIOUS
    <2>2. n \in Nat /\ Len(data) = PageSize * n + (Len(data) % PageSize)
          /\ Len(data) % PageSize \in 0 .. PageSize - 1
      BY <2>1, Division, LayoutAssumption
    <2> QED BY <2>1, <2>2, LayoutAssumption
  <1> HIDE DEF n
  <1>2. ASSUME NEW k \in 1 .. n, NEW i \in InPage
        PROVE  (k - 1) * PageSize + i + 1 \in 1 .. Len(data)
    <2>1. PageSize * k <= PageSize * n /\ PageSize * k \in Nat
      BY <1>1, LayoutAssumption
    <2>2. (k - 1) * PageSize = PageSize * k - PageSize /\ (k - 1) * PageSize \in Nat
      BY <1>1, LayoutAssumption
    <2> QED BY <1>1, <2>1, <2>2, LayoutAssumption DEF InPage
  <1>3. \A k \in 1 .. n : chunk(k) \in PageContent
    BY <1>2 DEF PageContent
  <1>4. Chunks(data) = [k \in 1 .. n |-> chunk(k)]
    BY DEF Chunks, n
  <1> HIDE DEF chunk
  <1> QED BY <1>1, <1>3, <1>4 DEF n

\* Data laid over pages gives as many pages.
LEMMA OverlayTyped ==
  ASSUME NEW pages \in Seq(PageContent), NEW skip \in Nat, NEW data \in Seq(Byte)
  PROVE  /\ Overlay(pages, skip, data) \in Seq(PageContent)
         /\ Len(Overlay(pages, skip, data)) = Len(pages)
  <1> DEFINE place(k, i) == (k - 1) * PageSize + i - skip
             byte(k, i) == IF place(k, i) >= 0 /\ place(k, i) < Len(data)
                             THEN data[place(k, i) + 1] ELSE pages[k][i]
             content(k) == [i \in InPage |-> byte(k, i)]
  <1>1. ASSUME NEW k \in 1 .. Len(pages), NEW i \in InPage
        PROVE  byte(k, i) \in Byte
    <2>1. place(k, i) \in Int
      BY LayoutAssumption DEF InPage
    <2> HIDE DEF place
    <2>2. pages[k] \in PageContent
      OBVIOUS
    <2>3. pages[k][i] \in Byte
      BY <2>2, PageTypes
    <2> QED BY <2>1, <2>3
  <1>2. \A k \in 1 .. Len(pages) : content(k) \in PageContent
    BY <1>1 DEF PageContent
  <1>3. Overlay(pages, skip, data) = [k \in 1 .. Len(pages) |-> content(k)]
    BY DEF Overlay
  <1>4. Len(pages) \in Nat
    OBVIOUS
  <1> HIDE DEF content
  <1> QED BY <1>2, <1>3, <1>4

------------------------------------------------------------------------------
(* Type correctness *)

\* The invariant holds at the start.
LEMMA InitIInv == Init => IInv
  <1> SUFFICES ASSUME Init PROVE IInv
    OBVIOUS
  <1>1. ChipTypeOK
    BY PageTypes, CommandTypes, FlashAssumption DEF Init, ChipInit, ChipTypeOK, ModeOf, DefaultOk
  <1>2. DriverTypeOK
    <2>1. /\ pc \in Labels /\ result \in Results
          /\ unit \in Units \cup {0} /\ p \in Nat /\ w \in Nat
      BY DEF Init, Labels, Results
    <2>2. call \in AnyCall /\ buf \in Seq(PageContent)
      BY DEF Init, AnyCall
    <2>3. calls \in 0 .. MaxCalls /\ old \in [Pages -> PageContent] /\ limbo \subseteq Int
      BY FlashAssumption DEF Init
    <2> QED BY <2>1, <2>2, <2>3 DEF Init, DriverTypeOK
  <1>3. Control /\ Buffer /\ Modes /\ Wsm /\ Limbo
    BY DEF Init, ChipInit, Control, Buffer, Modes, Wsm, Limbo, IDLabels, StatusLabels,
           ClearLabels, ReadLabels, EraseLabels, LoadLabels
  <1> QED BY <1>1, <1>2, <1>3 DEF IInv, TypeOK

\* Every step keeps the types of the chip.
LEMMA ChipTypeStep == IInv /\ [Next]_vars => ChipTypeOK'
  <1> SUFFICES ASSUME IInv, [Next]_vars PROVE ChipTypeOK'
    OBVIOUS
  <1> USE DEF IInv, TypeOK
  <1>0. UNCHANGED chipVars => ChipTypeOK'
    BY DEF chipVars, ChipTypeOK
  <1>1. CASE UNCHANGED vars
    BY <1>0, <1>1 DEF vars
  <1>2. CASE Calling
    BY <1>0, <1>2 DEF Calling, CallNew, CallRegister, CallRead, CallWrite, CallInvalid, NewCall
  <1>3. CASE Registers
    <2>1. CASE SiliconIDCommand \/ StatusCommand \/ ClearStatusCommand \/ NewReadArray
      BY <1>0, <2>1, WriteModeTyped, PageTypes
         DEF SiliconIDCommand, StatusCommand, ClearStatusCommand, NewReadArray, Pi
    <2>2. CASE SiliconIDRead \/ StatusRead
      BY <1>0, <2>2 DEF SiliconIDRead, StatusRead
    <2>3. CASE ClearStatusWrite
      BY <1>0, <2>3, WriteDataTyped, PageTypes DEF ClearStatusWrite, Pi, clearStatus
    <2> QED BY <1>3, <2>1, <2>2, <2>3 DEF Registers
  <1>4. CASE Reading
    <2>1. CASE ReadArrayCommand
      BY <1>0, <2>1, WriteModeTyped, PageTypes DEF ReadArrayCommand, Pi
    <2>2. CASE ReadInterrupted \/ ReadBurst \/ ReadReturn \/ PrepareSectors \/ Panic
      BY <1>0, <2>2 DEF ReadInterrupted, ReadBurst, ReadReturn, PrepareSectors, Panic
    <2> QED BY <1>4, <2>1, <2>2 DEF Reading
  <1>5. CASE Polling
    <2>1. PICK kind \in {"erase", "program"} :
            PollStatus(kind) \/ PollAbandoned(kind) \/ ClearAndCheck(kind)
      BY <1>5 DEF Polling
    <2>2. CASE PollStatus(kind) \/ PollAbandoned(kind)
      BY <1>0, <2>2 DEF PollStatus, PollAbandoned
    <2>3. CASE ClearAndCheck(kind)
      BY <1>0, <2>3, WriteDataTyped, PageTypes DEF ClearAndCheck, clearStatus
    <2> QED BY <2>1, <2>2, <2>3
  <1>6. CASE Writing
    <2> DEFINE range == ValidOffsetSize(call.offset, call.size)
    <2>1. CASE EraseSetup
      <3>1. call \in AnyCall /\ ValidOffsetSize(call.offset, call.size) /\ p \in Nat
        BY <2>1 DEF EraseSetup, Control, DriverTypeOK, EraseLabels
      <3>2. p \in Pages
        BY <2>1, <3>1, CallRange DEF EraseSetup, Pages
      <3>3. (IF WholeChip THEN 0 ELSE p) \in Pages
        BY <3>2, PageTypes
      <3> QED BY <1>0, <2>1, <3>3, WriteSetupTyped DEF EraseSetup
    <2>2. CASE EraseCommand
      BY <1>0, <2>2, WriteEraseTyped DEF EraseCommand, Pi
    <2>3. CASE ErasesDone \/ LoadWordsDone \/ WriteReturn
      BY <1>0, <2>3 DEF ErasesDone, LoadWordsDone, WriteReturn
    <2>4. CASE LoadCommand
      BY <1>0, <2>4, WriteModeTyped, PageTypes DEF LoadCommand, Pi
    <2>5. ASSUME pc \in LoadLabels
          PROVE  p \in Pages /\ PageToLoad \in PageContent
      <3>1. /\ call \in AnyCall /\ ValidOffsetSize(call.offset, call.size) /\ p \in Nat
            /\ call.op = "write" /\ SBegin <= p /\ p < SEnd
        BY <2>5 DEF Control, DriverTypeOK, LoadLabels, Limbo
      <3>2. p \in Pages
        BY <3>1, CallRange DEF Pages
      <3>3. Len(buf) = SEnd - SBegin /\ buf \in Seq(PageContent)
        BY <2>5, <3>1 DEF Buffer, DriverTypeOK
      <3>4. SBegin \in Nat /\ SEnd \in Nat
        BY <3>1, CallRange, PageTypes
      <3>5. p - SBegin + 1 \in 1 .. Len(buf)
        BY <3>1, <3>3, <3>4
      <3> QED BY <3>2, <3>3, <3>5 DEF PageToLoad
    <2>6. CASE LoadBurst
      BY <1>0, <2>5, <2>6, WriteDataTyped DEF LoadBurst, LoadLabels
    <2>7. CASE LoadWord
      BY <1>0, <2>5, <2>7, WriteDataTyped DEF LoadWord, LoadLabels, Pi
    <2>8. CASE ProgramCommand
      BY <1>0, <2>5, <2>8, WriteProgramTyped DEF ProgramCommand, LoadLabels, Pi
    <2> QED BY <1>6, <2>1, <2>2, <2>3, <2>4, <2>6, <2>7, <2>8 DEF Writing
  <1>7. CASE Interrupt \/ Timeout \/ Kill
    BY <1>0, <1>7 DEF Interrupt, Timeout, Kill
  <1>8. CASE WsmDone
    BY <1>8, FinishTyped DEF WsmDone
  <1> QED BY <1>1, <1>2, <1>3, <1>4, <1>5, <1>6, <1>7, <1>8 DEF Next, Driver

\* A status read is a set of status bits.
LEMMA StatusReadsTyped ==
  ASSUME ChipTypeOK
  PROVE  \A s \in StatusReads : s \subseteq StatusBits
  <1>1. CASE working = "no"
    BY <1>1 DEF ChipTypeOK, StatusReads, StatusRegister, StatusBits
  <1>2. CASE working \in {"erase", "program"}
    <2>1. BusyBitOf[working] \in StatusBits
      BY <1>2 DEF BusyBitOf, StatusBits
    <2> QED BY <1>2, <2>1 DEF ChipTypeOK, StatusReads, StatusRegister, StatusBits
  <1> QED BY <1>1, <1>2 DEF ChipTypeOK

\* The end of a burst is a page number.
LEMMA ReadBurstEndNat ==
  ASSUME NEW q \in Nat
  PROVE  ReadBurstEnd(q) \in Nat /\ q < ReadBurstEnd(q)
  <1>1. q % ReadPageBoundary \in 0 .. ReadPageBoundary - 1
    BY Division, LayoutAssumption
  <1>2. q % ReadPageBoundary <= q
    <2>1. /\ q = ReadPageBoundary * (q \div ReadPageBoundary) + (q % ReadPageBoundary)
          /\ q \div ReadPageBoundary \in Nat
      BY Division, LayoutAssumption
    <2>2. ReadPageBoundary * (q \div ReadPageBoundary) \in Nat
      BY <2>1, LayoutAssumption
    <2> QED BY <1>1, <2>1, <2>2
  <1> QED BY <1>1, <1>2, LayoutAssumption DEF ReadBurstEnd

\* Every step keeps the types of the driver.
LEMMA DriverTypeStep == IInv /\ [Next]_vars => DriverTypeOK'
  <1> SUFFICES ASSUME IInv, [Next]_vars PROVE DriverTypeOK'
    OBVIOUS
  <1> USE DEF IInv, TypeOK, localVars, ctxVars, callVars, history
  <1>r. ASSUME NEW r \in Results, Return(r) PROVE DriverTypeOK'
    <2>1. pc' \in Labels
      BY <1>r DEF Return, Leave, Labels
    <2>2. buf' \in Seq(PageContent)
      BY <1>r DEF Return
    <2> QED BY <1>r, <2>1, <2>2 DEF Return, Leave, DriverTypeOK
  <1>g. ASSUME NEW l \in Labels, Goto(l) PROVE DriverTypeOK'
    BY <1>g DEF Goto, Step, DriverTypeOK
  <1>o. {"ok", "io", "cancelled", "deadline", "NOK"} \subseteq Results
    BY DEF Results
  <1>1. CASE UNCHANGED vars
    BY <1>1 DEF vars, driverVars, DriverTypeOK
  <1>2. CASE Calling
    <2>c. ASSUME NEW c \in AnyCall, NewCall(c), pc' \in Labels, buf' \in Seq(PageContent)
          PROVE  DriverTypeOK'
      <3>1. calls' \in 0 .. MaxCalls /\ old' \in [Pages -> PageContent]
        BY <2>c, FlashAssumption DEF NewCall, DriverTypeOK, ChipTypeOK
      <3>2. result' \in Results
        BY <2>c DEF NewCall, Results
      <3> QED BY <2>c, <3>1, <3>2 DEF NewCall, DriverTypeOK
    <2>1. CASE CallNew
      <3>1. Plain("new") \in AnyCall
        BY DEF AnyCall
      <3> QED BY <2>1, <2>c, <3>1 DEF CallNew, Labels
    <2>2. CASE CallRegister
      <3>1. PICK op \in {"siliconID", "status", "clearStatus"} :
              /\ NewCall(Plain(op))
              /\ pc' = [siliconID |-> "id1", status |-> "status1", clearStatus |-> "clear1"][op]
        BY <2>2 DEF CallRegister
      <3>2. Plain(op) \in AnyCall /\ pc' \in Labels
        BY <3>1 DEF AnyCall, Calls, Labels
      <3> QED BY <2>2, <2>c, <3>1, <3>2 DEF CallRegister
    <2>3. CASE CallRead
      BY <2>3, <2>c, RequestTypes DEF CallRead, Labels
    <2>4. CASE CallWrite
      <3>1. PICK r \in Requests :
              /\ NewCall(r)
              /\ \/ pc' = "clear1" /\ buf' = Chunks(r.data)
                 \/ pc' = "readArray" /\ buf' = <<>>
        BY <2>4 DEF CallWrite
      <3>2. r \in AnyCall /\ pc' \in Labels
        BY <3>1, RequestTypes DEF Labels
      <3>3. buf' \in Seq(PageContent)
        <4>1. r.data \in Seq(Byte)
          BY <3>2, CallTypes
        <4>2. Chunks(r.data) \in Seq(PageContent)
          BY <4>1, ChunksTyped
        <4>3. <<>> \in Seq(PageContent)
          OBVIOUS
        <4>4. buf' = Chunks(r.data) \/ buf' = <<>>
          BY <3>1
        <4> QED
          <5> HIDE DEF IInv, TypeOK
          <5> QED BY <4>2, <4>3, <4>4
      <3> QED BY <2>c, <3>1, <3>2, <3>3
    <2>5. CASE CallInvalid
      <3>1. call' \in AnyCall /\ calls' \in 0 .. MaxCalls /\ buf' \in Seq(PageContent)
        <4>1. call' \in AnyCall
          BY <2>5, RequestTypes DEF CallInvalid
        <4>2. calls' \in 0 .. MaxCalls
          BY <2>5, FlashAssumption DEF CallInvalid, DriverTypeOK
        <4>3. buf' \in Seq(PageContent)
          BY <2>5 DEF CallInvalid
        <4> QED BY <4>1, <4>2, <4>3
      <3>2. result' \in Results
        BY <2>5 DEF CallInvalid, Results
      <3> QED BY <2>5, <3>1, <3>2 DEF CallInvalid, DriverTypeOK
    <2> QED BY <1>2, <2>1, <2>2, <2>3, <2>4, <2>5 DEF Calling
  <1>3. CASE Registers
    <2>1. CASE SiliconIDCommand \/ StatusCommand \/ ClearStatusCommand \/ ClearStatusWrite
      <3>1. \/ \E l \in Labels : Goto(l)
            \/ \E r \in Results : Return(r)
        BY <2>1, <1>o DEF SiliconIDCommand, StatusCommand, ClearStatusCommand,
           ClearStatusWrite, Pi, Labels
      <3> QED BY <3>1, <1>g, <1>r
    <2>2. CASE SiliconIDRead
      <3>1. CASE Return("ok") \/ Return("io")
        BY <3>1, <1>r, <1>o
      <3>2. CASE /\ pc' = "newArray" /\ unit' = LayoutRead
                 /\ UNCHANGED <<result, localVars, ctxVars, callVars, history>>
        BY <3>2, ChipAssumption DEF LayoutRead, Units, DriverTypeOK, Labels
      <3> QED BY <2>2, <3>1, <3>2 DEF SiliconIDRead
    <2>3. CASE NewReadArray
      <3>1. CASE Return("ok")
        BY <3>1, <1>r, <1>o
      <3>2. CASE Leave("io") /\ unit' = 0 /\ buf' = <<>> /\ UNCHANGED <<status, limbo>>
        <4>1. pc' \in Labels /\ buf' \in Seq(PageContent)
          BY <3>2 DEF Leave, Labels
        <4> QED BY <3>2, <4>1, <1>o DEF Leave, DriverTypeOK
      <3> QED BY <2>3, <3>1, <3>2 DEF NewReadArray
    <2>4. CASE StatusRead
      <3>1. CASE Return("io")
        BY <3>1, <1>r, <1>o
      <3>2. ASSUME status' \in StatusReads PROVE status' \subseteq StatusBits
        BY <3>2, StatusReadsTyped
      <3>3. CASE status' \in StatusReads /\ Leave("ok") /\ UNCHANGED <<unit, buf, limbo>>
        <4>1. pc' \in Labels
          BY <3>3 DEF Leave, Labels
        <4> QED BY <3>2, <3>3, <4>1, <1>o DEF Leave, DriverTypeOK
      <3>4. CASE /\ status' \in StatusReads
                 /\ Leave("notReady") /\ buf' = <<>> /\ UNCHANGED <<unit, limbo>>
        <4>1. pc' \in Labels /\ result' \in Results /\ buf' \in Seq(PageContent)
          BY <3>4 DEF Leave, Labels, Results
        <4> QED BY <3>2, <3>4, <4>1 DEF Leave, DriverTypeOK
      <3>5. CASE /\ status' \in StatusReads /\ call.op = "write"
                 /\ Step("eraseSetup") /\ p' = SBegin /\ UNCHANGED <<w, buf>>
        <4>1. SBegin \in Nat
          BY <2>4, <3>5, CallRange, PageTypes DEF StatusRead, Control, DriverTypeOK
        <4> QED BY <3>2, <3>5, <4>1 DEF Step, Labels, DriverTypeOK
      <3> QED BY <2>4, <3>1, <3>3, <3>4, <3>5 DEF StatusRead
    <2> QED BY <1>3, <2>1, <2>2, <2>3, <2>4 DEF Registers
  <1>4. CASE Reading
    <2>1. CASE ReadArrayCommand
      <3>1. CASE Return("io")
        BY <3>1, <1>r, <1>o
      <3>2. CASE Step("burst") /\ p' = ReadFrom /\ UNCHANGED <<w, buf, status>>
        <4>1. ReadFrom \in Nat
          BY <2>1, CallRange DEF ReadArrayCommand, Control, DriverTypeOK, ReadLabels
        <4> QED BY <3>2, <4>1 DEF Step, Labels, DriverTypeOK
      <3> QED BY <2>1, <3>1, <3>2 DEF ReadArrayCommand, Pi
    <2>2. CASE ReadInterrupted
      BY <2>2, <1>r, <1>o DEF ReadInterrupted
    <2>3. CASE ReadBurst
      <3>1. CASE Return("io")
        BY <3>1, <1>r, <1>o
      <3>2. CASE /\ buf' = buf \o BurstPages(PageReadAddress(unit, p), BurstEnd - p)
                 /\ p' = BurstEnd /\ Step("burst") /\ UNCHANGED <<w, status>>
        <4>1. unit \in Units /\ p \in Nat /\ ReadTo \in Nat /\ p < ReadTo
          BY <2>3, CallRange DEF ReadBurst, Control, DriverTypeOK, ReadLabels, IDLabels
        <4>2. ReadBurstEnd(p) \in Nat /\ p < ReadBurstEnd(p)
          BY <4>1, ReadBurstEndNat
        <4>3. BurstEnd \in Nat /\ BurstEnd - p \in Nat
          BY <4>1, <4>2 DEF BurstEnd
        <4>4. PageReadAddress(unit, p) \in Nat
          BY <4>1, Division, LayoutAssumption DEF PageReadAddress, AddressesPerPage, Units
        <4>5. buf' \in Seq(PageContent)
          BY <3>2, <4>3, <4>4, BurstPagesTyped DEF DriverTypeOK
        <4> QED BY <3>2, <4>3, <4>5 DEF Step, Labels, DriverTypeOK
      <3> QED BY <2>3, <3>1, <3>2 DEF ReadBurst
    <2>4. CASE ReadReturn
      <3>1. pc' \in Labels
        BY <2>4 DEF ReadReturn, Leave, Labels
      <3> QED BY <2>4, <3>1, <1>o DEF ReadReturn, Leave, DriverTypeOK
    <2>5. CASE PrepareSectors
      <3>1. call.data \in Seq(Byte) /\ call.offset \in Int
        BY CallTypes DEF DriverTypeOK
      <3>2. Skip \in Nat
        <4>1. call.offset \in Nat
          BY <2>5, <3>1 DEF PrepareSectors, Control, ReadLabels, ValidOffsetSize
        <4>2. call.offset % PageSize \in 0 .. PageSize - 1
          BY <4>1, Division, LayoutAssumption
        <4> QED BY <4>2, LayoutAssumption DEF Skip, Remainder
      <3>3. buf' \in Seq(PageContent)
        BY <2>5, <3>1, <3>2, OverlayTyped DEF PrepareSectors, DriverTypeOK
      <3> QED BY <2>5, <3>3 DEF PrepareSectors, Step, Labels, DriverTypeOK
    <2>6. CASE Panic
      <3>1. pc' \in Labels /\ result' \in Results
        BY <2>6 DEF Panic, Labels, Results
      <3> QED BY <2>6, <3>1 DEF Panic, DriverTypeOK
    <2> QED BY <1>4, <2>1, <2>2, <2>3, <2>4, <2>5, <2>6 DEF Reading
  <1>5. CASE Polling
    <2> PICK kind \in {"erase", "program"} :
            PollStatus(kind) \/ PollAbandoned(kind) \/ ClearAndCheck(kind)
      BY <1>5 DEF Polling
    <2>1. CASE PollStatus(kind)
      <3>1. CASE Return("io")
        BY <3>1, <1>r, <1>o
      <3>2. CASE /\ status' \in StatusReads
                 /\ pc' = IF BusyBitOf[kind] \in status' THEN pc ELSE ClearLabel[kind]
                 /\ UNCHANGED <<unit, result, p, w, buf, ctxVars, callVars, history>>
        <4>1. status' \subseteq StatusBits
          BY <3>2, StatusReadsTyped
        <4>2. pc' \in Labels
          BY <3>2 DEF DriverTypeOK, ClearLabel, Labels
        <4> QED BY <3>2, <4>1, <4>2 DEF DriverTypeOK
      <3> QED BY <2>1, <3>1, <3>2 DEF PollStatus
    <2>2. CASE PollAbandoned(kind)
      BY <2>2, <1>r, <1>o DEF PollAbandoned
    <2>3. CASE ClearAndCheck(kind)
      <3>1. CASE Return("io") \/ Return("NOK")
        BY <3>1, <1>r, <1>o
      <3>2. CASE /\ pc' = IF kind = "erase" THEN "eraseSetup" ELSE "loadCmd"
                 /\ p' = NextPage(kind)
                 /\ expired' = FALSE
                 /\ UNCHANGED <<unit, result, w, buf, status, cancelled, callVars, history>>
        <4>1. p \in Nat /\ SectorEnd(p) \in Nat
          BY SectorHoldsPage DEF DriverTypeOK
        <4>2. SEnd \in Nat
          BY <2>3, CallRange
             DEF ClearAndCheck, ClearLabel, Control, DriverTypeOK, EraseLabels, LoadLabels
        <4>3. NextPage(kind) \in Nat
          BY <4>1, <4>2 DEF NextPage
        <4> QED BY <3>2, <4>3 DEF DriverTypeOK, Labels
      <3> QED BY <2>3, <3>1, <3>2 DEF ClearAndCheck
    <2> QED BY <2>1, <2>2, <2>3
  <1>6. CASE Writing
    <2>1. CASE EraseSetup
      <3>1. limbo' \subseteq Int
        <4>1. /\ limbo \subseteq Int /\ Pages \subseteq Int /\ SectorPages(p) \subseteq Int
          BY SectorHoldsPage, PageTypes DEF DriverTypeOK, SectorPages
        <4>2. limbo' = limbo \cup IF WholeChip THEN Pages ELSE SectorPages(p)
          BY <2>1 DEF EraseSetup
        <4> QED BY <4>1, <4>2
      <3>2. CASE /\ pc' = "eraseCmd"
                 /\ UNCHANGED <<unit, result, localVars, ctxVars, callVars, clean>>
        BY <3>1, <3>2 DEF DriverTypeOK, Labels
      <3>3. CASE Leave("io") /\ buf' = <<>> /\ UNCHANGED <<unit, status>>
        <4>1. pc' \in Labels /\ buf' \in Seq(PageContent)
          BY <3>3 DEF Leave, Labels
        <4> QED BY <3>1, <3>3, <4>1, <1>o DEF Leave, DriverTypeOK
      <3> QED BY <2>1, <3>2, <3>3 DEF EraseSetup
    <2>2. CASE EraseCommand \/ LoadCommand \/ LoadWordsDone \/ ProgramCommand
      <3>1. \/ \E l \in Labels : Goto(l)
            \/ \E r \in Results : Return(r)
        BY <2>2, <1>o DEF EraseCommand, LoadCommand, LoadWordsDone, ProgramCommand, Pi, Labels
      <3> QED BY <3>1, <1>g, <1>r
    <2>3. CASE ErasesDone
      <3>1. SBegin \in Nat
        BY <2>3, CallRange, PageTypes DEF ErasesDone, Control, DriverTypeOK, EraseLabels
      <3> QED BY <2>3, <3>1 DEF ErasesDone, Step, Labels, DriverTypeOK
    <2>4. CASE LoadBurst
      <3>1. clean' \in BOOLEAN
        BY <2>4 DEF LoadBurst
      <3>2. CASE /\ pc' = "programCmd"
                 /\ UNCHANGED <<unit, result, localVars, ctxVars, callVars, limbo>>
        BY <3>1, <3>2 DEF DriverTypeOK, Labels
      <3>3. CASE /\ pc' = "idle" /\ result' = "io"
                 /\ p' = 0 /\ w' = 0 /\ buf' = <<>> /\ cancelled' = FALSE /\ expired' = FALSE
                 /\ UNCHANGED <<unit, status, callVars, limbo>>
        <4>1. pc' \in Labels /\ buf' \in Seq(PageContent)
          BY <3>3 DEF Labels
        <4> QED BY <3>1, <3>3, <4>1, <1>o DEF DriverTypeOK
      <3>4. CASE /\ pc' = "loadWords" /\ w' = 0
                 /\ UNCHANGED <<unit, result, p, buf, status, ctxVars, callVars, limbo>>
        BY <3>1, <3>4 DEF DriverTypeOK, Labels
      <3> QED BY <2>4, <3>2, <3>3, <3>4 DEF LoadBurst
    <2>5. CASE LoadWord
      <3>1. CASE Return("io")
        BY <3>1, <1>r, <1>o
      <3>2. CASE Step("loadWords") /\ w' = w + WordSize /\ UNCHANGED <<p, buf, status>>
        BY <3>2, FlashAssumption DEF Step, Labels, DriverTypeOK
      <3> QED BY <2>5, <3>1, <3>2 DEF LoadWord, Pi
    <2>6. CASE WriteReturn
      <3>1. pc' \in Labels /\ result' \in Results /\ buf' \in Seq(PageContent)
        BY <2>6, <1>o DEF WriteReturn, Leave, Labels
      <3> QED BY <2>6, <3>1 DEF WriteReturn, Leave, DriverTypeOK
    <2> QED BY <1>6, <2>1, <2>2, <2>3, <2>4, <2>5, <2>6 DEF Writing
  <1>7. CASE Interrupt \/ Timeout
    BY <1>7 DEF Interrupt, Timeout, DriverTypeOK
  <1>8. CASE Kill
    <2>1. pc' \in Labels /\ result' \in Results /\ buf' \in Seq(PageContent)
      BY <1>8 DEF Kill, Labels, Results, DriverTypeOK
    <2> QED BY <1>8, <2>1 DEF Kill, DriverTypeOK
  <1>9. CASE WsmDone
    BY <1>9 DEF WsmDone, driverVars, DriverTypeOK
  <1> QED BY <1>1, <1>2, <1>3, <1>4, <1>5, <1>6, <1>7, <1>8, <1>9 DEF Next, Driver

------------------------------------------------------------------------------
(***************************************************************************)
(* The parts of the invariant beside the types.  Each is disturbed by a    *)
(* few actions only; a call that ends or a process that dies makes most of *)
(* them hold trivially.                                                    *)
(***************************************************************************)
LEMMA CallKept ==
  /\ call' = call
       => /\ SBegin' = SBegin /\ SEnd' = SEnd /\ WholeChip' = WholeChip
          /\ ReadFrom' = ReadFrom /\ ReadTo' = ReadTo
  /\ Driver => UNCHANGED <<call, old, steady>>
  <1>1. call' = call
          => /\ SBegin' = SBegin /\ SEnd' = SEnd /\ WholeChip' = WholeChip
             /\ ReadFrom' = ReadFrom /\ ReadTo' = ReadTo
    BY DEF SBegin, SEnd, Begin, End, WholeChip, ReadFrom, ReadTo
  <1> USE DEF callVars
  <1>2. ASSUME NEW r, Return(r) PROVE UNCHANGED <<call, old, steady>>
    BY <1>2 DEF Return, Leave
  <1>3. ASSUME NEW l, Goto(l) PROVE UNCHANGED <<call, old, steady>>
    BY <1>3 DEF Goto, Step
  <1>4. Registers => UNCHANGED <<call, old, steady>>
    BY <1>2, <1>3 DEF Registers, SiliconIDCommand, SiliconIDRead, NewReadArray, StatusCommand,
       StatusRead, ClearStatusCommand, ClearStatusWrite, Pi, Leave, Step
  <1>5. Reading => UNCHANGED <<call, old, steady>>
    BY <1>2, <1>3 DEF Reading, ReadArrayCommand, ReadInterrupted, ReadBurst, ReadReturn,
       PrepareSectors, Panic, Pi, Leave, Step
  <1>6. Polling => UNCHANGED <<call, old, steady>>
    BY <1>2, <1>3 DEF Polling, PollStatus, PollAbandoned, ClearAndCheck
  <1>7. Writing => UNCHANGED <<call, old, steady>>
    BY <1>2, <1>3 DEF Writing, EraseSetup, EraseCommand, ErasesDone, LoadCommand, LoadBurst,
       LoadWord, LoadWordsDone, ProgramCommand, WriteReturn, Pi, Leave, Step
  <1> QED BY <1>1, <1>4, <1>5, <1>6, <1>7 DEF Driver

Aux == Control /\ Buffer /\ Modes /\ Wsm /\ Limbo

\* What the chip must satisfy when no call is in progress.
Quiet == (working = "no" => target = {}) /\ target \subseteq limbo

\* When no call is in progress only the chip has something to satisfy.
LEMMA OverStep ==
  ASSUME pc' \in {"idle", "closed"}, pc' = "idle" => unit' \in Units, Quiet'
  PROVE  Aux'
  BY DEF Aux, Control, Buffer, Modes, Wsm, Limbo, Quiet, IDLabels, StatusLabels,
         ClearLabels, ReadLabels, EraseLabels, LoadLabels

\* Everything but an erase, a program command and their end leaves the WSM alone.
LEMMA WsmKept ==
  /\ UNCHANGED chipVars => UNCHANGED <<array, mode, cir, working, target>>
  /\ \A op \in DOMAIN ModeOf : WriteMode(op) => UNCHANGED <<array, working, target>>
  /\ clearStatus => UNCHANGED <<array, mode, cir, working, target>>
  BY DEF chipVars, WriteMode, clearStatus, WriteData

\* What the chip must satisfy between calls survives whatever leaves the WSM alone.
LEMMA QuietKept ==
  ASSUME IInv, UNCHANGED <<working, target>>, limbo \subseteq limbo'
  PROVE  Quiet'
  BY DEF IInv, Wsm, Limbo, Quiet

\* A call that ends leaves the invariant behind.
LEMMA ReturnStep ==
  ASSUME IInv, NEW r, Return(r), pc \notin {"idle", "closed", "newArray"},
         r # "io" => pc \notin IDLabels \/ call.op # "new", Quiet'
  PROVE  Aux'
  <1>1. pc' \in {"idle", "closed"} /\ (pc' = "idle" => unit' \in Units)
    BY DEF Return, Leave, IInv, Control, IDLabels
  <1> QED BY <1>1, OverStep

\* A call that begins establishes the invariant of its first operation.
LEMMA CallingStep == IInv /\ Calling => Aux'
  <1> SUFFICES ASSUME IInv, Calling PROVE Aux'
    OBVIOUS
  <1> USE DEF IDLabels, StatusLabels, ClearLabels, ReadLabels, EraseLabels, LoadLabels, ctxVars
  <1>1. UNCHANGED chipVars /\ UNCHANGED <<unit, limbo>>
    BY DEF Calling, CallNew, CallRegister, CallRead, CallWrite, CallInvalid, NewCall, history
  <1>2. Quiet' /\ UNCHANGED <<mode, cir, working, target>>
    BY <1>1, QuietKept, WsmKept
  <1>3. pc = "idle" => unit \in Units
    BY DEF IInv, Control
  <1>4. CASE CallNew
    BY <1>2, <1>4 DEF CallNew, NewCall, Plain, Quiet, Aux, Control, Buffer, Modes, Wsm, Limbo
  <1>5. CASE CallRegister
    <2>1. PICK op \in {"siliconID", "status", "clearStatus"} :
            /\ call' = Plain(op)
            /\ pc' = [siliconID |-> "id1", status |-> "status1", clearStatus |-> "clear1"][op]
      BY <1>5 DEF CallRegister, NewCall
    <2>2. call'.op = op
      BY <2>1 DEF Plain
    <2>3. pc = "idle"
      BY <1>5 DEF CallRegister
    <2> QED BY <1>1, <1>2, <1>3, <2>1, <2>2, <2>3
            DEF Quiet, Aux, Control, Buffer, Modes, Wsm, Limbo
  <1>6. CASE CallRead
    <2>1. /\ pc = "idle" /\ pc' = "readArray" /\ buf' = <<>>
          /\ call'.op = "read" /\ ValidOffsetSize(call'.offset, call'.size)
          /\ steady' => working = "no"
      BY <1>6 DEF CallRead, NewCall
    <2> QED BY <1>1, <1>2, <1>3, <2>1 DEF Quiet, Aux, Control, Buffer, Modes, Wsm, Limbo
  <1>7. CASE CallWrite
    <2>1. PICK r \in Requests :
            /\ r.op = "write" /\ ValidOffsetSize(r.offset, r.size) /\ NewCall(r)
            /\ IF FitsSectors(r)
                 THEN pc' = "clear1" /\ buf' = Chunks(r.data)
                 ELSE pc' = "readArray" /\ buf' = <<>>
      BY <1>7 DEF CallWrite
    <2>2. pc = "idle" /\ call' = r /\ (steady' => working = "no")
      BY <1>7, <2>1 DEF CallWrite, NewCall
    <2>3. CASE FitsSectors(r)
      <3>1. r \in AnyCall
        BY RequestTypes
      <3>2. r.data \in Seq(Byte) /\ r.offset \in Int /\ r.size \in Int /\ r.size = Len(r.data)
        BY <2>1, <3>1, CallTypes
      <3>3. Len(buf') = r.size \div PageSize
        BY <2>1, <2>3, <3>2, ChunksTyped
      <3>4. r.size \div PageSize
              = SectorsEnd(RangeBegin(r.offset), RangeEnd(r.offset, r.size)) - RangeBegin(r.offset)
            /\ SectorsBegin(RangeBegin(r.offset)) = RangeBegin(r.offset)
        BY <2>1, <2>3, <3>2, PagesOfSectors DEF FitsSectors
      <3>5. Len(buf') = SEnd' - SBegin'
        BY <2>2, <3>3, <3>4 DEF SEnd, SBegin, Begin, End
      <3> QED BY <1>1, <1>2, <1>3, <2>1, <2>2, <2>3, <3>5
              DEF Quiet, Aux, Control, Buffer, Modes, Wsm, Limbo
    <2>4. CASE ~FitsSectors(r)
      BY <1>1, <1>2, <1>3, <2>1, <2>2, <2>4 DEF Quiet, Aux, Control, Buffer, Modes, Wsm, Limbo
    <2> QED BY <2>3, <2>4
  <1>8. CASE CallInvalid
    BY <1>1, <1>2, <1>3, <1>8, OverStep DEF CallInvalid
  <1> QED BY <1>4, <1>5, <1>6, <1>7, <1>8 DEF Calling

\* SiliconID, Status, ClearStatus and the rest of New keep the invariant.
LEMMA RegistersStep == IInv /\ Registers => Aux'
  <1> SUFFICES ASSUME IInv, Registers PROVE Aux'
    OBVIOUS
  <1> USE DEF IDLabels, StatusLabels, ClearLabels, ReadLabels, EraseLabels, LoadLabels,
              localVars, ctxVars
  <1>k. call' = call /\ steady' = steady /\ SBegin' = SBegin /\ SEnd' = SEnd
    BY CallKept DEF Driver
  <1>r. ASSUME NEW r, Return(r), pc \notin {"idle", "closed", "newArray"},
               r # "io" => pc \notin IDLabels \/ call.op # "new",
               UNCHANGED <<working, target>>
        PROVE  Aux'
    BY <1>r, ReturnStep, QuietKept DEF Return
  <1>m. \A op \in {"readArray", "status", "siliconID", "loadBytePage"} :
          WriteMode(op) => UNCHANGED <<array, working, target>> /\ cir'.op = op
    BY WsmKept, PageTypes DEF WriteMode, Command
  <1>1. CASE SiliconIDCommand
    <2>1. UNCHANGED <<working, target>>
      BY <1>1, <1>m, WsmKept DEF SiliconIDCommand, Pi
    <2>2. CASE Goto("id2") \/ Goto("idRead")
      BY <1>k, <1>1, <2>1, <2>2, QuietKept
         DEF SiliconIDCommand, Goto, Step, IInv, Quiet, Aux, Control, Buffer, Modes, Wsm, Limbo
    <2>3. CASE Return("io")
      BY <1>r, <1>1, <2>1, <2>3 DEF SiliconIDCommand
    <2> QED BY <1>1, <2>2, <2>3 DEF SiliconIDCommand, Pi
  <1>2. CASE SiliconIDRead
    <2>1. UNCHANGED <<working, target>> /\ pc = "idRead"
      BY <1>2, WsmKept DEF SiliconIDRead
    <2>2. CASE pc' = "newArray" /\ call.op = "new" /\ unit' = LayoutRead
               /\ UNCHANGED <<localVars, limbo>>
      BY <1>k, <2>1, <2>2, QuietKept, ChipAssumption
         DEF LayoutRead, Units, Quiet, Aux, Control, Buffer, Modes, Wsm, Limbo
    <2>3. CASE call.op # "new" /\ Return("ok")
      BY <1>r, <2>1, <2>3
    <2>4. CASE Return("io")
      BY <1>r, <2>1, <2>4
    <2> QED BY <1>2, <2>2, <2>3, <2>4 DEF SiliconIDRead, history
  <1>3. CASE NewReadArray
    <2>1. UNCHANGED <<working, target, limbo>>
      BY <1>3, <1>m, WsmKept DEF NewReadArray, Return
    <2>2. pc' \in {"idle", "closed"} /\ (pc' = "idle" => unit' \in Units)
      BY <1>3 DEF NewReadArray, Return, Leave, IInv, Control
    <2> QED BY <2>1, <2>2, QuietKept, OverStep
  <1>4. CASE StatusCommand
    <2>1. UNCHANGED <<working, target>>
      BY <1>4, <1>m, WsmKept DEF StatusCommand, Pi
    <2>2. CASE pc = "status1" /\ WriteMode("status") /\ Goto("status2")
      BY <1>k, <1>m, <2>1, <2>2, QuietKept
         DEF Goto, Step, IInv, Quiet, Aux, Control, Buffer, Modes, Wsm, Limbo
    <2>3. CASE pc = "status2" /\ WriteMode("status") /\ Goto("statusRead")
      <3>1. mode' = "status"
        BY <2>3 DEF WriteMode, ModeOf, MayLag, MayIgnore, IInv, Modes
      <3> QED BY <1>k, <2>1, <2>3, <3>1, QuietKept
              DEF Goto, Step, IInv, Quiet, Aux, Control, Buffer, Modes, Wsm, Limbo
    <2>4. CASE Return("io")
      BY <1>r, <1>4, <2>1, <2>4 DEF StatusCommand
    <2> QED BY <1>4, <2>2, <2>3, <2>4 DEF StatusCommand, Pi
  <1>5. CASE StatusRead
    <2>1. pc = "statusRead" /\ UNCHANGED <<working, target, mode>>
      BY <1>5, WsmKept DEF StatusRead
    <2>2. CASE Return("io")
      BY <1>r, <2>1, <2>2
    <2>3. CASE (Leave("ok") \/ Leave("notReady")) /\ UNCHANGED <<unit, limbo>>
      <3>1. call.op # "new"
        BY <2>1 DEF IInv, Control
      <3>2. pc' = "idle" /\ unit' \in Units
        BY <2>1, <2>3, <3>1 DEF Leave, IInv, Control
      <3> QED BY <2>1, <2>3, <3>2, QuietKept, OverStep
    <2>4. CASE /\ status' \in StatusReads /\ "wsmReady" \in status' /\ call.op = "write"
               /\ Step("eraseSetup") /\ p' = SBegin /\ UNCHANGED <<w, buf>>
      <3>1. mode = "status"
        BY <2>1 DEF IInv, Modes
      <3>2. working = "no"
        BY <2>4, <3>1 DEF StatusReads, StatusRegister, BusyBitOf, IInv, TypeOK, ChipTypeOK, OkBits
      <3>3. /\ SBegin \in Nat /\ SectorBegin(SBegin) = SBegin
            /\ SBegin .. SBegin - 1 \subseteq limbo
        <4>1. SBegin \in Nat /\ SectorBegin(SBegin) = SBegin
          BY <2>1, <2>4, CallRange, PageTypes DEF IInv, TypeOK, DriverTypeOK, Control
        <4> QED BY <4>1
      <3> QED BY <1>k, <2>1, <2>4, <3>1, <3>2, <3>3, QuietKept
              DEF Step, IInv, Quiet, Aux, Control, Buffer, Modes, Wsm, Limbo
    <2> QED BY <1>5, <2>2, <2>3, <2>4 DEF StatusRead
  <1>6. CASE ClearStatusCommand
    <2>1. UNCHANGED <<working, target>>
      BY <1>6, <1>m, WsmKept DEF ClearStatusCommand, Pi
    <2>2. CASE pc = "clear1" /\ WriteMode("status") /\ Goto("clear2")
      BY <1>k, <1>m, <2>1, <2>2, QuietKept
         DEF Goto, Step, IInv, Quiet, Aux, Control, Buffer, Modes, Wsm, Limbo
    <2>3. CASE pc = "clear2" /\ WriteMode("status") /\ Goto("clearWrite")
      <3>1. mode' = "status"
        BY <2>3 DEF WriteMode, ModeOf, MayLag, MayIgnore, IInv, Modes
      <3> QED BY <1>k, <2>1, <2>3, <3>1, QuietKept
              DEF Goto, Step, IInv, Quiet, Aux, Control, Buffer, Modes, Wsm, Limbo
    <2>4. CASE Return("io")
      BY <1>r, <1>6, <2>1, <2>4 DEF ClearStatusCommand
    <2> QED BY <1>6, <2>2, <2>3, <2>4 DEF ClearStatusCommand, Pi
  <1>7. CASE ClearStatusWrite
    <2>1. UNCHANGED <<working, target>> /\ pc = "clearWrite"
      BY <1>7, WsmKept DEF ClearStatusWrite, Pi, Return, Goto
    <2>2. CASE call.op = "write" /\ Goto("status1")
      BY <1>k, <2>1, <2>2, QuietKept
         DEF Goto, Step, IInv, Quiet, Aux, Control, Buffer, Modes, Wsm, Limbo
    <2>3. CASE Return("ok") \/ Return("io")
      BY <1>r, <2>1, <2>3
    <2> QED BY <1>7, <2>2, <2>3 DEF ClearStatusWrite, Pi
  <1> QED BY <1>1, <1>2, <1>3, <1>4, <1>5, <1>6, <1>7 DEF Registers

\* ReadPages, Read and the preparation of a Write keep the invariant.
LEMMA ReadingStep == IInv /\ Reading => Aux'
  <1> SUFFICES ASSUME IInv, Reading PROVE Aux'
    OBVIOUS
  <1> USE DEF IDLabels, StatusLabels, ClearLabels, ReadLabels, EraseLabels, LoadLabels,
              localVars, ctxVars
  <1>k. /\ call' = call /\ steady' = steady /\ SBegin' = SBegin /\ SEnd' = SEnd
        /\ ReadFrom' = ReadFrom /\ ReadTo' = ReadTo
    BY CallKept DEF Driver
  <1>c. /\ pc \in {"readArray", "burst"} /\ call.op \in {"read", "write"} /\ unit \in Units
        /\ ValidOffsetSize(call.offset, call.size) /\ call \in AnyCall
        /\ p \in Nat /\ buf \in Seq(PageContent)
    BY DEF Reading, ReadArrayCommand, ReadInterrupted, ReadBurst, ReadReturn, PrepareSectors,
       Panic, IInv, Control, TypeOK, DriverTypeOK
  <1>b. /\ ReadFrom \in Nat /\ ReadTo \in Nat /\ ReadFrom <= ReadTo
        /\ SBegin \in Nat /\ SEnd \in Nat
    BY <1>c, CallRange, PageTypes
  <1>r. ASSUME NEW r, Return(r), UNCHANGED <<working, target>>
        PROVE  Aux'
    BY <1>c, <1>r, ReturnStep, QuietKept DEF Return
  <1>1. CASE ReadArrayCommand
    <2>1. UNCHANGED <<working, target>> /\ pc = "readArray"
      BY <1>1, WsmKept, PageTypes DEF ReadArrayCommand, Pi, Return
    <2>2. CASE /\ WriteMode("readArray")
               /\ Step("burst") /\ p' = ReadFrom /\ UNCHANGED <<w, buf, status>>
      <3>1. steady => mode' = "array"
        BY <2>1, <2>2 DEF WriteMode, ModeOf, MayLag, MayIgnore, IInv, Modes
      <3>2. Len(buf') = p' - ReadFrom
        BY <1>b, <2>1, <2>2 DEF Step, IInv, Buffer
      <3> QED BY <1>k, <1>c, <1>b, <2>1, <2>2, <3>1, <3>2, QuietKept
              DEF Step, IInv, Quiet, Aux, Control, Buffer, Modes, Wsm, Limbo
    <2>3. CASE Return("io")
      BY <1>r, <2>1, <2>3
    <2> QED BY <1>1, <2>2, <2>3 DEF ReadArrayCommand, Pi
  <1>2. CASE ReadInterrupted
    BY <1>2, <1>r, WsmKept DEF ReadInterrupted
  <1>3. CASE ReadBurst
    <2>1. UNCHANGED <<working, target, mode>> /\ pc = "burst" /\ p < ReadTo
      BY <1>3, WsmKept DEF ReadBurst
    <2>2. CASE /\ buf' = buf \o BurstPages(PageReadAddress(unit, p), BurstEnd - p)
               /\ p' = BurstEnd /\ Step("burst")
      <3>1. ReadBurstEnd(p) \in Nat /\ p < ReadBurstEnd(p)
        BY <1>c, ReadBurstEndNat
      <3>2. BurstEnd \in Nat /\ p <= BurstEnd /\ BurstEnd <= ReadTo /\ BurstEnd - p \in Nat
        BY <1>b, <1>c, <2>1, <3>1 DEF BurstEnd
      <3>3. PageReadAddress(unit, p) \in Nat
        BY <1>c, Division, LayoutAssumption DEF PageReadAddress, AddressesPerPage, Units
      <3> DEFINE more == BurstPages(PageReadAddress(unit, p), BurstEnd - p)
      <3>4. more \in Seq(PageContent) /\ Len(more) = BurstEnd - p
        BY <3>2, <3>3, BurstPagesTyped DEF IInv, TypeOK
      <3>5. Len(buf') = Len(buf) + (BurstEnd - p)
        <4>1. buf' = buf \o more
          BY <2>2
        <4> HIDE DEF more
        <4>2. Len(buf \o more) = Len(buf) + Len(more)
          BY <1>c, <3>4, ConcatProperties
        <4> QED BY <3>4, <4>1, <4>2
      <3>6. ReadFrom <= p /\ Len(buf) = p - ReadFrom
        BY <2>1 DEF IInv, Buffer
      <3>7. pc' = "burst" /\ ReadFrom <= p' /\ p' <= ReadTo /\ Len(buf') = p' - ReadFrom
        <4>1. pc' = "burst" /\ p' = BurstEnd
          BY <2>2 DEF Step
        <4> QED BY <4>1, <1>b, <1>c, <3>2, <3>5, <3>6
      <3> QED BY <1>k, <1>c, <2>1, <2>2, <3>7, QuietKept
              DEF Step, IInv, Quiet, Aux, Control, Buffer, Modes, Wsm, Limbo
    <2>3. CASE Return("io")
      BY <1>r, <2>1, <2>3
    <2> QED BY <1>3, <2>2, <2>3 DEF ReadBurst
  <1>4. CASE ReadReturn
    <2>1. pc' \in {"idle", "closed"} /\ unit' \in Units
      BY <1>4, <1>c DEF ReadReturn, Leave
    <2>2. UNCHANGED <<working, target, limbo>>
      BY <1>4, WsmKept DEF ReadReturn
    <2> QED BY <2>1, <2>2, QuietKept, OverStep
  <1>5. CASE PrepareSectors
    <2>1. UNCHANGED <<working, target, mode>> /\ pc = "burst" /\ p >= ReadTo
      BY <1>5, WsmKept DEF PrepareSectors
    <2>2. Len(buf) = SEnd - SBegin
      <3>1. call.op = "write" /\ ReadFrom = SBegin /\ ReadTo = SEnd
        BY <1>5 DEF PrepareSectors, ReadFrom, ReadTo
      <3>2. p <= ReadTo /\ Len(buf) = p - ReadFrom
        BY <2>1 DEF IInv, Buffer
      <3> QED BY <1>b, <1>c, <2>1, <3>1, <3>2
    <2>3. Len(buf') = Len(buf)
      <3>1. call.data \in Seq(Byte) /\ call.offset \in Nat
        BY <1>c, CallTypes DEF ValidOffsetSize
      <3>2. Skip \in Nat
        <4>1. call.offset % PageSize \in 0 .. PageSize - 1
          BY <3>1, Division, LayoutAssumption
        <4> QED BY <4>1, LayoutAssumption DEF Skip, Remainder
      <3> QED BY <1>5, <1>c, <3>1, <3>2, OverlayTyped DEF PrepareSectors
    <2> QED BY <1>k, <1>c, <1>5, <2>1, <2>2, <2>3, QuietKept
            DEF PrepareSectors, Step, IInv, Quiet, Aux, Control, Buffer, Modes, Wsm, Limbo
  <1>6. CASE Panic
    BY <1>6, WsmKept, QuietKept, OverStep DEF Panic, history
  <1> QED BY <1>1, <1>2, <1>3, <1>4, <1>5, <1>6 DEF Reading

\* A range of pages is covered by the parts before and after any page.
LEMMA RangeSplit ==
  \A a, b, c \in Nat : a .. c - 1 \subseteq (a .. b - 1) \cup (b .. c - 1)
  OBVIOUS

\* waitStatusBitsCleared and the check of the OK bit keep the invariant.
LEMMA PollingStep == IInv /\ Polling => Aux'
  <1> SUFFICES ASSUME IInv, NEW kind \in {"erase", "program"},
                      PollStatus(kind) \/ PollAbandoned(kind) \/ ClearAndCheck(kind)
               PROVE  Aux'
    BY DEF Polling
  <1> USE DEF IDLabels, StatusLabels, ClearLabels, ReadLabels, EraseLabels, LoadLabels,
              localVars, ctxVars, history
  <1>k. /\ call' = call /\ steady' = steady /\ SBegin' = SBegin /\ SEnd' = SEnd
        /\ WholeChip' = WholeChip
    BY CallKept DEF Driver, Polling
  <1>c. /\ pc \in {PollLabel[kind], ClearLabel[kind]}
        /\ call.op = "write" /\ unit \in Units
        /\ ValidOffsetSize(call.offset, call.size) /\ call \in AnyCall /\ p \in Nat
    BY DEF PollStatus, PollAbandoned, ClearAndCheck, PollLabel, ClearLabel, IInv, Control,
       TypeOK, DriverTypeOK
  <1>l. \/ /\ kind = "erase"
           /\ PollLabel[kind] = "erasePoll" /\ ClearLabel[kind] = "eraseClear"
        \/ /\ kind = "program"
           /\ PollLabel[kind] = "programPoll" /\ ClearLabel[kind] = "programClear"
    BY DEF PollLabel, ClearLabel
  <1>b. /\ SBegin \in Nat /\ SEnd \in Nat /\ SectorBegin(SEnd) = SEnd
        /\ SBegin <= SEnd /\ TotalPages \in Nat
    BY <1>c, CallRange, PageTypes
  <1>w. UNCHANGED <<working, target, mode, cir>>
    BY WsmKept DEF PollStatus, PollAbandoned, ClearAndCheck
  <1>r. ASSUME NEW r, Return(r) PROVE Aux'
    BY <1>c, <1>l, <1>r, <1>w, ReturnStep, QuietKept DEF Return
  <1>1. CASE PollStatus(kind)
    <2>1. CASE Return("io")
      BY <1>r, <2>1
    <2>2. CASE /\ pc = PollLabel[kind] /\ status' \in StatusReads
               /\ pc' = IF BusyBitOf[kind] \in status' THEN pc ELSE ClearLabel[kind]
               /\ UNCHANGED <<unit, result, p, w, buf, ctxVars, callVars, history>>
      <3>1. mode = "status" /\ working \in {"no", kind}
        BY <1>l, <2>2 DEF IInv, Modes, Wsm
      <3>2. BusyBitOf[kind] \notin status' => working = "no"
        BY <2>2, <3>1 DEF StatusReads, StatusRegister
      <3>3. CASE pc' = pc
        <4>1. UNCHANGED <<pc, unit, p, buf, limbo, cancelled>>
          BY <2>2, <3>3
        <4> QED BY <1>k, <1>w, <4>1 DEF IInv, Aux, Control, Buffer, Modes, Wsm, Limbo,
                   ReadFrom, ReadTo, Begin, End, SetupPages, SectorPages
      <3>4. CASE pc' = ClearLabel[kind] /\ working = "no"
        <4>1. CASE kind = "erase"
          <5>1. pc = "erasePoll" /\ pc' = "eraseClear"
            BY <1>l, <2>2, <3>4, <4>1
          <5> QED BY <1>k, <1>w, <2>2, <3>1, <3>4, <5>1
                  DEF IInv, Aux, Control, Buffer, Modes, Wsm, Limbo
        <4>2. CASE kind = "program"
          <5>1. pc = "programPoll" /\ pc' = "programClear"
            BY <1>l, <2>2, <3>4, <4>2
          <5> QED BY <1>k, <1>w, <2>2, <3>1, <3>4, <5>1
                  DEF IInv, Aux, Control, Buffer, Modes, Wsm, Limbo
        <4> QED BY <4>1, <4>2
      <3> QED BY <2>2, <3>2, <3>3, <3>4
    <2> QED BY <1>1, <2>1, <2>2 DEF PollStatus
  <1>2. CASE PollAbandoned(kind)
    BY <1>2, <1>r DEF PollAbandoned
  <1>3. CASE ClearAndCheck(kind)
    <2>1. CASE Return("io") \/ Return("NOK")
      BY <1>r, <2>1
    <2>2. CASE /\ pc = ClearLabel[kind]
               /\ pc' = IF kind = "erase" THEN "eraseSetup" ELSE "loadCmd"
               /\ p' = NextPage(kind)
               /\ UNCHANGED <<unit, result, w, buf, status, cancelled, callVars, history>>
      <3>1. mode = "status" /\ working = "no"
        BY <1>l, <2>2 DEF IInv, Modes, Wsm
      <3>2. CASE kind = "program"
        <4>1. SBegin <= p /\ p < SEnd /\ SBegin .. SEnd - 1 \subseteq limbo
          BY <1>l, <2>2, <3>2 DEF IInv, Limbo
        <4>2. p' = p + 1 /\ pc' = "loadCmd"
          BY <2>2, <3>2 DEF NextPage
        <4>3. SBegin <= p' /\ p' <= SEnd
          BY <1>b, <1>c, <4>1, <4>2
        <4> QED BY <1>k, <1>c, <1>l, <1>w, <2>2, <3>1, <3>2, <4>1, <4>2, <4>3
                DEF IInv, Aux, Control, Buffer, Modes, Wsm, Limbo
      <3>3. CASE kind = "erase"
        <4>1. /\ SBegin <= p /\ p < SEnd /\ SectorBegin(p) = p /\ SBegin .. p - 1 \subseteq limbo
              /\ (IF WholeChip THEN Pages ELSE SectorPages(p)) \subseteq limbo
          BY <1>l, <2>2, <3>3 DEF IInv, Limbo
        <4>2. SBegin <= p' /\ SectorBegin(p') = p' /\ SBegin .. p' - 1 \subseteq limbo
          <5>1. CASE WholeChip
            <6>1. p' = SEnd /\ SEnd = TotalPages
              BY <2>2, <3>3, <5>1 DEF NextPage, WholeChip
            <6>2. SBegin .. p' - 1 \subseteq Pages
              BY <1>b, <6>1 DEF Pages
            <6> QED BY <1>b, <4>1, <5>1, <6>1, <6>2
          <5>2. CASE ~WholeChip
            <6>1. p' = SectorEnd(p)
              BY <2>2, <3>3, <5>2 DEF NextPage
            <6>2. p' \in Nat /\ p < p' /\ SectorBegin(p') = p'
              BY <1>c, <6>1, SectorHoldsPage, SectorsAligned
            <6>3. SectorPages(p) = p .. p' - 1
              BY <4>1, <6>1 DEF SectorPages
            <6>4. SBegin .. p' - 1 \subseteq (SBegin .. p - 1) \cup (p .. p' - 1)
              BY <1>b, <1>c, <6>2, RangeSplit
            <6> QED BY <1>b, <1>c, <4>1, <5>2, <6>2, <6>3, <6>4
          <5> QED BY <5>1, <5>2
        <4> QED BY <1>k, <1>c, <1>l, <1>w, <2>2, <3>1, <3>3, <4>2
                DEF IInv, Aux, Control, Buffer, Modes, Wsm, Limbo
      <3> QED BY <3>2, <3>3
    <2> QED BY <1>3, <2>1, <2>2 DEF ClearAndCheck
  <1> QED BY <1>1, <1>2, <1>3

\* The setup of an erase puts the pages it may touch in limbo.
LEMMA EraseSetupStep == IInv /\ EraseSetup => Aux'
  <1> SUFFICES ASSUME IInv, EraseSetup PROVE Aux'
    OBVIOUS
  <1> DEFINE op == IF WholeChip THEN "chipErase" ELSE "sectorErase"
  <1> DEFINE at == IF WholeChip THEN 0 ELSE p
  <1> DEFINE reached == IF WholeChip THEN Pages ELSE SectorPages(p)
  <1>k. /\ call' = call /\ steady' = steady /\ SBegin' = SBegin /\ SEnd' = SEnd
        /\ WholeChip' = WholeChip
    BY CallKept DEF Driver, Writing
  <1>c. /\ pc = "eraseSetup" /\ p < SEnd /\ call.op = "write" /\ unit \in Units
        /\ ValidOffsetSize(call.offset, call.size)
        /\ working = "no" /\ mode = "status" /\ target \subseteq limbo /\ Len(buf) = SEnd - SBegin
        /\ SBegin <= p /\ SectorBegin(p) = p /\ SBegin .. p - 1 \subseteq limbo
        /\ (working = "no" => target = {})
    BY DEF EraseSetup, IInv, Control, Buffer, Modes, Wsm, Limbo, EraseLabels
  <1>e. limbo' = limbo \cup reached
    BY DEF EraseSetup
  <1>w. UNCHANGED <<working, target, mode>>
    BY DEF EraseSetup, WriteSetup, chipVars
  <1>1. CASE /\ WriteSetup(op, at)
             /\ pc' = "eraseCmd"
             /\ UNCHANGED <<unit, result, localVars, ctxVars, callVars, clean>>
    <2>1. cir' = [op |-> op, page |-> at] /\ UNCHANGED <<p, buf, unit>>
      BY <1>1 DEF WriteSetup, localVars
    <2>2. SetupPages(cir)' \subseteq reached
      <3>1. CASE WholeChip
        BY <2>1, <3>1 DEF SetupPages
      <3>2. CASE ~WholeChip
        BY <2>1, <3>2 DEF SetupPages, SectorPages
      <3> QED BY <3>1, <3>2
    <2>3. reached' = reached
      BY <1>k, <2>1 DEF SectorPages
    <2> HIDE DEF op, at, reached
    <2>4. cir'.op \in {"sectorErase", "chipErase"}
      BY <2>1 DEF op
    <2>5. Control' /\ Buffer'
      BY <1>1, <1>k, <1>c, <2>1 DEF Control, Buffer, IDLabels, StatusLabels, ClearLabels,
         ReadLabels, EraseLabels, LoadLabels
    <2>6. Modes' /\ Wsm'
      BY <1>1, <1>w, <1>c, <2>4 DEF Modes, Wsm, ReadLabels, EraseLabels
    <2>7. target' \subseteq limbo' /\ SetupPages(cir)' \subseteq limbo' /\ reached \subseteq limbo'
      BY <1>c, <1>e, <1>w, <2>2
    <2>8. SBegin' <= p' /\ SectorBegin(p') = p' /\ (SBegin .. p - 1)' \subseteq limbo' /\ p' < SEnd'
      BY <1>c, <1>e, <1>k, <2>1
    <2>9. (IF WholeChip THEN Pages ELSE SectorPages(p))' \subseteq limbo'
      BY <2>7, <2>3 DEF reached
    <2> QED BY <1>1, <2>5, <2>6, <2>7, <2>8, <2>9 DEF Aux, Limbo, EraseLabels, LoadLabels
  <1>2. CASE Leave("io")
    <2>1. pc' \in {"idle", "closed"} /\ unit' = unit
      BY <1>2, <1>c DEF Leave, EraseSetup
    <2>2. Quiet'
      BY <1>c, <1>e, <1>w DEF Quiet
    <2> QED BY <1>c, <2>1, <2>2, OverStep
  <1> QED BY <1>1, <1>2 DEF EraseSetup

\* cmdErase starts an erase of pages that are in limbo.
LEMMA EraseCommandStep == IInv /\ EraseCommand => Aux'
  <1> SUFFICES ASSUME IInv, EraseCommand PROVE Aux'
    OBVIOUS
  <1>k. /\ call' = call /\ steady' = steady /\ SBegin' = SBegin /\ SEnd' = SEnd
        /\ WholeChip' = WholeChip
    BY CallKept DEF Driver, Writing
  <1>c. /\ pc = "eraseCmd" /\ call.op = "write" /\ unit \in Units
        /\ ValidOffsetSize(call.offset, call.size)
        /\ working = "no" /\ mode = "status" /\ target \subseteq limbo /\ Len(buf) = SEnd - SBegin
        /\ (working = "no" => target = {}) /\ p < SEnd
        /\ SBegin <= p /\ SectorBegin(p) = p /\ SBegin .. p - 1 \subseteq limbo
        /\ (IF WholeChip THEN Pages ELSE SectorPages(p)) \subseteq limbo
        /\ cir.op \in {"sectorErase", "chipErase"} /\ SetupPages(cir) \subseteq limbo
    BY DEF EraseCommand, IInv, Control, Buffer, Modes, Wsm, Limbo, EraseLabels
  <1>w. WriteErase => working' = "erase" /\ target' = SetupPages(cir) /\ mode' = "status"
    BY <1>c DEF WriteErase, Start
  <1>1. CASE WriteErase /\ Goto("erasePoll")
    <2>1. pc' = "erasePoll" /\ UNCHANGED <<p, buf, unit, limbo>>
      BY <1>1 DEF Goto, Step, localVars
    <2>2. Control' /\ Buffer'
      BY <1>k, <1>c, <2>1 DEF Control, Buffer, IDLabels, StatusLabels, ClearLabels,
         ReadLabels, EraseLabels, LoadLabels
    <2>3. Modes' /\ Wsm'
      BY <1>1, <1>w, <2>1 DEF Modes, Wsm, ReadLabels, EraseLabels
    <2>4. (IF WholeChip THEN Pages ELSE SectorPages(p))' \subseteq limbo'
      BY <1>c, <1>k, <2>1 DEF SectorPages
    <2>5. Limbo'
      BY <1>1, <1>k, <1>c, <1>w, <2>1, <2>4 DEF Limbo, EraseLabels, LoadLabels
    <2> QED BY <2>2, <2>3, <2>5 DEF Aux
  <1>2. CASE (WriteErase \/ UNCHANGED chipVars) /\ Return("io")
    <2>1. limbo' = limbo
      BY <1>2 DEF Return
    <2>2. Quiet'
      BY <1>2, <1>c, <1>w, <2>1 DEF Quiet, chipVars
    <2> QED BY <1>2, <1>c, <2>2, ReturnStep DEF IDLabels
  <1> QED BY <1>1, <1>2 DEF EraseCommand, Pi

\* Every step of the erase, load and program loops keeps the invariant.
LEMMA WritingStep == IInv /\ Writing => Aux'
  <1> SUFFICES ASSUME IInv, Writing PROVE Aux'
    OBVIOUS
  <1> USE DEF IDLabels, StatusLabels, ClearLabels, ReadLabels, EraseLabels, LoadLabels,
              localVars, ctxVars, history
  <1>k. /\ call' = call /\ steady' = steady /\ SBegin' = SBegin /\ SEnd' = SEnd
        /\ WholeChip' = WholeChip
    BY CallKept DEF Driver
  <1>c. /\ call.op = "write" /\ unit \in Units /\ ValidOffsetSize(call.offset, call.size)
        /\ Len(buf) = SEnd - SBegin /\ p \in Nat
        /\ pc \in {"eraseSetup", "eraseCmd", "loadCmd", "loadData", "loadWords", "programCmd"}
        /\ working = "no" /\ target = {} /\ target \subseteq limbo
    BY DEF Writing, EraseSetup, EraseCommand, ErasesDone, LoadCommand, LoadBurst, LoadWord,
       LoadWordsDone, ProgramCommand, WriteReturn, IInv, Control, Buffer, Wsm, Limbo,
       TypeOK, DriverTypeOK
  <1>b. SBegin \in Nat /\ SEnd \in Nat /\ SBegin <= SEnd
    BY <1>c, CallRange, PageTypes DEF IInv, TypeOK, DriverTypeOK
  <1>d. pc \in LoadLabels \cup {"loadCmd"} /\ p < SEnd /\ ~(pc = "loadCmd" /\ cancelled)
          => SBegin <= p /\ SBegin .. SEnd - 1 \subseteq limbo
    BY DEF IInv, Limbo
  <1>x. ASSUME pc' \in LoadLabels, p' = p, SBegin <= p, p < SEnd, SBegin .. SEnd - 1 \subseteq limbo,
               UNCHANGED <<unit, buf, limbo>>, target' \subseteq limbo,
               Modes', Wsm'
        PROVE  Aux'
    <2>1. Control' /\ Buffer'
      BY <1>x, <1>k, <1>c DEF Control, Buffer
    <2>2. Limbo'
      BY <1>x, <1>k DEF Limbo
    <2> QED BY <1>x, <2>1, <2>2 DEF Aux
  <1>q. ASSUME UNCHANGED <<working, target>>, limbo \subseteq limbo', pc' \in {"idle", "closed"},
               unit' = unit
        PROVE  Aux'
    BY <1>q, <1>c, QuietKept, OverStep
  <1>r. ASSUME NEW r, Return(r), UNCHANGED <<working, target>> PROVE Aux'
    BY <1>r, <1>q, <1>c DEF Return, Leave
  <1>1. CASE EraseSetup \/ EraseCommand
    BY <1>1, EraseSetupStep, EraseCommandStep
  <1>2. CASE ErasesDone
    <2>1. /\ pc' = "loadCmd" /\ p' = SBegin
          /\ UNCHANGED <<unit, buf, limbo, cancelled, mode, working, target>>
      BY <1>2 DEF ErasesDone, Step, chipVars
    <2>2. mode = "status" /\ SBegin .. p - 1 \subseteq limbo /\ (p >= SEnd \/ cancelled)
      BY <1>2 DEF ErasesDone, IInv, Modes, Limbo
    <2>3. cancelled \/ SBegin .. SEnd - 1 \subseteq limbo
      <3>1. CASE p >= SEnd
        BY <1>b, <1>c, <2>2, <3>1
      <3> QED BY <2>2, <3>1
    <2>4. Control' /\ Buffer'
      BY <1>k, <1>c, <2>1 DEF Control, Buffer
    <2>5. Modes' /\ Wsm'
      BY <1>c, <2>1, <2>2 DEF Modes, Wsm
    <2>6. Limbo'
      BY <1>b, <1>k, <1>c, <2>1, <2>3 DEF Limbo
    <2> QED BY <2>4, <2>5, <2>6 DEF Aux
  <1>3. CASE LoadCommand
    <2>1. UNCHANGED <<working, target>>
      BY <1>3, WsmKept DEF LoadCommand, Pi, ModeOf
    <2>2. CASE WriteMode("loadBytePage") /\ Goto("loadData")
      <3>1. mode = "status"
        BY <1>3 DEF LoadCommand, IInv, Modes
      <3>2. mode' = "load"
        BY <1>c, <2>2, <3>1 DEF WriteMode, MayLag, MayIgnore, ModeOf
      <3>3. pc' = "loadData" /\ UNCHANGED <<unit, p, buf, limbo>>
        BY <2>2 DEF Goto, Step
      <3>4. Modes' /\ Wsm'
        BY <1>c, <2>1, <3>2, <3>3 DEF Modes, Wsm
      <3> QED BY <1>3, <1>d, <1>c, <1>x, <2>1, <3>3, <3>4 DEF LoadCommand
    <2> QED BY <1>3, <1>r, <2>1, <2>2 DEF LoadCommand, Pi
  <1>4. CASE LoadBurst
    <2>1. UNCHANGED <<working, target, mode, unit, limbo>>
      BY <1>4 DEF LoadBurst, WriteData, chipVars
    <2>2. CASE pc' = "idle"
      BY <1>q, <2>1, <2>2
    <2>3. CASE pc' \in {"programCmd", "loadWords"} /\ UNCHANGED <<p, buf>>
      <3>1. mode = "load"
        BY <1>4 DEF LoadBurst, IInv, Modes
      <3>2. Modes' /\ Wsm'
        BY <1>c, <2>1, <2>3, <3>1 DEF Modes, Wsm
      <3>3. SBegin <= p /\ p < SEnd /\ SBegin .. SEnd - 1 \subseteq limbo
        BY <1>4 DEF LoadBurst, IInv, Limbo
      <3> QED BY <1>c, <1>x, <2>1, <2>3, <3>2, <3>3
    <2> QED BY <1>4, <2>2, <2>3 DEF LoadBurst
  <1>5. CASE LoadWord \/ LoadWordsDone
    <2>1. UNCHANGED <<working, target, mode>>
      BY <1>5 DEF LoadWord, LoadWordsDone, Pi, WriteData, chipVars
    <2>2. CASE pc' \in {"programCmd", "loadWords"} /\ UNCHANGED <<unit, p, buf, limbo>>
      <3>1. mode = "load"
        BY <1>5 DEF LoadWord, LoadWordsDone, IInv, Modes
      <3>2. Modes' /\ Wsm'
        BY <1>c, <2>1, <2>2, <3>1 DEF Modes, Wsm
      <3>3. SBegin <= p /\ p < SEnd /\ SBegin .. SEnd - 1 \subseteq limbo
        BY <1>5 DEF LoadWord, LoadWordsDone, IInv, Limbo
      <3> QED BY <1>c, <1>x, <2>1, <2>2, <3>2, <3>3
    <2> QED BY <1>5, <1>r, <2>1, <2>2 DEF LoadWord, LoadWordsDone, Pi, Goto, Step
  <1>6. CASE ProgramCommand
    <2>1. SBegin <= p /\ p < SEnd /\ SBegin .. SEnd - 1 \subseteq limbo
      BY <1>6 DEF ProgramCommand, IInv, Limbo
    <2>2. WriteProgram(p) => working' = "program" /\ target' = {p} /\ mode' = "status"
      BY <1>c DEF WriteProgram, Start
    <2>3. p \in SBegin .. SEnd - 1
      BY <1>b, <1>c, <2>1
    <2>4. CASE WriteProgram(p) /\ Goto("programPoll")
      <3>1. pc' = "programPoll" /\ UNCHANGED <<unit, p, buf, limbo>>
        BY <2>4 DEF Goto, Step
      <3>2. Modes' /\ Wsm'
        BY <2>2, <2>4, <3>1 DEF Modes, Wsm
      <3>3. target' \subseteq limbo
        BY <2>1, <2>2, <2>3, <2>4
      <3> QED BY <1>x, <2>1, <3>1, <3>2, <3>3
    <2>5. CASE (WriteProgram(p) \/ UNCHANGED chipVars) /\ Return("io")
      <3>1. limbo' = limbo
        BY <2>5 DEF Return
      <3>2. Quiet'
        BY <1>c, <2>1, <2>2, <2>3, <2>5, <3>1 DEF Quiet, chipVars
      <3> QED BY <1>6, <2>5, <3>2, ReturnStep DEF ProgramCommand
    <2> QED BY <1>6, <2>4, <2>5 DEF ProgramCommand, Pi
  <1>7. CASE WriteReturn
    <2>1. pc' \in {"idle", "closed"} /\ UNCHANGED <<unit, working, target>>
      BY <1>7 DEF WriteReturn, Leave, chipVars
    <2>2. Quiet'
      BY <1>c, <2>1 DEF Quiet
    <2> QED BY <1>c, <2>1, <2>2, OverStep
  <1> QED BY <1>1, <1>2, <1>3, <1>4, <1>5, <1>6, <1>7 DEF Writing

\* Interrupts, timeouts, kills and the WSM keep the invariant.
LEMMA EnvironmentStep == IInv /\ (Interrupt \/ Timeout \/ Kill \/ WsmDone) => Aux'
  <1> SUFFICES ASSUME IInv, Interrupt \/ Timeout \/ Kill \/ WsmDone PROVE Aux'
    OBVIOUS
  <1> USE DEF localVars, callVars, history
  <1>k. call' = call /\ steady' = steady
    BY DEF Interrupt, Timeout, Kill, WsmDone, driverVars
  <1>s. /\ SBegin' = SBegin /\ SEnd' = SEnd /\ WholeChip' = WholeChip
        /\ ReadFrom' = ReadFrom /\ ReadTo' = ReadTo
    BY <1>k, CallKept
  <1>1. CASE Interrupt \/ Timeout
    <2>1. UNCHANGED <<pc, unit, p, buf, limbo, mode, cir, working, target>>
      BY <1>1 DEF Interrupt, Timeout, chipVars
    <2>2. SetupPages(cir)' = SetupPages(cir) /\ SectorPages(p)' = SectorPages(p)
      BY <2>1 DEF SetupPages, SectorPages
    <2>3. Control' /\ Buffer' /\ Modes' /\ Wsm'
      BY <1>k, <1>s, <2>1 DEF IInv, Control, Buffer, Modes, Wsm
    <2>4. cancelled \in BOOLEAN /\ (cancelled => cancelled')
      BY <1>1 DEF Interrupt, Timeout, IInv, TypeOK, DriverTypeOK
    <2>5. Limbo'
      BY <1>s, <2>1, <2>2, <2>4 DEF IInv, Limbo
    <2> QED BY <2>3, <2>5 DEF Aux
  <1>2. CASE Kill
    <2>1. pc' = "closed" /\ UNCHANGED <<working, target, limbo>>
      BY <1>2 DEF Kill, chipVars
    <2> QED BY <2>1, QuietKept, OverStep
  <1>3. CASE WsmDone
    <2>1. UNCHANGED <<pc, unit, p, buf, limbo, cancelled, mode, cir>>
      BY <1>3 DEF WsmDone, Finish, driverVars, ctxVars
    <2>2. SetupPages(cir)' = SetupPages(cir) /\ SectorPages(p)' = SectorPages(p)
      BY <2>1 DEF SetupPages, SectorPages
    <2>3. working' = "no" /\ target' = {}
      BY <1>3 DEF WsmDone, Finish
    <2>4. Control' /\ Buffer' /\ Modes' /\ Wsm'
      BY <1>k, <1>s, <2>1, <2>3 DEF IInv, Control, Buffer, Modes, Wsm
    <2>5. Limbo'
      BY <1>s, <2>1, <2>2, <2>3 DEF IInv, Limbo
    <2> QED BY <2>4, <2>5 DEF Aux
  <1> QED BY <1>1, <1>2, <1>3

------------------------------------------------------------------------------
(* The invariant and what follows from it *)

\* The invariant is inductive.
LEMMA IInvStep == IInv /\ [Next]_vars => IInv'
  <1> SUFFICES ASSUME IInv, [Next]_vars PROVE IInv'
    OBVIOUS
  <1>1. TypeOK'
    BY ChipTypeStep, DriverTypeStep DEF TypeOK
  <1>2. ASSUME Next PROVE Aux'
    BY <1>2, CallingStep, RegistersStep, ReadingStep, PollingStep, WritingStep, EnvironmentStep
    DEF Next, Driver
  <1>3. ASSUME UNCHANGED vars PROVE Aux'
    <2>1. UNCHANGED <<pc, call, steady, unit, p, buf, limbo, cancelled, mode, cir, working, target>>
      BY <1>3 DEF vars, chipVars, driverVars, localVars, ctxVars, callVars, history
    <2>2. /\ SBegin' = SBegin /\ SEnd' = SEnd /\ WholeChip' = WholeChip
          /\ ReadFrom' = ReadFrom /\ ReadTo' = ReadTo
          /\ SetupPages(cir)' = SetupPages(cir) /\ SectorPages(p)' = SectorPages(p)
      BY <2>1, CallKept DEF SetupPages, SectorPages
    <2>3. Control' /\ Buffer' /\ Modes' /\ Wsm'
      BY <2>1, <2>2 DEF IInv, Control, Buffer, Modes, Wsm
    <2>4. Limbo'
      BY <2>1, <2>2 DEF IInv, Limbo
    <2> QED BY <2>3, <2>4 DEF Aux
  <1>4. Aux'
    BY <1>2, <1>3
  <1> QED BY <1>1, <1>4 DEF IInv, Aux

\* Every reachable state of the driver and its chip satisfies the invariant.
THEOREM Invariance == Spec => []IInv
  BY InitIInv, IInvStep, PTL DEF Spec

\* The variables of the driver and of the chip keep their types.
THEOREM TypeCorrect == Spec => []TypeOK
  <1>1. IInv => TypeOK
    BY DEF IInv
  <1> QED BY <1>1, Invariance, PTL

\* The driver reads the status, loads the page and reads bursts in the mode
\* that each of them needs, whatever failed before.
THEOREM ModesRight == Spec => []RightMode
  <1>1. IInv => RightMode
    BY DEF IInv, Modes, RightMode, EraseLabels
  <1> QED BY <1>1, Invariance, PTL

------------------------------------------------------------------------------
(* The driver implements FlashStore *)

storeVars == <<array, limbo>>

\* A change of pages in limbo is a step of the abstract store.
LEMMA ChangeInLimbo ==
  ASSUME IInv, TypeOK', limbo' = limbo, NEW pages \in SUBSET limbo,
         \A q \in Pages : q \notin pages => array'[q] = array[q]
  PROVE  Store!Change
  BY DEF Store!Change, TypeOK, ChipTypeOK

\* Only the commands to erase and to program, their end and the bookkeeping of
\* a write touch the cells and the limbo.
LEMMA StoreKept ==
  ASSUME \/ Calling \/ Registers \/ Reading \/ Polling
         \/ ErasesDone \/ LoadCommand \/ LoadBurst \/ LoadWord \/ LoadWordsDone
         \/ Interrupt \/ Timeout \/ Kill
  PROVE  UNCHANGED storeVars
  <1> USE WsmKept DEF storeVars, chipVars, history
  <1>r. \A r \in Results : Return(r) => limbo' = limbo
    BY DEF Return
  <1>1. Calling => UNCHANGED storeVars
    BY DEF Calling, CallNew, CallRegister, CallRead, CallWrite, CallInvalid, NewCall
  <1>2. Registers => UNCHANGED storeVars
    BY DEF Registers, SiliconIDCommand, SiliconIDRead, NewReadArray, StatusCommand, StatusRead,
       ClearStatusCommand, ClearStatusWrite, Pi, Goto, Step, Return, ModeOf, WriteMode
  <1>3. Reading => UNCHANGED storeVars
    BY DEF Reading, ReadArrayCommand, ReadInterrupted, ReadBurst, ReadReturn, PrepareSectors,
       Panic, Pi, Step, Return, ModeOf
  <1>4. Polling => UNCHANGED storeVars
    BY DEF Polling, PollStatus, PollAbandoned, ClearAndCheck, Return
  <1>5. ErasesDone \/ LoadCommand \/ LoadBurst \/ LoadWord \/ LoadWordsDone
          => UNCHANGED storeVars
    BY DEF ErasesDone, LoadCommand, LoadBurst, LoadWord, LoadWordsDone, Pi, Goto, Step, Return,
       ModeOf, WriteData
  <1>6. Interrupt \/ Timeout \/ Kill => UNCHANGED storeVars
    BY DEF Interrupt, Timeout, Kill
  <1> QED BY <1>1, <1>2, <1>3, <1>4, <1>5, <1>6

\* Every step of the driver is a step of the abstract store or leaves it alone.
LEMMA StoreStep == IInv /\ [Next]_vars => [Store!Next]_storeVars
  <1> SUFFICES ASSUME IInv, [Next]_vars PROVE [Store!Next]_storeVars
    OBVIOUS
  <1>t. TypeOK'
    BY IInvStep DEF IInv
  <1>1. CASE UNCHANGED storeVars
    BY <1>1
  <1>2. CASE EraseSetup
    <2>1. array' = array
      BY <1>2 DEF EraseSetup, WriteSetup, chipVars
    <2>2. PICK reached \in {Pages, SectorPages(p)} : limbo' = limbo \cup reached
      BY <1>2 DEF EraseSetup
    <2>3. p \in Pages
      <3>1. p < SEnd /\ p \in Nat /\ call \in AnyCall /\ ValidOffsetSize(call.offset, call.size)
        BY <1>2 DEF EraseSetup, IInv, Control, EraseLabels, TypeOK, DriverTypeOK
      <3>2. SEnd \in Nat /\ SEnd <= TotalPages /\ TotalPages \in Nat
        BY <3>1, CallRange
      <3> QED BY <3>1, <3>2 DEF Pages
    <2>4. reached \in {SectorPages(q) : q \in Pages} \cup {Pages}
      BY <2>2, <2>3
    <2> QED BY <2>1, <2>2, <2>4 DEF Store!Next, Store!Erase
  <1>3. CASE EraseCommand
    <2>1. limbo' = limbo
      BY <1>3 DEF EraseCommand, Pi, Goto, Step, Return
    <2>2. SetupPages(cir) \in SUBSET limbo
      BY <1>3 DEF EraseCommand, IInv, Limbo
    <2>3. \A q \in Pages : q \notin SetupPages(cir) => array'[q] = array[q]
      BY <1>3 DEF EraseCommand, Pi, WriteErase, Start, chipVars
    <2> QED BY <1>t, <2>1, <2>2, <2>3, ChangeInLimbo DEF Store!Next
  <1>4. CASE ProgramCommand
    <2>1. limbo' = limbo
      BY <1>4 DEF ProgramCommand, Pi, Goto, Step, Return
    <2>2. {p} \in SUBSET limbo
      <3>1. /\ p \in Nat /\ SBegin <= p /\ p < SEnd /\ SBegin .. SEnd - 1 \subseteq limbo
            /\ call \in AnyCall /\ ValidOffsetSize(call.offset, call.size)
        BY <1>4 DEF ProgramCommand, IInv, Limbo, Control, LoadLabels, TypeOK, DriverTypeOK
      <3>2. SBegin \in Nat /\ SEnd \in Nat
        BY <3>1, CallRange, PageTypes
      <3> QED BY <3>1, <3>2
    <2>3. \A q \in Pages : q \notin {p} => array'[q] = array[q]
      BY <1>4 DEF ProgramCommand, Pi, WriteProgram, Start, chipVars
    <2> QED BY <1>t, <2>1, <2>2, <2>3, ChangeInLimbo DEF Store!Next
  <1>5. CASE WsmDone
    <2>1. limbo' = limbo /\ target \in SUBSET limbo
      BY <1>5 DEF WsmDone, driverVars, history, IInv, Limbo
    <2>2. \A q \in Pages : q \notin target => array'[q] = array[q]
      BY <1>5 DEF WsmDone, Finish
    <2> QED BY <1>t, <2>1, <2>2, ChangeInLimbo DEF Store!Next
  <1>6. CASE WriteReturn
    <2>1. array' = array /\ limbo' \subseteq limbo
      BY <1>6 DEF WriteReturn, chipVars
    <2> QED BY <2>1 DEF Store!Next, Store!Settle
  <1>7. CASE UNCHANGED vars
    BY <1>1, <1>7 DEF vars, chipVars, driverVars, history, storeVars
  <1> QED BY <1>1, <1>2, <1>3, <1>4, <1>5, <1>6, <1>7, StoreKept DEF Next, Driver, Writing

\* The cells of a page change only while the page is in limbo: between the
\* moment a write begins to erase its sector and the moment a write of it is
\* reported as done, through every failure, interrupt, restart and busy chip.
THEOREM StoreImplemented == Spec => StoreSpec
  <1>1. Init => Store!Init
    BY FlashAssumption DEF Init, ChipInit, Store!Init
  <1>2. IInv /\ [Next]_vars => [Store!Next]_<<array, limbo>>
    BY StoreStep DEF storeVars
  <1> QED BY <1>1, <1>2, Invariance, PTL DEF Spec, StoreSpec, Store!Spec

------------------------------------------------------------------------------
(* Every call comes to an end *)

\* The parts of a call, in the order in which they come.
Phase ==
  CASE pc = "readArray" -> 11
    [] pc = "burst" -> 10
    [] pc = "clear1" -> 9
    [] pc = "clear2" -> 8
    [] pc = "clearWrite" -> 7
    [] pc = "status1" -> 6
    [] pc = "status2" -> 5
    [] pc = "statusRead" -> 4
    [] pc = "id1" -> 4
    [] pc = "id2" -> 3
    [] pc \in EraseLabels \cup {"idRead"} -> 2
    [] pc \in LoadLabels \cup {"loadCmd", "newArray"} -> 1
    [] OTHER -> 0

\* The page that the loop of the part ends at, and the steps for one page.
LoopEnd == IF pc = "burst" THEN ReadTo ELSE SEnd
PagesLeft ==
  IF pc \in EraseLabels \cup LoadLabels \cup {"loadCmd", "burst"} /\ p < LoopEnd
  THEN LoopEnd - p ELSE 0
StepsLeft ==
  CASE pc = "loadCmd" -> 6
    [] pc = "loadData" -> 5
    [] pc \in {"loadWords", "eraseSetup"} -> 4
    [] pc \in {"programCmd", "eraseCmd"} -> 3
    [] pc \in {"programPoll", "erasePoll"} -> 2
    [] pc \in {"programClear", "eraseClear"} -> 1
    [] OTHER -> 0
WordsLeft == IF pc = "loadWords" /\ w < PageSize THEN PageSize - w ELSE 0

\* The timeout of a poll.
TimeLeft == IF expired THEN 0 ELSE 1

Measure == <<Phase, PagesLeft, StepsLeft, WordsLeft, TimeLeft>>

\* A poll that finds the chip busy waits.
Waits == pc \in {"erasePoll", "programPoll"} /\ ~expired /\ pc' = pc /\ Measure' = Measure

\* One part of the measure gets smaller, and those before it stay.
Lowers ==
  \/ Phase' < Phase
  \/ Phase' = Phase /\ PagesLeft' < PagesLeft
  \/ Phase' = Phase /\ PagesLeft' = PagesLeft /\ StepsLeft' < StepsLeft
  \/ UNCHANGED <<pc, p, call>> /\ WordsLeft' < WordsLeft
  \/ UNCHANGED <<pc, p, call, w>> /\ ~expired /\ expired'

\* Loops go over pages.
LEMMA LoopTyped ==
  ASSUME IInv, pc \in EraseLabels \cup LoadLabels \cup {"loadCmd", "burst"}
  PROVE  p \in Nat /\ LoopEnd \in Nat
  <1>1. pc \notin {"idle", "closed"} /\ call.op \in {"read", "write"}
    BY DEF IInv, Control, ReadLabels, EraseLabels, LoadLabels
  <1>2. call \in AnyCall /\ ValidOffsetSize(call.offset, call.size) /\ p \in Nat
    BY <1>1 DEF IInv, Control, TypeOK, DriverTypeOK
  <1>3. ReadTo \in Nat /\ SEnd \in Nat
    BY <1>2, CallRange
  <1> QED BY <1>2, <1>3 DEF LoopEnd

\* What is left is a number, part by part.
LEMMA MeasureTyped == IInv => Measure \in Measures(5)
  <1> SUFFICES ASSUME IInv PROVE Measure \in Measures(5)
    OBVIOUS
  <1>1. Phase \in Nat /\ StepsLeft \in Nat /\ TimeLeft \in Nat
    BY DEF Phase, StepsLeft, TimeLeft
  <1>2. PagesLeft \in Nat
    BY LoopTyped DEF PagesLeft
  <1>3. WordsLeft \in Nat
    BY LayoutAssumption DEF WordsLeft, IInv, TypeOK, DriverTypeOK
  <1> HIDE DEF Phase, StepsLeft, TimeLeft, PagesLeft, WordsLeft
  <1> QED BY <1>1, <1>2, <1>3 DEF Measures, Measure

\* The parts of the measure that the place of the call and its page determine.
LEMMA SamePlace ==
  ASSUME UNCHANGED <<pc, p, call>>
  PROVE  Phase' = Phase /\ PagesLeft' = PagesLeft /\ StepsLeft' = StepsLeft
  <1>1. LoopEnd' = LoopEnd
    BY DEF LoopEnd, ReadTo, SEnd, SBegin, Begin, End
  <1> QED BY <1>1 DEF Phase, PagesLeft, StepsLeft

\* The measure follows its parts.
LEMMA LowersMeasure ==
  ASSUME Lowers
  PROVE  Lower(Measure', Measure)
  <1> DEFINE m == Measure'
             n == Measure
  <1>1. /\ DOMAIN n = 1 .. 5
        /\ n[1] = Phase /\ n[2] = PagesLeft /\ n[3] = StepsLeft /\ n[4] = WordsLeft
        /\ n[5] = TimeLeft
        /\ m[1] = Phase' /\ m[2] = PagesLeft' /\ m[3] = StepsLeft' /\ m[4] = WordsLeft'
        /\ m[5] = TimeLeft'
    BY DEF Measure
  <1> SUFFICES \E i \in 1 .. 5 : m[i] < n[i] /\ \A j \in 1 .. i - 1 : m[j] = n[j]
    BY <1>1 DEF Lower
  <1> HIDE DEF m, n
  <1>2. CASE Phase' < Phase
    <2>1. m[1] < n[1] /\ \A j \in 1 .. 1 - 1 : m[j] = n[j]
      BY <1>1, <1>2
    <2> QED BY <2>1
  <1>3. CASE Phase' = Phase /\ PagesLeft' < PagesLeft
    <2>1. m[2] < n[2] /\ \A j \in 1 .. 2 - 1 : m[j] = n[j]
      BY <1>1, <1>3
    <2> QED BY <2>1
  <1>4. CASE Phase' = Phase /\ PagesLeft' = PagesLeft /\ StepsLeft' < StepsLeft
    <2>1. m[3] < n[3] /\ \A j \in 1 .. 3 - 1 : m[j] = n[j]
      BY <1>1, <1>4
    <2> QED BY <2>1
  <1>5. CASE UNCHANGED <<pc, p, call>> /\ WordsLeft' < WordsLeft
    <2>1. m[4] < n[4] /\ \A j \in 1 .. 4 - 1 : m[j] = n[j]
      BY <1>1, <1>5, SamePlace
    <2> QED BY <2>1
  <1>6. CASE UNCHANGED <<pc, p, call, w>> /\ ~expired /\ expired'
    <2>1. TimeLeft' = 0 /\ TimeLeft = 1 /\ WordsLeft' = WordsLeft
      BY <1>6 DEF TimeLeft, WordsLeft
    <2>2. m[5] < n[5] /\ \A j \in 1 .. 5 - 1 : m[j] = n[j]
      BY <1>1, <1>6, <2>1, SamePlace
    <2> QED BY <2>2
  <1> QED BY <1>2, <1>3, <1>4, <1>5, <1>6 DEF Lowers

\* A call that returns has nothing left to do.
LEMMA ReturnLowers ==
  ASSUME pc \in Labels \ {"idle", "closed"}, pc' \in {"idle", "closed"}
  PROVE  Lowers
  BY DEF Labels, Lowers, Phase, EraseLabels, LoadLabels

\* However it returns.
LEMMA IoLowers ==
  ASSUME NEW r, pc \in Labels \ {"idle", "closed"}, Leave(r) \/ Return(r)
  PROVE  Lowers
  <1>1. pc' \in {"idle", "closed"}
    BY DEF Leave, Return
  <1> QED BY <1>1, ReturnLowers

\* From one step for a page to the next.
LEMMA StepLowers ==
  ASSUME UNCHANGED <<p, call>>,
         \/ pc = "eraseSetup" /\ pc' = "eraseCmd"
         \/ pc = "eraseCmd" /\ pc' = "erasePoll"
         \/ pc = "erasePoll" /\ pc' = "eraseClear"
         \/ pc = "loadCmd" /\ pc' = "loadData"
         \/ pc = "loadData" /\ pc' \in {"loadWords", "programCmd"}
         \/ pc = "loadWords" /\ pc' = "programCmd"
         \/ pc = "programCmd" /\ pc' = "programPoll"
         \/ pc = "programPoll" /\ pc' = "programClear"
  PROVE  Lowers
  <1>1. LoopEnd' = LoopEnd
    BY DEF LoopEnd, ReadTo, SEnd, SBegin, Begin, End
  <1>2. Phase' = Phase /\ PagesLeft' = PagesLeft
    BY <1>1 DEF Phase, PagesLeft, EraseLabels, LoadLabels
  <1>3. StepsLeft' < StepsLeft
    BY DEF StepsLeft
  <1> QED BY <1>2, <1>3 DEF Lowers

\* And from one page to a later one.
LEMMA PageLowers ==
  ASSUME IInv, UNCHANGED call, p < LoopEnd, p' \in Nat, p < p',
         \/ pc = "burst" /\ pc' = "burst"
         \/ pc = "eraseClear" /\ pc' = "eraseSetup"
         \/ pc = "programClear" /\ pc' = "loadCmd"
  PROVE  Lowers
  <1>1. p \in Nat /\ LoopEnd \in Nat
    BY LoopTyped DEF EraseLabels, LoadLabels
  <1>2. LoopEnd' = LoopEnd
    BY DEF LoopEnd, ReadTo, SEnd, SBegin, Begin, End
  <1>3. Phase' = Phase
    BY DEF Phase, EraseLabels, LoadLabels
  <1>4. PagesLeft = LoopEnd - p /\ PagesLeft' = IF p' < LoopEnd THEN LoopEnd - p' ELSE 0
    BY <1>2 DEF PagesLeft, EraseLabels, LoadLabels
  <1>5. \A a, b, c \in Nat : a < b /\ a < c => (IF c < b THEN b - c ELSE 0) < b - a
    OBVIOUS
  <1>6. PagesLeft' < PagesLeft
    BY <1>1, <1>4, <1>5
  <1> QED BY <1>3, <1>6 DEF Lowers

\* The registers of the chip: one PI operation after the other.
LEMMA RegistersLower == ASSUME IInv, Registers PROVE Lowers
  <1>0. pc \in Labels
    BY DEF IInv, TypeOK, DriverTypeOK
  <1>1. CASE pc' \in {"idle", "closed"}
    <2>1. pc \notin {"idle", "closed"}
      BY DEF Registers, SiliconIDCommand, SiliconIDRead, NewReadArray, StatusCommand, StatusRead,
             ClearStatusCommand, ClearStatusWrite
    <2> QED BY <1>0, <1>1, <2>1, ReturnLowers
  <1>2. \/ pc' \in {"idle", "closed"}
        \/ pc = "id1" /\ pc' = "id2"
        \/ pc = "id2" /\ pc' = "idRead"
        \/ pc = "idRead" /\ pc' = "newArray"
        \/ pc = "status1" /\ pc' = "status2"
        \/ pc = "status2" /\ pc' = "statusRead"
        \/ pc = "statusRead" /\ pc' = "eraseSetup"
        \/ pc = "clear1" /\ pc' = "clear2"
        \/ pc = "clear2" /\ pc' = "clearWrite"
        \/ pc = "clearWrite" /\ pc' = "status1"
    <2>1. CASE SiliconIDCommand
      BY <2>1 DEF SiliconIDCommand, Pi, Goto, Step, Return, Leave
    <2>2. CASE SiliconIDRead
      BY <2>2 DEF SiliconIDRead, Return, Leave
    <2>3. CASE NewReadArray
      BY <2>3 DEF NewReadArray, Return, Leave
    <2>4. CASE StatusCommand
      BY <2>4 DEF StatusCommand, Pi, Goto, Step, Return, Leave
    <2>5. CASE StatusRead
      BY <2>5 DEF StatusRead, Step, Return, Leave
    <2>6. CASE ClearStatusCommand
      BY <2>6 DEF ClearStatusCommand, Pi, Goto, Step, Return, Leave
    <2>7. CASE ClearStatusWrite
      BY <2>7 DEF ClearStatusWrite, Pi, Goto, Step, Return, Leave
    <2> QED BY <2>1, <2>2, <2>3, <2>4, <2>5, <2>6, <2>7 DEF Registers
  <1> QED BY <1>1, <1>2 DEF Lowers, Phase, EraseLabels, LoadLabels

\* ReadPages: burst by burst.
LEMMA ReadingLowers == ASSUME IInv, Reading PROVE Lowers
  <1>0. pc \in Labels
    BY DEF IInv, TypeOK, DriverTypeOK
  <1>1. CASE ReadArrayCommand
    <2>1. pc = "readArray" /\ (pc' = "burst" \/ Return("io"))
      BY <1>1 DEF ReadArrayCommand, Pi, Step
    <2>2. CASE pc' = "burst"
      BY <2>1, <2>2 DEF Lowers, Phase, EraseLabels, LoadLabels
    <2> QED BY <1>0, <2>1, <2>2, IoLowers
  <1>2. CASE ReadInterrupted
    <2>1. pc = "burst" /\ Return("cancelled")
      BY <1>2 DEF ReadInterrupted
    <2> QED BY <1>0, <2>1, IoLowers
  <1>3. CASE ReadBurst
    <2>1. pc = "burst" /\ p < ReadTo
          /\ (Return("io") \/ (pc' = "burst" /\ p' = BurstEnd /\ UNCHANGED call))
      BY <1>3 DEF ReadBurst, Step, callVars
    <2>2. p \in Nat /\ LoopEnd \in Nat /\ LoopEnd = ReadTo
      BY <2>1, LoopTyped DEF LoopEnd
    <2>3. BurstEnd \in Nat /\ p < BurstEnd
      BY <2>1, <2>2, ReadBurstEndNat DEF BurstEnd
    <2> QED BY <1>0, <2>1, <2>2, <2>3, IoLowers, PageLowers
  <1>4. CASE ReadReturn
    <2>1. pc = "burst" /\ Leave("ok")
      BY <1>4 DEF ReadReturn
    <2> QED BY <1>0, <2>1, IoLowers
  <1>5. CASE PrepareSectors
    <2>1. pc = "burst" /\ pc' = "clear1"
      BY <1>5 DEF PrepareSectors, Step
    <2> QED BY <2>1 DEF Lowers, Phase, EraseLabels, LoadLabels
  <1>6. CASE Panic
    <2>1. pc = "burst" /\ pc' = "closed"
      BY <1>6 DEF Panic
    <2> QED BY <1>0, <2>1, ReturnLowers
  <1> QED BY <1>1, <1>2, <1>3, <1>4, <1>5, <1>6 DEF Reading

\* The polls, which may have to wait, and the loops that go on after them.
LEMMA PollingLowers == ASSUME IInv, Polling PROVE Lowers \/ Waits
  <1>0. pc \in Labels
    BY DEF IInv, TypeOK, DriverTypeOK
  <1>1. PICK kind \in {"erase", "program"} :
          PollStatus(kind) \/ PollAbandoned(kind) \/ ClearAndCheck(kind)
    BY DEF Polling
  <1>2. PollLabel[kind] = (IF kind = "erase" THEN "erasePoll" ELSE "programPoll")
        /\ ClearLabel[kind] = (IF kind = "erase" THEN "eraseClear" ELSE "programClear")
    BY DEF PollLabel, ClearLabel
  <1>3. CASE PollStatus(kind)
    <2>1. pc = PollLabel[kind] /\ ~expired
      BY <1>3 DEF PollStatus
    <2>2. CASE Return("io")
      BY <1>0, <1>2, <2>1, <2>2, IoLowers
    <2>3. CASE pc' = ClearLabel[kind] /\ UNCHANGED <<p, call>>
      BY <1>2, <2>1, <2>3, StepLowers
    <2>4. CASE pc' = pc /\ UNCHANGED <<p, call, w, expired>>
      <3>1. WordsLeft' = WordsLeft /\ TimeLeft' = TimeLeft
        BY <2>4 DEF WordsLeft, TimeLeft
      <3>2. Measure' = Measure
        BY <2>4, <3>1, SamePlace DEF Measure
      <3> QED BY <1>2, <2>1, <2>4, <3>2 DEF Waits
    <2>5. \/ Return("io")
          \/ pc' = ClearLabel[kind] /\ UNCHANGED <<p, call>>
          \/ pc' = pc /\ UNCHANGED <<p, call, w, expired>>
      BY <1>3 DEF PollStatus, ctxVars, callVars
    <2> QED BY <2>2, <2>3, <2>4, <2>5
  <1>4. CASE PollAbandoned(kind)
    <2>1. pc = PollLabel[kind] /\ (Return("cancelled") \/ Return("deadline"))
      BY <1>4 DEF PollAbandoned
    <2> QED BY <1>0, <1>2, <2>1, IoLowers
  <1>5. CASE ClearAndCheck(kind)
    <2>1. pc = ClearLabel[kind]
      BY <1>5 DEF ClearAndCheck
    <2>2. CASE Return("NOK") \/ Return("io")
      BY <1>0, <1>2, <2>1, <2>2, IoLowers
    <2>3. CASE /\ pc' = IF kind = "erase" THEN "eraseSetup" ELSE "loadCmd"
               /\ p' = NextPage(kind) /\ UNCHANGED call
      <3>1. p \in Nat /\ LoopEnd \in Nat /\ LoopEnd = SEnd
        BY <1>2, <2>1, LoopTyped DEF LoopEnd, EraseLabels, LoadLabels
      <3>2. p < SEnd
        BY <1>2, <2>1 DEF IInv, Limbo, EraseLabels, LoadLabels
      <3>3. SectorEnd(p) \in Nat /\ p < SectorEnd(p)
        BY <3>1, SectorHoldsPage
      <3>4. NextPage(kind) \in Nat /\ p < NextPage(kind)
        BY <3>1, <3>2, <3>3 DEF NextPage
      <3> QED BY <1>2, <2>1, <2>3, <3>1, <3>2, <3>4, PageLowers
    <2> QED BY <1>5, <2>2, <2>3 DEF ClearAndCheck, callVars
  <1> QED BY <1>1, <1>3, <1>4, <1>5

\* Erase, LoadBytePage and ProgramPage: the other steps for a page.
LEMMA WritingLowers == ASSUME IInv, Writing PROVE Lowers
  <1>0. pc \in Labels
    BY DEF IInv, TypeOK, DriverTypeOK
  <1>1. CASE EraseSetup
    <2>1. pc = "eraseSetup" /\ (Leave("io") \/ (pc' = "eraseCmd" /\ UNCHANGED <<p, call>>))
      BY <1>1 DEF EraseSetup, localVars, callVars
    <2> QED BY <1>0, <2>1, IoLowers, StepLowers
  <1>2. CASE EraseCommand
    <2>1. pc = "eraseCmd" /\ (Return("io") \/ (pc' = "erasePoll" /\ UNCHANGED <<p, call>>))
      BY <1>2 DEF EraseCommand, Pi, Goto, Step, localVars, callVars
    <2> QED BY <1>0, <2>1, IoLowers, StepLowers
  <1>3. CASE ErasesDone
    <2>1. pc = "eraseSetup" /\ pc' = "loadCmd"
      BY <1>3 DEF ErasesDone, Step
    <2> QED BY <2>1 DEF Lowers, Phase, EraseLabels, LoadLabels
  <1>4. CASE LoadCommand
    <2>1. pc = "loadCmd" /\ (Return("io") \/ (pc' = "loadData" /\ UNCHANGED <<p, call>>))
      BY <1>4 DEF LoadCommand, Pi, Goto, Step, localVars, callVars
    <2> QED BY <1>0, <2>1, IoLowers, StepLowers
  <1>5. CASE LoadBurst
    <2>1. pc = "loadData"
          /\ (pc' = "idle" \/ (pc' \in {"programCmd", "loadWords"} /\ UNCHANGED <<p, call>>))
      BY <1>5 DEF LoadBurst, localVars, callVars
    <2> QED BY <1>0, <2>1, ReturnLowers, StepLowers
  <1>6. CASE LoadWord
    <2>1. pc = "loadWords" /\ w < PageSize
          /\ \/ Return("io")
             \/ UNCHANGED <<pc, p, call>> /\ w' = w + WordSize
      BY <1>6 DEF LoadWord, Pi, Step, callVars
    <2>2. CASE UNCHANGED <<pc, p, call>> /\ w' = w + WordSize
      <3>1. {w, PageSize} \subseteq Nat /\ WordSize \in Nat \ {0}
        BY LayoutAssumption, FlashAssumption DEF IInv, TypeOK, DriverTypeOK
      <3>2. WordsLeft' < WordsLeft
        BY <2>1, <2>2, <3>1 DEF WordsLeft
      <3> QED BY <2>2, <3>2 DEF Lowers
    <2> QED BY <1>0, <2>1, <2>2, IoLowers
  <1>7. CASE LoadWordsDone
    <2>1. pc = "loadWords" /\ pc' = "programCmd" /\ UNCHANGED <<p, call>>
      BY <1>7 DEF LoadWordsDone, Goto, Step, localVars, callVars
    <2> QED BY <2>1, StepLowers
  <1>8. CASE ProgramCommand
    <2>1. pc = "programCmd" /\ (Return("io") \/ (pc' = "programPoll" /\ UNCHANGED <<p, call>>))
      BY <1>8 DEF ProgramCommand, Pi, Goto, Step, localVars, callVars
    <2> QED BY <1>0, <2>1, IoLowers, StepLowers
  <1>9. CASE WriteReturn
    <2>1. pc = "loadCmd" /\ \E r \in {"cancelled", "ok"} : Leave(r)
      BY <1>9 DEF WriteReturn
    <2> QED BY <1>0, <2>1, IoLowers
  <1> QED BY <1>1, <1>2, <1>3, <1>4, <1>5, <1>6, <1>7, <1>8, <1>9 DEF Writing

\* The environment lets the time of a poll pass, and does not set back a call.
LEMMA EnvironmentKeeps ==
  /\ Timeout => Lowers
  /\ Interrupt \/ WsmDone => Measure' = Measure
  <1>1. Timeout => Lowers
    BY DEF Timeout, Lowers, localVars, callVars
  <1>2. ASSUME Interrupt \/ WsmDone PROVE Measure' = Measure
    <2>1. UNCHANGED <<pc, p, call, w, expired>>
      BY <1>2 DEF Interrupt, WsmDone, driverVars, localVars, callVars, ctxVars
    <2>2. WordsLeft' = WordsLeft /\ TimeLeft' = TimeLeft
      BY <2>1 DEF WordsLeft, TimeLeft
    <2> QED BY <2>1, <2>2, SamePlace DEF Measure
  <1> QED BY <1>1, <1>2

(***************************************************************************)
(* Every PI operation of the driver, whatever it gives or fails with,      *)
(* brings the call nearer to its end in a well-founded order, but for a    *)
(* poll that finds the chip busy before the timeout; the timeout does, and *)
(* neither SIGINT nor the chip sets the call back (loops of Erase, Read    *)
(* and Write, waitStatusBitsCleared).                                      *)
(***************************************************************************)
THEOREM CallsAdvance ==
  Spec => /\ [](Measure \in Measures(5))
          /\ [][/\ Driver => Lower(Measure', Measure) \/ Waits
                /\ Timeout => Lower(Measure', Measure)
                /\ Interrupt \/ WsmDone => Measure' = Measure]_vars
  <1> DEFINE Counts == Measure \in Measures(5)
             Advance == /\ Driver => Lower(Measure', Measure) \/ Waits
                        /\ Timeout => Lower(Measure', Measure)
                        /\ Interrupt \/ WsmDone => Measure' = Measure
  <1>1. IInv => Counts
    BY MeasureTyped
  <1>2. IInv /\ [Next]_vars => [Advance]_vars
    BY RegistersLower, ReadingLowers, PollingLowers, WritingLowers, EnvironmentKeeps, LowersMeasure
       DEF Driver
  <1> HIDE DEF Counts, Advance
  <1>3. Spec => []Counts /\ [][Advance]_vars
    BY <1>1, <1>2, Invariance, PTL DEF Spec
  <1> QED BY <1>3 DEF Counts, Advance
==============================================================================
