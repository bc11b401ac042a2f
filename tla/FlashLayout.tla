----------------------------- MODULE FlashLayout -----------------------------
(***************************************************************************)
(* Geometry of the FlashRAM chips of N64 cartridges: how a byte range of   *)
(* the linear address space is turned into pages, sectors and read bursts. *)
(*                                                                         *)
(* Both layouts the driver knows (Layout_128B_128_8 and Layout_64W_128_8)  *)
(* have pages of the same number of bytes and differ only in the bytes per *)
(* address, the unit, so a layout is represented by its unit.  The code    *)
(* stores the number of bits of every quantity and masks with 2^bits - 1:  *)
(* for powers of two p & ~mask is p - p % n and p | mask is the last       *)
(* multiple plus n - 1, which is how it is written here.                   *)
(***************************************************************************)
EXTENDS Integers

CONSTANTS PageSize, PagesPerSector, SectorsPerChip, ReadPageBoundary

ASSUME LayoutAssumption ==
  /\ PageSize \in Nat \ {0}
  /\ PagesPerSector \in Nat \ {0}
  /\ SectorsPerChip \in Nat \ {0}
  /\ ReadPageBoundary \in Nat \ {0}

\* Bytes per address of the two layouts: byte chips and 16-bit word chips.
Units == {1, 2}

AddressesPerPage(unit) == PageSize \div unit
TotalPages == PagesPerSector * SectorsPerChip
SectorSize == PagesPerSector * PageSize
ChipSize == SectorsPerChip * SectorSize

Pages == 0 .. TotalPages - 1

SectorBegin(page) == page - (page % PagesPerSector)
SectorEnd(page) == SectorBegin(page) + PagesPerSector

ReadBurstEnd(page) == (page - (page % ReadPageBoundary)) + ReadPageBoundary

PageReadAddress(unit, page) == page * AddressesPerPage(unit)

ValidOffsetSize(offset, size) ==
  /\ offset >= 0 /\ offset < ChipSize
  /\ size >= 0 /\ size <= ChipSize
  /\ offset + size <= ChipSize

ValidPageRange(begin, end) ==
  /\ begin >= 0 /\ begin < TotalPages
  /\ end >= begin /\ end <= TotalPages

(***************************************************************************)
(* convertAddressRange: the pages [RangeBegin, RangeEnd[ that hold the     *)
(* bytes [offset, offset + size[, and the place of the first byte in them. *)
(***************************************************************************)
RangeBegin(offset) == offset \div PageSize
RangeEnd(offset, size) ==
  IF size > 0 THEN ((offset + size - 1) \div PageSize) + 1 ELSE RangeBegin(offset)
Remainder(offset) == offset % PageSize

\* pageRangeSectorBoundaries: [begin, end[ widened to whole sectors.
SectorsBegin(begin) == SectorBegin(begin)
SectorsEnd(begin, end) ==
  IF end > begin THEN SectorEnd(end - 1) ELSE SectorsBegin(begin)

\* Pages of the sector a page belongs to, which is what erasing it erases.
SectorPages(page) == SectorBegin(page) .. SectorEnd(page) - 1
==============================================================================
