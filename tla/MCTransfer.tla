------------------------------ MODULE MCTransfer ------------------------------
(***************************************************************************)
(* Transfer with blocks of 2 units and chunks of 4: a ROM of the database  *)
(* that needs swapping and is one chunk long, and a homebrew with an ED64  *)
(* header that ends inside a block of its second chunk.  Addresses are cut *)
(* at 10 units, 2 more than the bank has: offset 13 is cut to 3, inside of *)
(* a sector, from where the bank has room for the ROM and not for the      *)
(* homebrew, and a download of 10 goes round the addresses.                *)
(***************************************************************************)
EXTENDS Transfer

MCRom == [name |-> "rom", length |-> 4, swapped |-> TRUE, boots |-> TRUE, save |-> "db"]
MCHomebrew == [name |-> "homebrew", length |-> 5, swapped |-> FALSE, boots |-> TRUE, save |-> "ed64"]

MCFiles == {MCRom, MCHomebrew}
MCOffsets == {0, 13}
==============================================================================
