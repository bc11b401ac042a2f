------------------------------- MODULE MCSession -------------------------------
(***************************************************************************)
(* Session with a chip of 4 units and an address space of 8; bursts that   *)
(* fit the size or not, an odd one, none, a negative one; all carts of 7   *)
(* words; an EEPROM, an RTC, no device, and what one could mistake for one.*)
(***************************************************************************)
EXTENDS Session

MCWords == {Open, Zero, "a"}
MCDevices ==
  {[id |-> i, knows |-> k] : i \in {NoDevice, RtcId, "eeprom"}, k \in SUBSET {0, 6}}
MCBursts == {-2, 0, 1, 2, 4}
MCSizes == {-1, 1, 3, 6}
MCOffsets == {-1, 0, 3, 4}
==============================================================================
