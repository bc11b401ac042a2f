-------------------------------- MODULE MCFifo --------------------------------
(***************************************************************************)
(* Fifo with three packets, the second one no text, the first one of two   *)
(* words: a stream from its beginning, one that is entered in the data of  *)
(* the first packet, and one with a late version answer between packets.   *)
(***************************************************************************)
EXTENDS Fifo

MCSize == <<4, 2, 2>>

PacketFrom(p, first) == [j \in 1 .. Length(p) - first + 1 |-> [of |-> p, k |-> first + j - 1]]
LateAnswer == [j \in 1 .. 6 |-> [of |-> Noise, k |-> j]]

MCStreams ==
  {PacketFrom(1, 1) \o PacketFrom(2, 1) \o PacketFrom(3, 1),
   PacketFrom(1, 6) \o PacketFrom(2, 1) \o PacketFrom(3, 1),
   PacketFrom(1, 7) \o LateAnswer \o PacketFrom(3, 1)}
==============================================================================
