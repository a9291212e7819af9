------------------------------- MODULE MCUplink -------------------------------
(***************************************************************************)
(* Instances of Uplink for TLC.  Packets are numbers; MCUnit makes them    *)
(* all of one byte, MCSize gives packet d a length of d bytes.             *)
(***************************************************************************)
EXTENDS Uplink

MCSize == [d \in Data |-> d]
MCUnit == [d \in Data |-> 1]
=============================================================================
