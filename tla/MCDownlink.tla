------------------------------ MODULE MCDownlink ------------------------------
(***************************************************************************)
(* Instances of Downlink for TLC: packet d has a length of d bytes.        *)
(***************************************************************************)
EXTENDS Downlink

MCSize == [d \in Data |-> d]
=============================================================================
