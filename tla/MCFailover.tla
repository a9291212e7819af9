------------------------------ MODULE MCFailover ------------------------------
(***************************************************************************)
(* Instances of Failover for TLC.  Nothing has to be defined: the          *)
(* constants are numbers.                                                  *)
(***************************************************************************)
EXTENDS Failover
=============================================================================
