------------------------------ MODULE MCRegistry ------------------------------
(***************************************************************************)
(* Instances of SessionRegistry for TLC: a few connections, a pool of a    *)
(* few addresses.                                                          *)
(***************************************************************************)
EXTENDS SessionRegistry
=============================================================================
