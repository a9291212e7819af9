------------------------------ MODULE MCLifecycle ------------------------------
(***************************************************************************)
(* Instances of ClientLifecycle for TLC.                                   *)
(***************************************************************************)
EXTENDS ClientLifecycle
=============================================================================
