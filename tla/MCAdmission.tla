------------------------------ MODULE MCAdmission ------------------------------
(***************************************************************************)
(* Instances of Admission for TLC: two cookies, minted one second apart.   *)
(***************************************************************************)
EXTENDS Admission, TLC

CONSTANTS t1, t2

MCTokenTime == (t1 :> 0) @@ (t2 :> 1)
=============================================================================
