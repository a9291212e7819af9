---------------------------- MODULE MCPathChoice ----------------------------
(***************************************************************************)
(* Instances of PathChoice for TLC: a fast path over quic, and one over    *)
(* tls-tcp that answers barely promptly or takes five seconds.  Others     *)
(* report nothing, or praise the first and complain of the second; so does *)
(* the scheduler, or the other way round.                                  *)
(***************************************************************************)
EXTENDS PathChoice

MCLatencies == <<{2}, {47, 500}>>
MCReports == {<<None, None>>, <<10, 0>>}
MCMeasures == MCReports \cup {<<0, 10>>}
=============================================================================
