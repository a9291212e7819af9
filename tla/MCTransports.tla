----------------------------- MODULE MCTransports -----------------------------
(***************************************************************************)
(* Instances of Transports for TLC: a probe, an acknowledgement that       *)
(* carries a range, and a packet.                                          *)
(***************************************************************************)
EXTENDS Transports

MCMessages == <<
  [type |-> "control", body |-> [kind |-> "ping", timestamp |-> 7]],
  [type |-> "control", body |-> [kind |-> "ack", next |-> 1, ranges |-> <<<<3, 4>>>>]],
  [type |-> "data", body |-> <<"q", "r">>] >>
=============================================================================
