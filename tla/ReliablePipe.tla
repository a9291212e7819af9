----------------------------- MODULE ReliablePipe -----------------------------
(***************************************************************************)
(* What the continuity layer promises to the traffic it carries: "a        *)
(* reliable, ordered, transport-agnostic pipe that outlives any individual *)
(* connection" (continuity.rs).  Packets come out in the order they went   *)
(* in, each exactly once; several may come out together, when the chunk    *)
(* that fills a gap releases those held behind it.                         *)
(***************************************************************************)
EXTENDS Naturals, Sequences

CONSTANT Data
VARIABLES accepted, delivered

pipeVars == <<accepted, delivered>>

Init == accepted = <<>> /\ delivered = <<>>

Put(d) ==
  /\ accepted' = Append(accepted, d)
  /\ UNCHANGED delivered

Deliver(n) ==
  /\ n > Len(delivered)
  /\ delivered' = SubSeq(accepted, 1, n)
  /\ UNCHANGED accepted

Next ==
  \/ \E d \in Data : Put(d)
  \/ \E n \in 1 .. Len(accepted) : Deliver(n)

Spec == Init /\ [][Next]_pipeVars
=============================================================================
