--------------------------- MODULE BatchLifecycle ---------------------------
(***************************************************************************)
(* What the settlement submitter promises of the batches handed to it,     *)
(* without its queue, its nonces and its RPC calls: a batch is accepted    *)
(* once, waits, is submitted together with at most GroupMax - 1 others     *)
(* while at most Window batches are out, and is then closed.  It never     *)
(* goes back: a submitted batch is not queued again, a closed one is not   *)
(* submitted again.  ClaimSubmitter is shown to implement this.            *)
(***************************************************************************)
EXTENDS Integers, FiniteSets

CONSTANTS
  Batch,      \* the batches
  GroupMax,   \* batches in one transaction
  Window      \* batches submitted and not closed, at most

VARIABLE stage

At(s) == {b \in Batch : stage[b] = s}

Move(group, s) ==
  stage' = [b \in Batch |-> IF b \in group THEN s ELSE stage[b]]

Init == stage = [b \in Batch |-> "new"]

Accept(b) == b \in At("new") /\ Move({b}, "waiting")

(***************************************************************************)
(* A group of waiting batches is submitted, within the window.             *)
(***************************************************************************)
Submit(group) ==
  /\ group # {}
  /\ Cardinality(group) <= GroupMax
  /\ Cardinality(At("submitted") \cup group) <= Window
  /\ Move(group, "submitted")

(***************************************************************************)
(* Batches of one group are closed, before or after their submission.      *)
(***************************************************************************)
Close(group) ==
  /\ Cardinality(group) <= GroupMax
  /\ Move(group, "closed")

(***************************************************************************)
(* The process dies: nothing it held is left.                              *)
(***************************************************************************)
Die == Move(At("waiting") \cup At("submitted"), "closed")

Next ==
  \/ \E b \in Batch : Accept(b)
  \/ \E group \in SUBSET At("waiting") : Submit(group) \/ Close(group)
  \/ \E group \in SUBSET At("submitted") : Close(group)
  \/ Die

Spec == Init /\ [][Next]_stage
=============================================================================
