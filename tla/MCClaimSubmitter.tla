-------------------------- MODULE MCClaimSubmitter --------------------------
(***************************************************************************)
(* Instances of ClaimSubmitter for TLC.  b1 and b2 are two batches of one  *)
(* user on one campaign, to be settled in that order; b3 is another user's *)
(* and the only one whose deadline can pass.                               *)
(***************************************************************************)
EXTENDS ClaimSubmitter

CONSTANTS b1, b2, b3, s1, s2, o1, MaxTrouble

MCStream == {s1, s2}
MCStreamOf == [b \in Batch |-> IF b = b3 THEN s2 ELSE s1]
MCFirstNonce == [b \in Batch |-> IF b = b2 THEN 2 ELSE 1]

(***************************************************************************)
(* Bounds of the safety runs: the batches are queued in the order b1, b2,  *)
(* b3; at most MaxTrouble things go wrong in one behaviour, of any kinds:  *)
(* a dropped transaction, another sender's (from the read of its nonce     *)
(* on), an RPC fault, a crash, a passed deadline; and of the transactions  *)
(* in flight at most one is old enough to be resubmitted, and they were    *)
(* resubmitted twice between them, or once if as much goes wrong as may.   *)
(***************************************************************************)
Holding == {o \in Other : others[o] # NoNonce}

Troubles == evictions + foreign + faults + crashes
              + Cardinality(reverting) + Cardinality(Holding)

AtMostOneAged == \A m, n \in DOMAIN inflight :
  inflight[m].aged /\ inflight[n].aged => m = n

Resubmissions == SumFunction([n \in DOMAIN inflight |-> inflight[n].attempts])

Bounded ==
  /\ IsPrefix(arrival, <<b1, b2, b3>>)
  /\ Troubles <= MaxTrouble
  /\ AtMostOneAged
  /\ Resubmissions <= 2
  /\ Troubles + Resubmissions <= MaxTrouble + 1
=============================================================================
