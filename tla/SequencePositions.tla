------------------------- MODULE SequencePositions --------------------------
(***************************************************************************)
(* What the queues of this project need of sequences: where an element     *)
(* stands, and what is left of a sequence when some elements are dropped.  *)
(* Both are stated without recursion, so that they can be proved about.    *)
(***************************************************************************)
EXTENDS Integers, Sequences

Positions(seq, e) == {i \in DOMAIN seq : seq[i] = e}

(***************************************************************************)
(* some is what all is without the elements that are not in S, in the same *)
(* order: what SelectSeq returns (MCClaimIntake compares the two).         *)
(***************************************************************************)
IsSelection(some, all, S) ==
  \E from \in [DOMAIN some -> DOMAIN all] :
    /\ \A i, j \in DOMAIN some : i < j => from[i] < from[j]
    /\ \A i \in DOMAIN some : some[i] = all[from[i]]
    /\ {from[i] : i \in DOMAIN some} = {i \in DOMAIN all : all[i] \in S}
=============================================================================
