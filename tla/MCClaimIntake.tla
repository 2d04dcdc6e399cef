--------------------------- MODULE MCClaimIntake ---------------------------
(***************************************************************************)
(* Instances of ClaimIntake for TLC: three posts, one of them with the     *)
(* advertiser's signature, and two console calls at a time.                *)
(***************************************************************************)
EXTENDS ClaimIntake, TLC

CONSTANTS r1, r2, r3, c1, c2

MCRequest == {r1, r2, r3}
MCPresigned == {r3}
MCConsole == {c1, c2}

(***************************************************************************)
(* The two console calls run the same code: which of them is which does    *)
(* not matter.                                                             *)
(***************************************************************************)
Consoles == Permutations(MCConsole)

(***************************************************************************)
(* IsSelection says of every sequence what SelectSeq computes.             *)
(***************************************************************************)
ASSUME SelectionIsSelectSeq ==
  \A all, some \in BoundedSeq(1 .. 3, 3), S \in SUBSET (1 .. 3) :
    IsSelection(some, all, S) <=> some = SelectSeq(all, LAMBDA e : e \in S)
=============================================================================
