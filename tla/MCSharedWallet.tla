--------------------------- MODULE MCSharedWallet ---------------------------
(***************************************************************************)
(* An instance of SharedWallet for TLC: three clicks, so that one waits    *)
(* behind a full batch; k1 and k2 were hashed to the same impression nonce *)
(* (the same link in the same millisecond), and k2 can come to be refused. *)
(* One withdrawal, whose authorisation may have been used before.          *)
(***************************************************************************)
EXTENDS SharedWallet

CONSTANTS k1, k2, k3, w1

MCSessionOf == [c \in Click |-> IF c = k3 THEN 2 ELSE 1]
MCAuthOf == [w \in Withdrawal |-> 1]
=============================================================================
