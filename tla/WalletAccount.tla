--------------------------- MODULE WalletAccount ---------------------------
(***************************************************************************)
(* A wallet's account as its RPC node shows it: the transactions           *)
(* mined, the mempool, and the nonces.  None of it is code of this         *)
(* repository: it says what the relay's senders rely on (claims.mjs,       *)
(* clicks.mjs and withdraw.mjs of relay/src).                              *)
(***************************************************************************)
EXTENDS Integers, FiniteSets, SequencesExt

VARIABLES
  mined,      \* the wallet's mined transactions: nonce n is mined[n + 1]
  pool        \* the mempool: nonce -> what the transaction carries

(***************************************************************************)
(* The account nonce: getTransactionCount(relay, "latest").                *)
(***************************************************************************)
Latest == Len(mined)

(***************************************************************************)
(* getTransactionCount(relay, "pending"): the first nonce neither mined    *)
(* nor in the mempool.                                                     *)
(***************************************************************************)
PendingCounts ==
  {n \in Latest .. Latest + Cardinality(DOMAIN pool) :
     /\ n \notin DOMAIN pool
     /\ Latest .. (n - 1) \subseteq DOMAIN pool}

(***************************************************************************)
(* The mempool after it takes a transaction for nonce n.                   *)
(***************************************************************************)
PoolWith(n, payload) ==
  [m \in DOMAIN pool \cup {n} |-> IF m = n THEN payload ELSE pool[m]]

(***************************************************************************)
(* The node can take a transaction for any nonce not yet mined (for one    *)
(* already pooled, as a replacement); it may refuse one whose nonce is     *)
(* mined ("nonce too low") or pooled ("already known", "underpriced").     *)
(***************************************************************************)
CanAccept(n) == n >= Latest
CanRefuse(n) == n < Latest \/ n \in DOMAIN pool
=============================================================================
