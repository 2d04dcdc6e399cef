-------------------------- MODULE SettlementChain --------------------------
(***************************************************************************)
(* The chain as relay/src/claims.mjs meets it: the relay wallet's account, *)
(* whose transactions carry groups of batches, and the                     *)
(* DatumDualSigSettlement contract.  Neither is code of this repository:   *)
(* their definitions say only what the relay's calls and comments rely on. *)
(* The wallet's other senders (clicks.mjs and withdraw.mjs, which module   *)
(* SharedWallet models in full) are here as far as the account sees them.  *)
(*                                                                         *)
(* A batch is one signed claim batch.  It belongs to a stream (one user on *)
(* one campaign) and is anchored to the stream's next claim nonce          *)
(* (claims.mjs:79-82); each batch carries one claim here.                  *)
(***************************************************************************)
EXTENDS WalletAccount

CONSTANTS
  Batch,          \* the signed claim batches
  Stream,         \* the (user, campaign) pairs
  StreamOf,       \* the stream each batch settles
  FirstNonce,     \* the claim nonce each batch is anchored to
  Mortal,         \* batches the contract can come to refuse during the run
  Other,          \* the wallet's other senders: the click flush, withdrawals
  MaxEvictions,   \* bound: transactions the mempool may drop
  MaxForeign      \* bound: transactions the other senders send

ASSUME ChainAssumption ==
  /\ StreamOf \in [Batch -> Stream]
  /\ FirstNonce \in [Batch -> Nat \ {0}]
  /\ Mortal \subseteq Batch
  /\ MaxEvictions \in Nat
  /\ MaxForeign \in Nat

VARIABLES
  lastNonce,  \* the contract's lastNonce of every stream
  settled,    \* the batches the contract has settled
  reverting,  \* the batches that make a settlement revert now
  evictions,  \* transactions dropped so far
  foreign,    \* transactions the other senders have sent so far
  others,     \* the nonce each other sender has read and not yet used
  displaced   \* history: batches whose pooled transaction was dropped or
              \* replaced by one of another sender

bookVars == <<lastNonce, settled, reverting>>
chainVars == <<mined, pool, bookVars, evictions, foreign, others, displaced>>

(***************************************************************************)
(* NoNonce stands for JavaScript's null: a nonce not read yet, or one that *)
(* could not be read.  Below every nonce, it behaves in Math.max and in    *)
(* `latest > nonce` as the code's null checks do.                          *)
(***************************************************************************)
NoNonce == -1

(***************************************************************************)
(* settleSignedClaims reverts as a whole when one of its batches has a bad *)
(* signature or a passed deadline, and silently skips a batch that is not  *)
(* anchored to lastNonce + 1 (claims.mjs:81-82).                           *)
(***************************************************************************)
Reverts(group) == \E b \in ToSet(group) : b \in reverting

SettleOne(book, b) ==
  IF FirstNonce[b] = book.last[StreamOf[b]] + 1
  THEN [last |-> [book.last EXCEPT ![StreamOf[b]] = @ + 1],
        done |-> book.done \cup {b}]
  ELSE book

Settle(group) ==
  FoldLeft(SettleOne, [last |-> lastNonce, done |-> settled], group)

-----------------------------------------------------------------------------

ChainInit ==
  /\ mined = <<>>
  /\ pool = [n \in {} |-> <<>>]
  /\ lastNonce = [s \in Stream |-> 0]
  /\ settled = {}
  /\ reverting = {}
  /\ evictions = 0
  /\ foreign = 0
  /\ others = [o \in Other |-> NoNonce]
  /\ displaced = {}

(***************************************************************************)
(* A block takes the wallet's next transaction.                            *)
(***************************************************************************)
Mine ==
  /\ Latest \in DOMAIN pool
  /\ LET group == pool[Latest]
     IN  /\ mined' = Append(mined, [group |-> group, ok |-> ~Reverts(group)])
         /\ IF Reverts(group)
            THEN UNCHANGED <<lastNonce, settled>>
            ELSE /\ lastNonce' = Settle(group).last
                 /\ settled' = Settle(group).done
  /\ pool' = Restrict(pool, DOMAIN pool \ {Latest})
  /\ UNCHANGED <<reverting, evictions, foreign, others, displaced>>

(***************************************************************************)
(* The mempool drops a transaction: the "dropped tx" of claims.mjs:180.    *)
(***************************************************************************)
Carried(n) == IF n \in DOMAIN pool THEN ToSet(pool[n]) ELSE {}

Evict(n) ==
  /\ evictions < MaxEvictions
  /\ evictions' = evictions + 1
  /\ pool' = Restrict(pool, DOMAIN pool \ {n})
  /\ displaced' = displaced \cup Carried(n)
  /\ UNCHANGED <<mined, bookVars, foreign, others>>

(***************************************************************************)
(* recordClick and withdrawUserBySig give no nonce: the wallet reads the   *)
(* node's pending count, and sends after more awaits (the estimate, the    *)
(* fees).  By then a settlement may be pooled for the nonce it read, and   *)
(* the node replaces it, or refuses.                                       *)
(***************************************************************************)
ForeignRead(o) ==
  /\ others[o] = NoNonce
  /\ foreign < MaxForeign
  /\ \E n \in PendingCounts : others' = [others EXCEPT ![o] = n]
  /\ UNCHANGED <<mined, pool, bookVars, evictions, foreign, displaced>>

ForeignDone(o) == others' = [others EXCEPT ![o] = NoNonce]

ForeignSend(o) ==
  /\ others[o] # NoNonce
  /\ CanAccept(others[o])
  /\ foreign < MaxForeign
  /\ foreign' = foreign + 1
  /\ pool' = PoolWith(others[o], <<>>)
  /\ displaced' = displaced \cup Carried(others[o])
  /\ ForeignDone(o)
  /\ UNCHANGED <<mined, bookVars, evictions>>

ForeignFails(o) ==
  /\ others[o] # NoNonce
  /\ ForeignDone(o)
  /\ UNCHANGED <<mined, pool, bookVars, evictions, foreign, displaced>>

(***************************************************************************)
(* A batch becomes one that makes the settlement revert: its deadline      *)
(* block passes, or a relay signer it names is rotated.                    *)
(***************************************************************************)
Expire(b) ==
  /\ b \in Mortal \ reverting
  /\ reverting' = reverting \cup {b}
  /\ UNCHANGED <<mined, pool, lastNonce, settled, evictions, foreign, others,
                 displaced>>

ChainNext ==
  \/ Mine
  \/ \E o \in Other : ForeignRead(o) \/ ForeignSend(o) \/ ForeignFails(o)
  \/ \E n \in DOMAIN pool : Evict(n)
  \/ \E b \in Mortal : Expire(b)
=============================================================================
