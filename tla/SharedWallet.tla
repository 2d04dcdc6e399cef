---------------------------- MODULE SharedWallet ----------------------------
(***************************************************************************)
(* The other senders on the relay's wallet: the click batcher (ClickBatch  *)
(* of relay/src/clicks.mjs, with confirmTx of confirm.mjs) and the gasless *)
(* withdrawals (submitWithdraw of withdraw.mjs), next to the settlements   *)
(* of module ClaimSubmitter.                                               *)
(*                                                                         *)
(* Clicks and withdrawals let the wallet pick the nonce: it is read from   *)
(* the node, and the transaction goes out after one or two more awaits,    *)
(* while the others read and send too.  One transaction carries one click, *)
(* one withdrawal or a settlement.                                         *)
(***************************************************************************)
EXTENDS WalletAccount, SequencePositions

CONSTANTS
  Click,             \* the POSTs to /click that the policy accepts
  SessionOf,         \* click -> the impression nonce hashed from it
  Mortal,            \* clicks the registry can come to refuse
  Withdrawal,        \* the POSTs to /withdraw that are well formed
  AuthOf,            \* withdrawal -> the WithdrawAuth the user signed
  Settlement,        \* what a settlement transaction carries
  CLICK_BATCH_SIZE,  \* clicks taken at once
  MaxTroubles        \* bound: what comes from outside: settlements sent,
                     \* transactions dropped, clicks refused, RPC calls that
                     \* fail, crashes

ASSUME WalletAssumption ==
  /\ DOMAIN SessionOf = Click
  /\ DOMAIN AuthOf = Withdrawal
  /\ Click \cap Withdrawal = {}
  /\ Settlement \notin Click \cup Withdrawal
  /\ Mortal \subseteq Click
  /\ CLICK_BATCH_SIZE \in Nat \ {0}
  /\ MaxTroubles \in Nat

VARIABLES
  recorded,     \* the sessions the click registry knows
  refusing,     \* the clicks it refuses now, for another reason (not E90)
  usedAuths,    \* the WithdrawAuths the payment vault has executed
  pending,      \* this.pending of the click batcher
  drain,        \* the running _maybeFlush: [pc, batch, nonce]
  withdraw,     \* withdrawal -> its submitWithdraw: [pc, nonce]
  click,        \* history: click -> where it is, or how it left the batcher
  displaced,    \* history: what was dropped from the mempool or replaced
  unacked,      \* history: what was sent in a call whose reply was lost
  troubles      \* how much of what MaxTroubles bounds has come so far

registryVars == <<recorded, refusing, usedAuths>>
clickVars == <<pending, drain, click>>
sentVars == <<displaced, unacked>>
vars == <<mined, pool, registryVars, clickVars, withdraw, sentVars, troubles>>

Flushes == [pc : {"idle", "nonce", "estimate", "send", "confirm"},
            batch : Seq(Click), nonce : Nat]

Idle == [pc |-> "idle", batch |-> <<>>, nonce |-> 0]

Trouble == troubles < MaxTroubles /\ troubles' = troubles + 1

(***************************************************************************)
(* The node takes a transaction, perhaps in the place of another.          *)
(***************************************************************************)
Broadcast(n, payload) ==
  /\ CanAccept(n)
  /\ pool' = PoolWith(n, payload)
  /\ displaced' = displaced \cup {pool[m] : m \in DOMAIN pool \cap {n}}
  /\ UNCHANGED mined

NotBroadcast == UNCHANGED <<mined, pool, sentVars>>

-----------------------------------------------------------------------------
(* The click batcher                                                       *)

(***************************************************************************)
(* A call of _maybeFlush: nothing when one runs, or when there is neither  *)
(* a full batch nor a click at the front older than                        *)
(* CLICK_BATCH_MAX_AGE_MS.  Time is not modelled: a front click is old at  *)
(* some tick or other.                                                     *)
(***************************************************************************)
FlushWhenFull(queue) ==  \* mutant: the age is not looked at
  drain.pc = "idle" /\ Len(queue) >= CLICK_BATCH_SIZE

FlushDue(queue) == drain.pc = "idle" /\ queue # <<>>

Taken(queue) ==
  SubSeq(queue, 1, IF Len(queue) < CLICK_BATCH_SIZE
                   THEN Len(queue) ELSE CLICK_BATCH_SIZE)

LeftCopied(queue) == queue  \* mutant: slice for splice

Left(queue) == SubSeq(queue, Len(Taken(queue)) + 1, Len(queue))

Flush(queue) ==
  IF FlushDue(queue)
  THEN /\ drain' = [pc |-> "nonce", batch |-> Taken(queue), nonce |-> 0]
       /\ pending' = Left(queue)
  ELSE /\ pending' = queue
       /\ UNCHANGED drain

(***************************************************************************)
(* enqueue: the click waits, and a full batch is taken at once.            *)
(***************************************************************************)
Enqueue(c) ==
  /\ click[c] = "new"
  /\ click' = [click EXCEPT ![c] = "open"]
  /\ IF Len(pending) + 1 >= CLICK_BATCH_SIZE
     THEN Flush(Append(pending, c))
     ELSE pending' = Append(pending, c) /\ UNCHANGED drain
  /\ UNCHANGED <<registryVars, withdraw, troubles>>
  /\ NotBroadcast

Tick ==
  /\ FlushDue(pending)
  /\ Flush(pending)
  /\ UNCHANGED <<click, registryVars, withdraw, troubles>>
  /\ NotBroadcast

(***************************************************************************)
(* The loop over the batch is done with its first click, which leaves the  *)
(* batcher, or is queued again after an error other than E90.              *)
(***************************************************************************)
Current == drain.batch[1]

NextClickStays ==  \* mutant: the loop does not notice its end
  drain' = [pc |-> "nonce", batch |-> Tail(drain.batch), nonce |-> 0]

NextClick ==
  drain' = IF Len(drain.batch) = 1 THEN Idle
           ELSE [pc |-> "nonce", batch |-> Tail(drain.batch), nonce |-> 0]

Leave(how) ==
  /\ click' = [click EXCEPT ![Current] = how]
  /\ NextClick
  /\ UNCHANGED <<pending, registryVars, withdraw>>

Requeue ==
  /\ pending' = Append(pending, Current)
  /\ NextClick
  /\ UNCHANGED <<click, registryVars, withdraw>>

Go(pc, n) ==
  /\ drain' = [drain EXCEPT !.pc = pc, !.nonce = n]
  /\ UNCHANGED <<pending, click, registryVars, withdraw, troubles>>

At(pc) == drain.pc = pc

(***************************************************************************)
(* recordClick: the wallet reads its nonce, estimates and sends.  An       *)
(* estimate that fails on a duplicate is told from another failure by the  *)
(* text E90 in its message, which is there when the registry reverts with  *)
(* a string; CLICK_ABI declares no error, and a custom error then comes as *)
(* a bare selector (abis.mjs:14-18), so that the click is queued again.    *)
(***************************************************************************)
ReadNonce ==
  /\ At("nonce")
  /\ \E n \in PendingCounts : Go("estimate", n)
  /\ NotBroadcast

Duplicate(c) == SessionOf[c] \in recorded

Estimate ==
  /\ At("estimate")
  /\ NotBroadcast
  /\ \/ ~Duplicate(Current) /\ Current \notin refusing /\ Go("send", drain.nonce)
     \/ Duplicate(Current) /\ Leave("duplicate") /\ UNCHANGED troubles
     \/ /\ Duplicate(Current) \/ Current \in refusing
        /\ Requeue
        /\ UNCHANGED troubles

SendTaken ==
  /\ At("send")
  /\ Broadcast(drain.nonce, Current)
  /\ UNCHANGED unacked
  /\ Go("confirm", drain.nonce)

SendRefused ==
  /\ At("send")
  /\ CanRefuse(drain.nonce)
  /\ Requeue
  /\ NotBroadcast
  /\ UNCHANGED troubles

CallFails ==
  /\ drain.pc \in {"nonce", "estimate", "send"}
  /\ Trouble
  /\ Requeue
  /\ NotBroadcast

ReplyLost ==
  /\ At("send")
  /\ Trouble
  /\ Broadcast(drain.nonce, Current)
  /\ unacked' = unacked \cup {Current}
  /\ Requeue

(***************************************************************************)
(* confirmTx: the receipt decides; without one, the account nonce or the   *)
(* timeout ends the wait, and the click is taken for done.                 *)
(***************************************************************************)
HasReceipt == drain.nonce < Latest /\ mined[drain.nonce + 1].payload = Current

ReceiptRead ==
  /\ At("confirm")
  /\ HasReceipt
  /\ IF mined[drain.nonce + 1].ok THEN Leave("confirmed") ELSE Requeue
  /\ NotBroadcast
  /\ UNCHANGED troubles

NonceReached ==  \* mutant: >= for >
  /\ At("confirm")
  /\ Latest >= drain.nonce
  /\ Leave("advanced")
  /\ NotBroadcast
  /\ UNCHANGED troubles

NonceAdvanced ==
  /\ At("confirm")
  /\ Latest > drain.nonce
  /\ Leave("advanced")
  /\ NotBroadcast
  /\ UNCHANGED troubles

TimeoutRequeues ==  \* mutant: an unconfirmed click is queued again
  /\ At("confirm")
  /\ Requeue
  /\ NotBroadcast
  /\ UNCHANGED troubles

Timeout ==
  /\ At("confirm")
  /\ Leave("timeout")
  /\ NotBroadcast
  /\ UNCHANGED troubles

-----------------------------------------------------------------------------
(* The withdrawals                                                         *)

Replies ==
  {"accepted",   \* 202, with the transaction's hash
   "refused"}    \* 400: the preflight failed, or the send did

Withdraws ==
  [pc : Replies \cup {"none", "nonce", "send", "lost"}, nonce : Nat]

Answer(w, reply) ==
  /\ withdraw' = [withdraw EXCEPT ![w] = [pc |-> reply, nonce |-> 0]]
  /\ UNCHANGED <<clickVars, registryVars>>

(***************************************************************************)
(* The preflight, an estimate: an authorisation that was used is refused.  *)
(***************************************************************************)
Preflight(w) ==
  /\ withdraw[w].pc = "none"
  /\ Answer(w, IF AuthOf[w] \in usedAuths THEN "refused" ELSE "nonce")
  /\ NotBroadcast
  /\ UNCHANGED troubles

WithdrawNonce(w) ==
  /\ withdraw[w].pc = "nonce"
  /\ \E n \in PendingCounts :
       withdraw' = [withdraw EXCEPT ![w] = [pc |-> "send", nonce |-> n]]
  /\ UNCHANGED <<clickVars, registryVars, troubles>>
  /\ NotBroadcast

WithdrawTaken(w) ==
  /\ withdraw[w].pc = "send"
  /\ Broadcast(withdraw[w].nonce, w)
  /\ Answer(w, "accepted")
  /\ UNCHANGED <<unacked, troubles>>

WithdrawRefusedOk(w) ==  \* mutant: the failed send is answered 202
  /\ withdraw[w].pc = "send"
  /\ CanRefuse(withdraw[w].nonce)
  /\ Answer(w, "accepted")
  /\ NotBroadcast
  /\ UNCHANGED troubles

WithdrawRefused(w) ==
  /\ withdraw[w].pc = "send"
  /\ CanRefuse(withdraw[w].nonce)
  /\ Answer(w, "refused")
  /\ NotBroadcast
  /\ UNCHANGED troubles

WithdrawFails(w) ==
  /\ withdraw[w].pc \in {"none", "nonce", "send"}
  /\ Trouble
  /\ Answer(w, "refused")
  /\ NotBroadcast

WithdrawReplyLost(w) ==
  /\ withdraw[w].pc = "send"
  /\ Trouble
  /\ Broadcast(withdraw[w].nonce, w)
  /\ unacked' = unacked \cup {w}
  /\ Answer(w, "refused")

-----------------------------------------------------------------------------
(* The chain, the settlements and the process                              *)

(***************************************************************************)
(* A block takes the wallet's next transaction.  The registry reverts on a *)
(* known session (E90) or a click it refuses, the vault on a used auth.    *)
(***************************************************************************)
Succeeds(payload) ==
  IF payload \in Click THEN ~Duplicate(payload) /\ payload \notin refusing
  ELSE payload \in Withdrawal => AuthOf[payload] \notin usedAuths

Mine ==
  /\ Latest \in DOMAIN pool
  /\ LET payload == pool[Latest]
         good == {payload} \cap {p \in {payload} : Succeeds(p)}
     IN  /\ mined' = Append(mined, [payload |-> payload, ok |-> good # {}])
         /\ recorded' = recorded \cup {SessionOf[c] : c \in good \cap Click}
         /\ usedAuths' = usedAuths \cup {AuthOf[w] : w \in good \cap Withdrawal}
  /\ pool' = Restrict(pool, DOMAIN pool \ {Latest})
  /\ UNCHANGED <<refusing, clickVars, withdraw, sentVars, troubles>>

Evict(n) ==
  /\ Trouble
  /\ pool' = Restrict(pool, DOMAIN pool \ {n})
  /\ displaced' = displaced \cup {pool[n]}
  /\ UNCHANGED <<mined, registryVars, clickVars, withdraw, unacked>>

(***************************************************************************)
(* The registry comes to refuse a click (its campaign is paused, say).     *)
(***************************************************************************)
Turn(c) ==
  /\ c \in Mortal \ refusing
  /\ Trouble
  /\ refusing' = refusing \cup {c}
  /\ UNCHANGED <<recorded, usedAuths, clickVars, withdraw>>
  /\ NotBroadcast

(***************************************************************************)
(* The settlement pipeline sends with the nonce it counts by itself: it    *)
(* can be one that another sender has used since.                          *)
(***************************************************************************)
Settle ==
  /\ Trouble
  /\ \E n \in Latest .. Latest + Cardinality(DOMAIN pool) : Broadcast(n, Settlement)
  /\ UNCHANGED <<registryVars, clickVars, withdraw, unacked>>

(***************************************************************************)
(* The process dies and starts again; a send under way may have reached    *)
(* the node.                                                               *)
(***************************************************************************)
SendsUnderWay ==
  {<<drain.nonce, c>> : c \in {d \in Click : At("send") /\ d = Current}}
    \cup {<<withdraw[w].nonce, w>> : w \in {v \in Withdrawal : withdraw[v].pc = "send"}}

Crash ==
  /\ Trouble
  /\ \/ UNCHANGED <<mined, pool, displaced>>
     \/ \E send \in SendsUnderWay : Broadcast(send[1], send[2])
  /\ pending' = <<>>
  /\ drain' = Idle
  /\ click' = [c \in Click |-> IF click[c] = "open" THEN "lost" ELSE click[c]]
  /\ withdraw' = [w \in Withdrawal |->
       IF withdraw[w].pc \in {"nonce", "send"}
       THEN [pc |-> "lost", nonce |-> 0] ELSE withdraw[w]]
  /\ UNCHANGED <<registryVars, unacked>>

(***************************************************************************)
(* Nothing runs: the process waits for a request, and the timer fires.     *)
(***************************************************************************)
Rest ==
  /\ At("idle")
  /\ \A w \in Withdrawal : withdraw[w].pc \notin {"nonce", "send"}
  /\ UNCHANGED vars

-----------------------------------------------------------------------------

Init ==
  /\ mined = <<>>
  /\ pool = [n \in {} |-> Settlement]
  /\ recorded = {}
  /\ refusing = {}
  /\ usedAuths \in SUBSET {AuthOf[w] : w \in Withdrawal}
  /\ pending = <<>>
  /\ drain = Idle
  /\ withdraw = [w \in Withdrawal |-> [pc |-> "none", nonce |-> 0]]
  /\ click = [c \in Click |-> "new"]
  /\ displaced = {}
  /\ unacked = {}
  /\ troubles = 0

DrainStep ==
  \/ ReadNonce \/ Estimate
  \/ SendTaken \/ SendRefused \/ CallFails \/ ReplyLost
  \/ ReceiptRead \/ NonceAdvanced \/ Timeout

WithdrawStep(w) ==
  \/ Preflight(w) \/ WithdrawNonce(w)
  \/ WithdrawTaken(w) \/ WithdrawRefused(w)
  \/ WithdrawFails(w) \/ WithdrawReplyLost(w)

Next ==
  \/ \E c \in Click : Enqueue(c)
  \/ Tick
  \/ DrainStep
  \/ \E w \in Withdrawal : WithdrawStep(w)
  \/ Mine
  \/ \E n \in DOMAIN pool : Evict(n)
  \/ \E c \in Mortal : Turn(c)
  \/ Settle
  \/ Rest
  \/ Crash

Spec == Init /\ [][Next]_vars

(***************************************************************************)
(* Fairness: the timer fires and time passes, RPC calls are answered or    *)
(* fail (confirmTx has its own deadline).  Whether a block is mined while  *)
(* a click is waited for makes no difference to the batcher's progress.    *)
(***************************************************************************)
FairSpec ==
  /\ Spec
  /\ WF_vars(Tick)
  /\ WF_vars(DrainStep)
-----------------------------------------------------------------------------
(* Properties                                                              *)

(***************************************************************************)
(* The type invariant.  A flush that runs has a click in hand.             *)
(***************************************************************************)
Payload == Click \cup Withdrawal \cup {Settlement}

LeftAs == {"confirmed", "advanced", "timeout", "duplicate", "lost"}

TypeOK ==
  /\ mined \in Seq([payload : Payload, ok : BOOLEAN])
  /\ DOMAIN pool \subseteq Nat
  /\ pool \in [DOMAIN pool -> Payload]
  /\ recorded \subseteq {SessionOf[c] : c \in Click}
  /\ refusing \subseteq Mortal
  /\ usedAuths \subseteq {AuthOf[w] : w \in Withdrawal}
  /\ pending \in Seq(Click)
  /\ drain \in Flushes
  /\ drain.pc = "idle" <=> drain.batch = <<>>
  /\ withdraw \in [Withdrawal -> Withdraws]
  /\ click \in [Click -> LeftAs \cup {"new", "open"}]
  /\ displaced \subseteq Payload
  /\ unacked \subseteq Payload
  /\ troubles \in 0 .. MaxTroubles

(***************************************************************************)
(* No click is lost or doubled between splice and push (clicks.mjs:61-74): *)
(* one that was accepted and has not left is exactly once in the queue or  *)
(* in the rest of the batch, one that left is in neither.                  *)
(***************************************************************************)
ClickInOnePlace ==
  \A c \in Click :
    Cardinality(Positions(pending, c)) + Cardinality(Positions(drain.batch, c))
      = IF click[c] = "open" THEN 1 ELSE 0

(***************************************************************************)
(* What the chain carries for a payload.                                   *)
(***************************************************************************)
Carried(p) ==
  {n \in 0 .. Latest - 1 : mined[n + 1].payload = p}
    \cup {n \in DOMAIN pool : pool[n] = p}

Reverted(p) == \E i \in DOMAIN mined : mined[i].payload = p /\ ~mined[i].ok

(***************************************************************************)
(* A click that leaves the batcher is recorded by the registry, though     *)
(* confirmTx takes an advanced nonce and even a timeout for success        *)
(* (clicks.mjs:68-69): unless its transaction was dropped or replaced,     *)
(* reverted with an unreadable receipt, or is still pooled at the timeout. *)
(***************************************************************************)
LeavesRecorded ==
  \A c \in Click : click[c] \in LeftAs \ {"lost"} =>
    \/ Duplicate(c)
    \/ click[c] \in {"advanced", "timeout"} /\ (c \in displaced \/ Reverted(c))
    \/ click[c] = "timeout" /\ Carried(c) # {}

(***************************************************************************)
(* A click goes out in two transactions only when the reply to the first   *)
(* was lost or the first reverted: not because its confirmation is late,   *)
(* whoever took its nonce meanwhile.                                       *)
(***************************************************************************)
ResentAfterFailure ==
  \A c \in Click :
    Cardinality(Carried(c)) > 1 => c \in unacked \/ Reverted(c)

(***************************************************************************)
(* What a user is told of a withdrawal is what the chain has: an accepted  *)
(* one was sent and can only be missing when dropped or replaced, whatever *)
(* the other senders did to its nonce between its read and the send; a     *)
(* refused one was not sent, unless the reply to the relay was lost.       *)
(***************************************************************************)
AnswerMatchesChain ==
  \A w \in Withdrawal :
    /\ withdraw[w].pc = "accepted" => Carried(w) # {} \/ w \in displaced
    /\ withdraw[w].pc = "refused" => Carried(w) = {} \/ w \in unacked

(***************************************************************************)
(* Every click the registry would record leaves the batcher in the end,    *)
(* behind ones that are queued again without limit (clicks.mjs:74), failed *)
(* calls, drops and timeouts; and so does every click whose transaction    *)
(* is out.  Those queued again are the exception: clicks that are refused, *)
(* and duplicates of a recorded session, which may not be told apart.      *)
(***************************************************************************)
Awaited(c) == At("confirm") /\ Current = c

ClicksLeave ==
  \A c \in Click :
    click[c] = "open" ~>
      \/ click[c] # "open"
      \/ c \in refusing
      \/ Duplicate(c) /\ ~Awaited(c)
=============================================================================
