--------------------------- MODULE ClaimSubmitter ---------------------------
(***************************************************************************)
(* The pipelined settlement submitter of the relay: ClaimQueue._pump,      *)
(* _syncNonce, _handleReject and _reconcile of relay/src/claims.mjs, run   *)
(* by the one-second timer of start() and by every batch that is queued.   *)
(*                                                                         *)
(* The code is single-threaded JavaScript: what runs between two awaits is *)
(* one step.  The pump and the reconciler are each single-flight           *)
(* (_pumping, _reconciling) but interleave with each other, with new       *)
(* batches and with the chain at every await, so each has a pc that names  *)
(* the RPC call it is waiting for.                                         *)
(***************************************************************************)
EXTENDS SettlementChain, SequencePositions

CONSTANTS
  CLAIM_BATCH_SIZE,    \* batches per settlement transaction
  MAX_INFLIGHT,        \* transactions in flight at once
  MAX_SUBMIT_RETRIES,  \* submission attempts, and resubmissions
  MaxFaults,           \* bound: RPC calls that fail
  MaxCrashes           \* bound: crashes of the relay process

ASSUME SubmitterAssumption ==
  /\ CLAIM_BATCH_SIZE \in Nat \ {0}
  /\ MAX_INFLIGHT \in Nat \ {0}
  /\ MAX_SUBMIT_RETRIES \in Nat \ {0}
  /\ MaxFaults \in Nat
  /\ MaxCrashes \in Nat

VARIABLES
  pending,    \* co-signed batches awaiting submission, oldest first
  attempts,   \* batch -> failed submissions (b.attempts)
  inflight,   \* _inflight: nonce -> [batches, attempts, aged]
  nextNonce,  \* _nextNonce, NoNonce while the process has not read it
  pump,       \* the running _pump call: [pc, group, nonce]
  rec,        \* the running _reconcile call: [pc, latest, todo]
  outcome,    \* history: what the relay reported of each batch
  arrival,    \* history: the batches in the order they were queued
  unacked,    \* history: batches sent in a call whose reply was lost
  faults,     \* RPC faults so far
  crashes     \* crashes so far

submitterVars == <<pending, attempts, inflight, nextNonce, pump, rec,
                   outcome, arrival, unacked, faults, crashes>>
vars == <<chainVars, submitterVars>>

PumpIdle == [pc |-> "idle", group |-> <<>>, nonce |-> NoNonce]
RecIdle == [pc |-> "idle", latest |-> NoNonce, todo |-> {}]

Outcomes ==
  {"open",        \* not reported yet
   "confirmed",   \* counted in claimsConfirmed
   "reverted",    \* "settle reverted on-chain"
   "rejected",    \* "claim rejected (terminal)"
   "exhausted",   \* "dropping claim after max retries"
   "stuck",       \* "dropping stuck tx"
   "lost"}        \* the process died holding it

Arrived == ToSet(arrival)
ReportFirst(group, what) ==  \* mutant: only the group's first batch counts
  [outcome EXCEPT ![group[1]] = what]

Report(group, what) ==
  [b \in Batch |-> IF b \in ToSet(group) THEN what ELSE outcome[b]]

Fault == faults < MaxFaults /\ faults' = faults + 1

-----------------------------------------------------------------------------
(* The pump                                                                *)

(***************************************************************************)
(* The head of the while loop: take a copy of the first batches and wait   *)
(* for their gas estimate, or leave the loop.                              *)
(***************************************************************************)
GroupSize(queue) ==
  IF Len(queue) < CLAIM_BATCH_SIZE THEN Len(queue) ELSE CLAIM_BATCH_SIZE

LoopHeadOneMore(queue, flight) ==  \* mutant: <= for < in the budget test
  IF queue # <<>> /\ Cardinality(DOMAIN flight) <= MAX_INFLIGHT
  THEN [pc |-> "estimate",
        group |-> SubSeq(queue, 1, GroupSize(queue)), nonce |-> NoNonce]
  ELSE PumpIdle

LoopHead(queue, flight) ==
  IF queue # <<>> /\ Cardinality(DOMAIN flight) < MAX_INFLIGHT
  THEN [pc |-> "estimate",
        group |-> SubSeq(queue, 1, GroupSize(queue)), nonce |-> NoNonce]
  ELSE PumpIdle

(***************************************************************************)
(* A call of _pump: nothing when one is running or the queue is empty;     *)
(* otherwise up to its first await, the nonce read when it is due.         *)
(***************************************************************************)
SyncOnce == nextNonce = NoNonce  \* mutant: the nonce is read only once

SyncDue == nextNonce = NoNonce \/ DOMAIN inflight = {}

CallPump(queue) ==
  IF pump.pc # "idle" \/ queue = <<>> THEN pump
  ELSE IF SyncDue THEN [PumpIdle EXCEPT !.pc = "sync"]
  ELSE LoopHead(queue, inflight)

(***************************************************************************)
(* A co-signed batch is queued, and the pump is called: the last lines of  *)
(* enqueue and of approve.                                                 *)
(***************************************************************************)
PushFirst(b) ==  \* mutant: queued at the front
  /\ b \notin Arrived
  /\ arrival' = Append(arrival, b)
  /\ pending' = <<b>> \o pending
  /\ pump' = CallPump(pending')
  /\ UNCHANGED <<chainVars, attempts, inflight, nextNonce, rec, outcome,
                 unacked, faults, crashes>>

Push(b) ==
  /\ b \notin Arrived
  /\ arrival' = Append(arrival, b)
  /\ pending' = Append(pending, b)
  /\ pump' = CallPump(pending')
  /\ UNCHANGED <<chainVars, attempts, inflight, nextNonce, rec, outcome,
                 unacked, faults, crashes>>

(***************************************************************************)
(* _syncNonce: the local nonce never moves down.                           *)
(***************************************************************************)
Rebase(n) == IF nextNonce > n THEN nextNonce ELSE n

SyncNonce ==
  /\ pump.pc = "sync"
  /\ \E n \in PendingCounts : nextNonce' = Rebase(n)
  /\ pump' = LoopHead(pending, inflight)
  /\ UNCHANGED <<chainVars, pending, attempts, inflight, rec, outcome, arrival,
                 unacked, faults, crashes>>

SyncFails ==
  /\ pump.pc = "sync"
  /\ Fault
  /\ pump' = PumpIdle
  /\ UNCHANGED <<chainVars, pending, attempts, inflight, nextNonce, rec,
                 outcome, arrival, unacked, crashes>>

(***************************************************************************)
(* The estimate passes: the batches leave the queue, the nonce is taken    *)
(* and the transaction is sent.                                            *)
(***************************************************************************)
WithoutOne == Tail(pending)  \* mutant: one batch is removed, not the group
NotRemoved == pending        \* mutant: the group stays in the queue

WithoutGroup == SubSeq(pending, Len(pump.group) + 1, Len(pending))

EstimatePasses ==
  /\ pump.pc = "estimate"
  /\ ~Reverts(pump.group)
  /\ pending' = WithoutGroup
  /\ nextNonce' = nextNonce + 1
  /\ pump' = [pc |-> "send", group |-> pump.group, nonce |-> nextNonce]
  /\ UNCHANGED <<chainVars, attempts, inflight, rec, outcome, arrival, unacked,
                 faults, crashes>>

(***************************************************************************)
(* _handleReject on a revert it knows to be final: the whole group goes.   *)
(***************************************************************************)
EstimateRevertsReclaiming ==  \* mutant: gives back a nonce it did not take
  /\ pump.pc = "estimate"
  /\ Reverts(pump.group)
  /\ pending' = WithoutGroup
  /\ outcome' = Report(pump.group, "rejected")
  /\ pump' = LoopHead(pending', inflight)
  /\ nextNonce' = nextNonce - 1
  /\ UNCHANGED <<chainVars, attempts, inflight, rec, arrival, unacked, faults,
                 crashes>>

EstimateReverts ==
  /\ pump.pc = "estimate"
  /\ Reverts(pump.group)
  /\ pending' = WithoutGroup
  /\ outcome' = Report(pump.group, "rejected")
  /\ pump' = LoopHead(pending', inflight)
  /\ UNCHANGED <<chainVars, attempts, inflight, nextNonce, rec, arrival,
                 unacked, faults, crashes>>

(***************************************************************************)
(* _handleReject on any other error: a batch with attempts left goes to    *)
(* the end of the queue, the others are dropped, and the loop goes on.     *)
(***************************************************************************)
HasRetry(b) == attempts[b] + 1 < MAX_SUBMIT_RETRIES

EstimateFails ==
  /\ pump.pc = "estimate"
  /\ Fault
  /\ attempts' = [b \in Batch |->
       IF b \in ToSet(pump.group) THEN attempts[b] + 1 ELSE attempts[b]]
  /\ \E kept \in BoundedSeq(Batch, CLAIM_BATCH_SIZE) :
       /\ IsSelection(kept, pump.group, {b \in Batch : HasRetry(b)})
       /\ pending' = WithoutGroup \o kept
  /\ outcome' = [b \in Batch |->
       IF b \in ToSet(pump.group) /\ ~HasRetry(b) THEN "exhausted"
       ELSE outcome[b]]
  /\ pump' = LoopHead(pending', inflight)
  /\ UNCHANGED <<chainVars, inflight, nextNonce, rec, arrival, unacked,
                 crashes>>

(***************************************************************************)
(* The node takes the transaction and the reply arrives: it is tracked.    *)
(***************************************************************************)
Track(n, group) ==
  [m \in DOMAIN inflight \cup {n} |->
     IF m = n THEN [batches |-> group, attempts |-> 0, aged |-> FALSE]
     ELSE inflight[m]]

SendAccepted ==
  /\ pump.pc = "send"
  /\ CanAccept(pump.nonce)
  /\ pool' = PoolWith(pump.nonce, pump.group)
  /\ inflight' = Track(pump.nonce, pump.group)
  /\ pump' = LoopHead(pending, inflight')
  /\ UNCHANGED <<mined, bookVars, evictions, foreign, others, displaced,
                 pending, attempts, nextNonce, rec, outcome, arrival, unacked,
                 faults, crashes>>

(***************************************************************************)
(* The send throws: the nonce is given back, the group goes back to the    *)
(* front of the queue, and the pump stops.                                 *)
(***************************************************************************)
BackOffAtEnd ==  \* mutant: the group goes to the end of the queue
  /\ pump.pc = "send"
  /\ nextNonce' = nextNonce - 1
  /\ pending' = pending \o pump.group
  /\ pump' = PumpIdle
  /\ UNCHANGED <<attempts, inflight, rec, outcome, arrival, crashes>>

BackOffKeepingNonce ==  \* mutant: the nonce is not given back
  /\ pump.pc = "send"
  /\ pending' = pump.group \o pending
  /\ pump' = PumpIdle
  /\ UNCHANGED <<attempts, inflight, nextNonce, rec, outcome, arrival,
                 crashes>>

BackOff ==
  /\ pump.pc = "send"
  /\ nextNonce' = nextNonce - 1
  /\ pending' = pump.group \o pending
  /\ pump' = PumpIdle
  /\ UNCHANGED <<attempts, inflight, rec, outcome, arrival, crashes>>

SendRefused ==
  /\ BackOff
  /\ CanRefuse(pump.nonce)
  /\ UNCHANGED <<chainVars, unacked, faults>>

SendFails ==
  /\ BackOff
  /\ Fault
  /\ UNCHANGED <<chainVars, unacked>>

(***************************************************************************)
(* The node takes the transaction, but its reply is lost.                  *)
(***************************************************************************)
SendReplyLost ==
  /\ BackOff
  /\ Fault
  /\ CanAccept(pump.nonce)
  /\ pool' = PoolWith(pump.nonce, pump.group)
  /\ unacked' = unacked \cup ToSet(pump.group)
  /\ UNCHANGED <<mined, bookVars, evictions, foreign, others, displaced>>

-----------------------------------------------------------------------------
(* The reconciler                                                          *)

(***************************************************************************)
(* A call of _reconcile, up to its first await.                            *)
(***************************************************************************)
CallReconcile ==
  IF rec.pc # "idle" \/ DOMAIN inflight = {} THEN rec
  ELSE [RecIdle EXCEPT !.pc = "latest"]

(***************************************************************************)
(* The account nonce arrives (or null, when the call fails), and the loop  *)
(* starts over a snapshot of the transactions in flight.                   *)
(***************************************************************************)
GotLatest(latest) ==
  /\ rec.pc = "latest"
  /\ rec' = [pc |-> "receipt", latest |-> latest, todo |-> DOMAIN inflight]
  /\ UNCHANGED <<chainVars, pending, attempts, inflight, nextNonce, pump,
                 outcome, arrival, unacked, crashes>>

ReadLatest == GotLatest(Latest) /\ UNCHANGED faults
ReadLatestFails == GotLatest(NoNonce) /\ Fault

(***************************************************************************)
(* The loop goes in nonce order; Next(n) is where it stands after nonce n. *)
(***************************************************************************)
Current(n) == n \in rec.todo /\ \A m \in rec.todo : n <= m

AfterAgain(n) == [rec EXCEPT !.pc = "receipt"]  \* mutant: the loop stays at n

After(n) ==
  IF rec.todo = {n} THEN RecIdle
  ELSE [pc |-> "receipt", latest |-> rec.latest, todo |-> rec.todo \ {n}]

Resolve(n, what) ==
  /\ outcome' = Report(inflight[n].batches, what)
  /\ inflight' = Restrict(inflight, DOMAIN inflight \ {n})
  /\ rec' = After(n)
  /\ UNCHANGED <<chainVars, pending, attempts, nextNonce, pump, arrival,
                 unacked, faults, crashes>>

AtReceipt(n) == rec.pc = "receipt" /\ Current(n)

(***************************************************************************)
(* The receipt of the tracked transaction is there only if that very       *)
(* transaction was mined.                                                  *)
(***************************************************************************)
HasReceipt(n) == n < Latest /\ mined[n + 1].group = inflight[n].batches

ReceiptFound(n) ==
  /\ AtReceipt(n)
  /\ HasReceipt(n)
  /\ Resolve(n, IF mined[n + 1].ok THEN "confirmed" ELSE "reverted")

(***************************************************************************)
(* No receipt: not mined, not readable (the Paseo bug) or the call failed. *)
(* The nonce read before the loop decides, then the age.                   *)
(***************************************************************************)
NonceReached(n) ==  \* mutant: >= for > against the account nonce
  /\ AtReceipt(n)
  /\ rec.latest >= n
  /\ Resolve(n, "confirmed")

NonceAdvanced(n) ==
  /\ AtReceipt(n)
  /\ rec.latest > n
  /\ Resolve(n, "confirmed")

StuckTooOften(n) ==
  /\ AtReceipt(n)
  /\ ~(rec.latest > n)
  /\ inflight[n].aged
  /\ inflight[n].attempts + 1 > MAX_SUBMIT_RETRIES
  /\ Resolve(n, "stuck")

StillYoung(n) ==
  /\ AtReceipt(n)
  /\ ~(rec.latest > n)
  /\ ~inflight[n].aged
  /\ rec' = After(n)
  /\ UNCHANGED <<chainVars, pending, attempts, inflight, nextNonce, pump,
                 outcome, arrival, unacked, faults, crashes>>

Resubmit(n) ==
  /\ AtReceipt(n)
  /\ ~(rec.latest > n)
  /\ inflight[n].aged
  /\ inflight[n].attempts + 1 <= MAX_SUBMIT_RETRIES
  /\ inflight' = [inflight EXCEPT ![n].attempts = @ + 1]
  /\ rec' = [rec EXCEPT !.pc = "resend"]
  /\ UNCHANGED <<chainVars, pending, attempts, nextNonce, pump, outcome,
                 arrival, unacked, faults, crashes>>

(***************************************************************************)
(* The resubmission carries no gas limit, so it is estimated first and a   *)
(* group that now reverts is not sent.                                     *)
(***************************************************************************)
AtResend(n) == rec.pc = "resend" /\ Current(n)

ResendAccepted(n) ==
  /\ AtResend(n)
  /\ CanAccept(n)
  /\ ~Reverts(inflight[n].batches)
  /\ pool' = PoolWith(n, inflight[n].batches)
  /\ inflight' = [inflight EXCEPT ![n].aged = FALSE]
  /\ rec' = After(n)
  /\ UNCHANGED <<mined, bookVars, evictions, foreign, others, displaced,
                 pending, attempts, nextNonce, pump, outcome, arrival, unacked,
                 faults, crashes>>

(***************************************************************************)
(* A failed resubmission is only logged: sentAt stays as it was.           *)
(***************************************************************************)
GiveUpResend(n) ==
  /\ AtResend(n)
  /\ rec' = After(n)
  /\ UNCHANGED <<pending, attempts, inflight, nextNonce, pump, outcome,
                 arrival, unacked, crashes>>

ResendRefused(n) ==
  /\ GiveUpResend(n)
  /\ CanRefuse(n) \/ Reverts(inflight[n].batches)
  /\ UNCHANGED <<chainVars, faults>>

ResendFails(n) == GiveUpResend(n) /\ Fault /\ UNCHANGED chainVars

ResendReplyLost(n) ==
  /\ GiveUpResend(n)
  /\ Fault
  /\ CanAccept(n)
  /\ ~Reverts(inflight[n].batches)
  /\ pool' = PoolWith(n, inflight[n].batches)
  /\ UNCHANGED <<mined, bookVars, evictions, foreign, others, displaced>>

-----------------------------------------------------------------------------
(* Time, the timer and the process                                         *)

(***************************************************************************)
(* SETTLE_STUCK_MS passes for a transaction in flight.                     *)
(***************************************************************************)
Age(n) ==
  /\ ~inflight[n].aged
  /\ inflight' = [inflight EXCEPT ![n].aged = TRUE]
  /\ UNCHANGED <<chainVars, pending, attempts, nextNonce, pump, rec, outcome,
                 arrival, unacked, faults, crashes>>

(***************************************************************************)
(* The one-second timer calls both; a tick with nothing to do is Rest.     *)
(***************************************************************************)
Tick ==
  /\ pump' = CallPump(pending)
  /\ rec' = CallReconcile
  /\ <<pump', rec'>> # <<pump, rec>>
  /\ UNCHANGED <<chainVars, pending, attempts, inflight, nextNonce, outcome,
                 arrival, unacked, faults, crashes>>

Rest ==
  /\ pending = <<>>
  /\ DOMAIN inflight = {}
  /\ pump.pc = "idle"
  /\ rec.pc = "idle"
  /\ UNCHANGED vars

(***************************************************************************)
(* The process, which the other senders are part of, dies and is started   *)
(* again: the queue, the map and the counters were in memory.  A send that *)
(* was under way may have reached the node.                                *)
(***************************************************************************)
SendsUnderWay ==
  (IF pump.pc = "send" THEN {<<pump.nonce, pump.group>>} ELSE {})
  \cup {<<n, inflight[n].batches>> : n \in {m \in DOMAIN inflight : AtResend(m)}}

Crash ==
  /\ crashes < MaxCrashes
  /\ crashes' = crashes + 1
  /\ \/ pool' = pool
     \/ \E send \in SendsUnderWay :
          CanAccept(send[1]) /\ pool' = PoolWith(send[1], send[2])
  /\ pending' = <<>>
  /\ attempts' = [b \in Batch |-> 0]
  /\ inflight' = [n \in {} |-> <<>>]
  /\ nextNonce' = NoNonce
  /\ pump' = PumpIdle
  /\ rec' = RecIdle
  /\ outcome' = [b \in Batch |->
       IF b \in Arrived /\ outcome[b] = "open" THEN "lost" ELSE outcome[b]]
  /\ others' = [o \in Other |-> NoNonce]
  /\ UNCHANGED <<mined, bookVars, evictions, foreign, displaced, arrival,
                 unacked, faults>>

-----------------------------------------------------------------------------

SubmitterInit ==
  /\ pending = <<>>
  /\ attempts = [b \in Batch |-> 0]
  /\ inflight = [n \in {} |-> <<>>]
  /\ nextNonce = NoNonce
  /\ pump = PumpIdle
  /\ rec = RecIdle
  /\ outcome = [b \in Batch |-> "open"]
  /\ arrival = <<>>
  /\ unacked = {}
  /\ faults = 0
  /\ crashes = 0

Init == ChainInit /\ SubmitterInit

PumpStep ==
  \/ SyncNonce \/ SyncFails
  \/ EstimatePasses \/ EstimateReverts \/ EstimateFails
  \/ SendAccepted \/ SendRefused \/ SendFails \/ SendReplyLost

RecStep ==
  \/ ReadLatest \/ ReadLatestFails
  \/ \E n \in rec.todo :
       \/ ReceiptFound(n) \/ NonceAdvanced(n) \/ StuckTooOften(n)
       \/ StillYoung(n) \/ Resubmit(n)
       \/ ResendAccepted(n) \/ ResendRefused(n)
       \/ ResendFails(n) \/ ResendReplyLost(n)

RelayNext ==
  \/ \E b \in Batch : Push(b)
  \/ PumpStep
  \/ RecStep
  \/ \E n \in DOMAIN inflight : Age(n)
  \/ Tick
  \/ Rest
  \/ Crash

Next == RelayNext \/ (ChainNext /\ UNCHANGED submitterVars)

Spec == Init /\ [][Next]_vars

(***************************************************************************)
(* Fairness: the timer fires and time passes (setInterval, Date.now), RPC  *)
(* calls are answered or fail (no call is awaited for ever: ethers has its *)
(* own timeout), and blocks take the transactions that can be mined.       *)
(* Nothing makes a batch arrive, an RPC call fail, a transaction be        *)
(* dropped, a deadline pass or the process die.                            *)
(***************************************************************************)
Fairness ==
  /\ WF_vars(PumpStep)
  /\ WF_vars(RecStep)
  /\ WF_vars(\E n \in DOMAIN inflight : Age(n))
  /\ WF_vars(Tick)
  /\ WF_vars(Mine /\ UNCHANGED submitterVars)

FairSpec == Spec /\ Fairness
-----------------------------------------------------------------------------
(* Properties                                                              *)

Groups == {g \in Seq(Batch) : g # <<>> /\ Len(g) <= CLAIM_BATCH_SIZE}

(***************************************************************************)
(* The type invariant, by subsystem (the contract's own book apart).  A    *)
(* group being sent or in flight is not empty and fits one transaction,    *)
(* and the reconciler's snapshot only names transactions still tracked,    *)
(* whatever the pump did while it awaited a receipt.                       *)
(***************************************************************************)
ChainTypeOK ==
  /\ mined \in Seq([group : Seq(Batch), ok : BOOLEAN])
  /\ DOMAIN pool \subseteq Nat /\ IsFiniteSet(DOMAIN pool)
  /\ pool \in [DOMAIN pool -> Seq(Batch)]
  /\ reverting \subseteq Batch

OthersTypeOK ==
  /\ others \in [Other -> Nat \cup {NoNonce}]
  /\ displaced \subseteq Batch

QueueTypeOK ==
  /\ pending \in Seq(Batch)
  /\ attempts \in [Batch -> Nat]

Tracked == [batches : Groups, attempts : 0 .. MAX_SUBMIT_RETRIES, aged : BOOLEAN]

FlightTypeOK ==
  /\ DOMAIN inflight \subseteq Nat /\ IsFiniteSet(DOMAIN inflight)
  /\ inflight \in [DOMAIN inflight -> Tracked]

PumpTypeOK ==
  /\ nextNonce \in Nat \cup {NoNonce}
  /\ pump \in [pc : {"idle", "sync", "estimate", "send"},
               group : Groups \cup {<<>>}, nonce : Nat \cup {NoNonce}]
  /\ pump.pc \in {"estimate", "send"} => pump.group \in Groups
  /\ pump.pc = "send" => pump.nonce = nextNonce - 1

RecTypeOK ==
  rec \in [pc : {"idle", "latest", "receipt", "resend"},
           latest : Nat \cup {NoNonce}, todo : SUBSET DOMAIN inflight]

HistoryTypeOK ==
  /\ outcome \in [Batch -> Outcomes]
  /\ arrival \in Seq(Batch)
  /\ unacked \subseteq Batch

BoundsOK ==
  /\ evictions \in 0 .. MaxEvictions
  /\ foreign \in 0 .. MaxForeign
  /\ faults \in 0 .. MaxFaults
  /\ crashes \in 0 .. MaxCrashes

TypeOK ==
  /\ ChainTypeOK
  /\ OthersTypeOK
  /\ QueueTypeOK
  /\ FlightTypeOK
  /\ PumpTypeOK
  /\ RecTypeOK
  /\ HistoryTypeOK
  /\ BoundsOK

(***************************************************************************)
(* Nonces are never shared (claims.mjs:214-224): every tracked transaction *)
(* is below the next nonce, and the nonce being sent is not tracked, so    *)
(* that neither a new send nor a nonce given back after a failed one can   *)
(* overwrite an entry of _inflight.                                        *)
(***************************************************************************)
NonceDiscipline ==
  /\ \A n \in DOMAIN inflight : n < nextNonce
  /\ pump.pc = "send" => pump.nonce \notin DOMAIN inflight

(***************************************************************************)
(* The budget of claims.mjs:195 holds although it is tested before two     *)
(* awaits: never more than MAX_INFLIGHT transactions are tracked.          *)
(***************************************************************************)
InflightBound == Cardinality(DOMAIN inflight) <= MAX_INFLIGHT

(***************************************************************************)
(* The group being estimated is a copy (slice, claims.mjs:196) and is      *)
(* removed by length after the await (splice, claims.mjs:206 and 213): it  *)
(* must still be what the queue begins with when the reply comes.          *)
(***************************************************************************)
EstimatedGroupIsNext ==
  pump.pc = "estimate" => pump.group # <<>> /\ IsPrefix(pump.group, pending)

(***************************************************************************)
(* No batch is lost without a report or is in two places: one that arrived *)
(* and has no outcome is exactly once in the queue, in the transaction     *)
(* being sent, or in a tracked transaction; one with an outcome is nowhere.*)
(***************************************************************************)
Sending == IF pump.pc = "send" THEN pump.group ELSE <<>>

Places(b) ==
  Cardinality(Positions(pending, b)) + Cardinality(Positions(Sending, b))
    + Cardinality(UNION {{n} \X Positions(inflight[n].batches, b) :
                           n \in DOMAIN inflight})

OneStage ==
  \A b \in Batch :
    Places(b) = IF b \in Arrived /\ outcome[b] = "open" THEN 1 ELSE 0

(***************************************************************************)
(* A batch that never failed an estimate is not overtaken: neither the     *)
(* requeue of other batches at the end (claims.mjs:251), nor the one at    *)
(* the front after a failed send (claims.mjs:225), nor the order of the    *)
(* nonces puts a later batch before it.  A user's chain of batches settles *)
(* only in this order.                                                     *)
(***************************************************************************)
Slot(b) ==  \* where a batch without an outcome stands
  IF \E n \in DOMAIN inflight : b \in ToSet(inflight[n].batches)
  THEN LET n == CHOOSE m \in DOMAIN inflight : b \in ToSet(inflight[m].batches)
       IN  <<0, n, CHOOSE i \in DOMAIN inflight[n].batches :
                     inflight[n].batches[i] = b>>
  ELSE IF b \in ToSet(Sending)
  THEN <<1, 0, CHOOSE i \in DOMAIN Sending : Sending[i] = b>>
  ELSE <<2, 0, CHOOSE i \in DOMAIN pending : pending[i] = b>>

SlotBefore(s, t) ==
  \/ s[1] < t[1]
  \/ s[1] = t[1] /\ s[2] < t[2]
  \/ s[1] = t[1] /\ s[2] = t[2] /\ s[3] < t[3]

ArrivalOrderKept ==
  \A i, j \in DOMAIN arrival :
    LET b == arrival[i]  c == arrival[j] IN
    (i < j /\ outcome[b] = "open" /\ outcome[c] = "open" /\ attempts[b] = 0)
      => SlotBefore(Slot(b), Slot(c))

(***************************************************************************)
(* A batch is sent under two nonces only if the reply to its send was      *)
(* lost: resubmission keeps the nonce, a batch in flight is never queued   *)
(* again, and a restart does not find it.                                  *)
(***************************************************************************)
CarriedAt(b) ==
  {n \in 0 .. Latest - 1 : b \in ToSet(mined[n + 1].group)}
    \cup {n \in DOMAIN pool : b \in ToSet(pool[n])}

SubmittedOnce ==
  \A b \in Batch : Cardinality(CarriedAt(b)) > 1 => b \in unacked

(***************************************************************************)
(* The pump makes no nonce gap itself, in spite of failed sends, nonces    *)
(* given back, replies lost, other senders on the wallet and restarts:     *)
(* while the mempool drops nothing, every nonce it handed out is mined or  *)
(* pooled, so that everything in the mempool can be mined.                 *)
(***************************************************************************)
HandedOut == IF pump.pc = "send" THEN nextNonce - 1 ELSE nextNonce

NoNonceGap ==
  evictions = 0 => \A n \in 0 .. HandedOut - 1 : n < Latest \/ n \in DOMAIN pool

(***************************************************************************)
(* claimsConfirmed counts batches that were mined, by receipt or by the    *)
(* account nonce alone (claims.mjs:265-279).  The one exception: another   *)
(* sender of the wallet sent a transaction, and the batch's own was        *)
(* replaced or had been dropped; then the nonce can advance over it.       *)
(* Drops alone never make the relay count a batch that was not mined, nor  *)
(* do its own failed sends, lost replies, resubmissions and restarts.      *)
(***************************************************************************)
WasMined(b) == \E i \in DOMAIN mined : b \in ToSet(mined[i].group)

ConfirmedWasMined ==
  \A b \in Batch : outcome[b] = "confirmed" =>
    WasMined(b) \/ (foreign > 0 /\ b \in displaced)

(***************************************************************************)
(* The submitter implements the batch life cycle.                          *)
(***************************************************************************)
InFlight(b) == \E n \in DOMAIN inflight : b \in ToSet(inflight[n].batches)

StageOf(b) ==
  IF b \notin Arrived THEN "new"
  ELSE IF outcome[b] # "open" THEN "closed"
  ELSE IF InFlight(b) THEN "submitted"
  ELSE "waiting"

Lifecycle == INSTANCE BatchLifecycle WITH
  stage <- [b \in Batch |-> StageOf(b)],
  GroupMax <- CLAIM_BATCH_SIZE,
  Window <- CLAIM_BATCH_SIZE * MAX_INFLIGHT

LifecycleImplemented == Lifecycle!Spec

(***************************************************************************)
(* Every batch that arrives is reported on in the end: the queue drains,   *)
(* and no transaction is tracked for ever, in spite of unreadable          *)
(* receipts, dropped transactions, refused sends and other senders.  The   *)
(* exception is a dropped transaction together with one that is not        *)
(* tracked (of another sender, or sent in a call whose reply was lost):    *)
(* that one can occupy, behind the gap, the nonce the pump goes on trying. *)
(***************************************************************************)
UntrackedBehindGap == evictions > 0 /\ (foreign > 0 \/ unacked # {})

EveryBatchReported ==
  \A b \in Batch :
    b \in Arrived ~> (outcome[b] # "open" \/ UntrackedBehindGap)
-----------------------------------------------------------------------------
(* What a comment of the repository says of the submitter                  *)

(***************************************************************************)
(* claims.mjs:179-180 says that re-baselining with nothing in flight heals *)
(* any gap left by a dropped transaction: after it the local nonce is one  *)
(* the chain can use next.  (Rebase only moves it up, so it does not.)     *)
(***************************************************************************)
RebaseHealsGap == [][SyncNonce => nextNonce' \in PendingCounts]_vars
=============================================================================
