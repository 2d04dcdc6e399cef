------------------------ MODULE ClaimSubmitterProofs ------------------------
(***************************************************************************)
(* Theorems about ClaimSubmitter, for every value of its constants.        *)
(*                                                                         *)
(* For each group of variables a lemma ...Steps names the actions that can *)
(* write it; what every other action does to it is then one case.  The     *)
(* invariants build on each other: TypeOK, then the nonce discipline, then *)
(* the in-flight budget and the absence of nonce gaps.                     *)
(*                                                                         *)
(* The second half follows the batches: a batch is in one place,           *)
(* ClaimSubmitter implements BatchLifecycle, a batch is sent under one     *)
(* nonce, what is counted as confirmed was mined, and the order of arrival *)
(* is kept.                                                                *)
(***************************************************************************)
EXTENDS ClaimSubmitter, CollectionProofs

-----------------------------------------------------------------------------
(* Which actions write what                                                *)

\* The chain changes by its own steps, by the four accepted sends, and by a
\* crash during a send.
LEMMA ChainSteps ==
  ASSUME [Next]_vars
  PROVE  \/ UNCHANGED <<mined, pool, reverting>>
         \/ Mine
         \/ \E o \in Other : ForeignSend(o)
         \/ \E n \in DOMAIN pool : Evict(n)
         \/ \E b \in Mortal : Expire(b)
         \/ SendAccepted \/ SendReplyLost
         \/ \E n \in rec.todo : ResendAccepted(n) \/ ResendReplyLost(n)
         \/ Crash
  BY DEF Next, RelayNext, ChainNext, PumpStep, RecStep, vars, chainVars,
     bookVars, ForeignRead, ForeignFails,
     Push, SyncNonce, SyncFails, EstimatePasses, EstimateReverts,
     EstimateFails, SendRefused, SendFails, ReadLatest, ReadLatestFails,
     GotLatest, ReceiptFound, NonceAdvanced, StuckTooOften, Resolve,
     StillYoung, Resubmit, ResendRefused, ResendFails, Age, Tick, Rest

\* The queue changes when a batch arrives, when its head leaves after an
\* estimate, and when a group comes back.
LEMMA QueueSteps ==
  ASSUME [Next]_vars
  PROVE  \/ UNCHANGED <<pending, attempts>>
         \/ \E b \in Batch : Push(b)
         \/ EstimatePasses \/ EstimateReverts \/ EstimateFails
         \/ BackOff
         \/ Crash
  BY DEF Next, RelayNext, PumpStep, RecStep, vars, submitterVars,
     SyncNonce, SyncFails, SendAccepted, SendRefused, SendFails,
     SendReplyLost, ReadLatest, ReadLatestFails, GotLatest,
     ReceiptFound, NonceAdvanced, StuckTooOften, Resolve, StillYoung,
     Resubmit, ResendAccepted, ResendRefused, ResendFails, ResendReplyLost,
     GiveUpResend, Age, Tick, Rest

\* The tracked transactions change when one is sent, resolved, resubmitted
\* or grows old.
LEMMA FlightSteps ==
  ASSUME [Next]_vars
  PROVE  \/ UNCHANGED inflight
         \/ SendAccepted
         \/ \E n \in rec.todo : \/ \E what \in Outcomes : Resolve(n, what)
                                \/ Resubmit(n) \/ ResendAccepted(n)
         \/ \E n \in DOMAIN inflight : Age(n)
         \/ Crash
  BY DEF Next, RelayNext, PumpStep, RecStep, vars, submitterVars,
     Push, SyncNonce, SyncFails, EstimatePasses, EstimateReverts,
     EstimateFails, SendRefused, SendFails, SendReplyLost, BackOff,
     ReadLatest, ReadLatestFails, GotLatest, ReceiptFound, NonceAdvanced,
     StuckTooOften, Outcomes, StillYoung, ResendRefused, ResendFails,
     ResendReplyLost, GiveUpResend, Tick, Rest

\* The pump's own state changes by its steps, and when it is called.
LEMMA PumpSteps ==
  ASSUME [Next]_vars
  PROVE  \/ UNCHANGED <<nextNonce, pump>>
         \/ \E b \in Batch : Push(b)
         \/ SyncNonce \/ SyncFails
         \/ EstimatePasses \/ EstimateReverts \/ EstimateFails
         \/ SendAccepted \/ BackOff
         \/ Tick
         \/ Crash
  BY DEF Next, RelayNext, PumpStep, RecStep, vars, submitterVars,
     SendRefused, SendFails, SendReplyLost, ReadLatest, ReadLatestFails,
     GotLatest, ReceiptFound, NonceAdvanced, StuckTooOften, Resolve,
     StillYoung, Resubmit, ResendAccepted, ResendRefused, ResendFails,
     ResendReplyLost, GiveUpResend, Age, Rest

\* The reconciler's own state changes by its steps, and when it is called.
LEMMA RecSteps ==
  ASSUME [Next]_vars
  PROVE  \/ UNCHANGED rec
         \/ ReadLatest \/ ReadLatestFails
         \/ \E n \in rec.todo : rec' = After(n) \/ Resubmit(n)
         \/ Tick
         \/ Crash
  BY DEF Next, RelayNext, PumpStep, RecStep, vars, submitterVars,
     Push, SyncNonce, SyncFails, EstimatePasses, EstimateReverts,
     EstimateFails, SendAccepted, SendRefused, SendFails, SendReplyLost,
     BackOff, ReceiptFound, NonceAdvanced, StuckTooOften, Resolve,
     StillYoung, ResendAccepted, ResendRefused, ResendFails,
     ResendReplyLost, GiveUpResend, Age, Rest

-----------------------------------------------------------------------------
(* Type correctness                                                        *)

LEMMA GroupsAreSeqs == Groups \cup {<<>>} \subseteq Seq(Batch)
<1>1. <<>> \in Seq(Batch)
  OBVIOUS
<1> QED
  BY <1>1 DEF Groups

LEMMA PumpFields ==
  ASSUME PumpTypeOK
  PROVE  /\ pump.group \in Seq(Batch)
         /\ pump.nonce \in Nat \cup {NoNonce}
         /\ pump.pc \in {"estimate", "send"} => pump.group \in Groups
<1>1. /\ pump.group \in Groups \cup {<<>>}
      /\ pump.nonce \in Nat \cup {NoNonce}
  BY DEF PumpTypeOK
<1> QED
  BY <1>1, GroupsAreSeqs DEF PumpTypeOK

\* The first batches of a queue that is not empty are a group.
LEMMA HeadIsGroup ==
  ASSUME NEW queue \in Seq(Batch), queue # <<>>
  PROVE  /\ GroupSize(queue) \in 1 .. Len(queue)
         /\ SubSeq(queue, 1, GroupSize(queue)) \in Groups
         /\ Len(SubSeq(queue, 1, GroupSize(queue))) = GroupSize(queue)
<1>1. /\ GroupSize(queue) \in 1 .. Len(queue)
      /\ GroupSize(queue) <= CLAIM_BATCH_SIZE
  BY SubmitterAssumption DEF GroupSize
<1> QED
  BY <1>1, SubmitterAssumption DEF Groups

PumpTypes ==
  [pc : {"idle", "sync", "estimate", "send"},
   group : Groups \cup {<<>>}, nonce : Nat \cup {NoNonce}]

\* The loop is left, or goes on with a group; it does not itself send.
LEMMA LoopHeadType ==
  ASSUME NEW queue \in Seq(Batch), NEW flight
  PROVE  /\ LoopHead(queue, flight) \in PumpTypes
         /\ LoopHead(queue, flight).pc \in {"idle", "estimate"}
         /\ LoopHead(queue, flight).pc = "estimate" =>
              LoopHead(queue, flight).group \in Groups
  BY HeadIsGroup DEF LoopHead, PumpIdle, NoNonce, PumpTypes

\* A call of _pump leaves a running one alone, or starts one.
LEMMA CallPumpCases ==
  ASSUME NEW queue \in Seq(Batch)
  PROVE  \/ CallPump(queue) = pump
         \/ CallPump(queue) = [PumpIdle EXCEPT !.pc = "sync"]
         \/ CallPump(queue) = LoopHead(queue, inflight)
  BY DEF CallPump

LEMMA WithoutGroupType ==
  ASSUME QueueTypeOK, PumpTypeOK
  PROVE  WithoutGroup \in Seq(Batch)
  BY GroupsAreSeqs DEF WithoutGroup, QueueTypeOK, PumpTypeOK

LEMMA PoolWithType ==
  ASSUME ChainTypeOK, NEW n \in Nat, NEW group \in Seq(Batch),
         pool' = PoolWith(n, group)
  PROVE  /\ DOMAIN pool' \subseteq Nat /\ IsFiniteSet(DOMAIN pool')
         /\ pool' \in [DOMAIN pool' -> Seq(Batch)]
<1>1. DOMAIN pool' = DOMAIN pool \cup {n}
  BY DEF PoolWith
<1>2. IsFiniteSet(DOMAIN pool)
  BY DEF ChainTypeOK
<1>3. IsFiniteSet(DOMAIN pool')
  <2> DEFINE D == DOMAIN pool
  <2>1. IsFiniteSet(D) /\ DOMAIN pool' = D \cup {n}
    BY <1>1, <1>2
  <2> HIDE DEF D
  <2> QED
    BY <2>1, FS_AddElement
<1> QED
  BY <1>1, <1>3 DEF PoolWith, ChainTypeOK

\* A nonce the node can accept is a natural number, and so is every nonce
\* it can call pending.
LEMMA AcceptedNonce ==
  ASSUME ChainTypeOK, NEW n \in Nat \cup {NoNonce}, CanAccept(n)
  PROVE  n \in Nat
  BY DEF ChainTypeOK, CanAccept, Latest, NoNonce

LEMMA PendingNonce ==
  ASSUME ChainTypeOK, NEW n \in PendingCounts
  PROVE  n \in Nat
<1>1. Cardinality(DOMAIN pool) \in Nat /\ Latest \in Nat
  BY FS_CardinalityType DEF ChainTypeOK, Latest
<1> QED
  BY <1>1 DEF PendingCounts

\* What the tracked transactions carry are groups.
LEMMA TrackedGroup ==
  ASSUME FlightTypeOK, NEW n \in DOMAIN inflight
  PROVE  inflight[n] \in Tracked /\ inflight[n].batches \in Seq(Batch)
  BY GroupsAreSeqs DEF FlightTypeOK, Tracked

LEMMA ChainTypeStep ==
  ASSUME TypeOK, [Next]_vars
  PROVE  ChainTypeOK'
<1> USE DEF TypeOK
<1>1. CASE UNCHANGED <<mined, pool, reverting>>
  BY <1>1 DEF ChainTypeOK
<1>2. ASSUME NEW n, pool' = Restrict(pool, DOMAIN pool \ {n})
      PROVE  /\ DOMAIN pool' \subseteq Nat /\ IsFiniteSet(DOMAIN pool')
             /\ pool' \in [DOMAIN pool' -> Seq(Batch)]
  <2>1. DOMAIN pool' = DOMAIN pool \ {n}
    BY <1>2 DEF Restrict
  <2>2. IsFiniteSet(DOMAIN pool')
    BY <2>1, FS_Subset DEF ChainTypeOK
  <2> QED
    BY <1>2, <2>1, <2>2 DEF Restrict, ChainTypeOK
<1>3. CASE Mine
  <2>1. mined' \in Seq([group : Seq(Batch), ok : BOOLEAN])
    BY <1>3 DEF Mine, ChainTypeOK, Reverts
  <2> QED
    BY <1>2, <1>3, <2>1 DEF Mine, ChainTypeOK
<1>4. ASSUME NEW o \in Other, ForeignSend(o)
      PROVE  ChainTypeOK'
  <2>1. others[o] \in Nat /\ <<>> \in Seq(Batch)
    BY <1>4, AcceptedNonce DEF ForeignSend, OthersTypeOK
  <2> QED
    BY <1>4, <2>1, PoolWithType DEF ForeignSend, bookVars, ChainTypeOK
<1>5. CASE \E n \in DOMAIN pool : Evict(n)
  BY <1>2, <1>5 DEF Evict, bookVars, ChainTypeOK
<1>6. CASE \E b \in Mortal : Expire(b)
  BY <1>6, ChainAssumption DEF Expire, ChainTypeOK
<1>7. CASE SendAccepted \/ SendReplyLost
  <2>1. CanAccept(pump.nonce) /\ pool' = PoolWith(pump.nonce, pump.group)
    BY <1>7 DEF SendAccepted, SendReplyLost
  <2>2. pump.nonce \in Nat /\ pump.group \in Seq(Batch)
    BY <2>1, AcceptedNonce, PumpFields
  <2> QED
    BY <1>7, <2>1, <2>2, PoolWithType
    DEF SendAccepted, SendReplyLost, bookVars, ChainTypeOK
<1>8. CASE \E n \in rec.todo : ResendAccepted(n) \/ ResendReplyLost(n)
  <2>1. PICK n \in rec.todo : ResendAccepted(n) \/ ResendReplyLost(n)
    BY <1>8
  <2>2. n \in Nat /\ inflight[n].batches \in Seq(Batch)
    BY TrackedGroup DEF RecTypeOK, FlightTypeOK
  <2> QED
    BY <2>1, <2>2, PoolWithType
    DEF ResendAccepted, ResendReplyLost, bookVars, ChainTypeOK
<1>9. CASE Crash
  <2>1. ASSUME NEW send \in SendsUnderWay, CanAccept(send[1])
        PROVE  send[1] \in Nat /\ send[2] \in Seq(Batch)
    <3>1. CASE send = <<pump.nonce, pump.group>>
      BY <2>1, <3>1, AcceptedNonce, PumpFields
    <3>2. CASE \E n \in DOMAIN inflight : send = <<n, inflight[n].batches>>
      BY <3>2, TrackedGroup DEF FlightTypeOK
    <3> QED
      BY <3>1, <3>2 DEF SendsUnderWay
  <2> QED
    BY <1>9, <2>1, PoolWithType DEF Crash, bookVars, ChainTypeOK
<1> QED
  BY <1>1, <1>3, <1>4, <1>5, <1>6, <1>7, <1>8, <1>9, ChainSteps

\* The nonces the other senders hold change by their own steps and a crash;
\* what is displaced, by a drop and by their sends.
LEMMA OthersSteps ==
  ASSUME [Next]_vars
  PROVE  \/ UNCHANGED <<others, displaced>>
         \/ \E o \in Other : ForeignRead(o) \/ ForeignSend(o) \/ ForeignFails(o)
         \/ \E n \in DOMAIN pool : Evict(n)
         \/ Crash
  BY DEF Next, RelayNext, ChainNext, PumpStep, RecStep, vars, chainVars,
     Mine, Expire, Push, SyncNonce, SyncFails, EstimatePasses, EstimateReverts,
     EstimateFails, SendAccepted, SendRefused, SendFails, SendReplyLost,
     ReadLatest, ReadLatestFails, GotLatest, ReceiptFound, NonceAdvanced,
     StuckTooOften, Resolve, StillYoung, Resubmit, ResendAccepted,
     ResendRefused, ResendFails, ResendReplyLost, Age, Tick, Rest

LEMMA CarriedType ==
  ASSUME ChainTypeOK, NEW n
  PROVE  Carried(n) \subseteq Batch
<1>1. CASE n \in DOMAIN pool
  <2>1. pool[n] \in Seq(Batch)
    BY <1>1 DEF ChainTypeOK
  <2>2. ToSet(pool[n]) \subseteq Batch
    BY <2>1 DEF ToSet
  <2> QED
    BY <1>1, <2>2 DEF Carried
<1>2. CASE n \notin DOMAIN pool
  BY <1>2 DEF Carried
<1> QED
  BY <1>1, <1>2

LEMMA OthersTypeStep ==
  ASSUME TypeOK, [Next]_vars
  PROVE  OthersTypeOK'
<1> USE DEF TypeOK
<1>1. CASE UNCHANGED <<others, displaced>>
  BY <1>1 DEF OthersTypeOK
<1>2. ASSUME NEW o \in Other, ForeignRead(o) \/ ForeignSend(o) \/ ForeignFails(o)
      PROVE  OthersTypeOK'
  <2>1. PICK n \in Nat \cup {NoNonce} : others' = [others EXCEPT ![o] = n]
    BY <1>2, PendingNonce DEF ForeignRead, ForeignSend, ForeignFails, ForeignDone
  <2>2. displaced' \subseteq Batch
    BY <1>2, CarriedType DEF ForeignRead, ForeignSend, ForeignFails, OthersTypeOK
  <2> QED
    BY <2>1, <2>2 DEF OthersTypeOK
<1>3. CASE \E n \in DOMAIN pool : Evict(n)
  BY <1>3, CarriedType DEF Evict, OthersTypeOK
<1>4. CASE Crash
  BY <1>4 DEF Crash, OthersTypeOK
<1> QED
  BY <1>1, <1>2, <1>3, <1>4, OthersSteps

LEMMA QueueTypeStep ==
  ASSUME TypeOK, [Next]_vars
  PROVE  QueueTypeOK'
<1> USE DEF TypeOK
<1>1. CASE UNCHANGED <<pending, attempts>>
  BY <1>1 DEF QueueTypeOK
<1>2. CASE \E b \in Batch : Push(b)
  BY <1>2 DEF Push, QueueTypeOK
<1>3. CASE EstimatePasses \/ EstimateReverts
  BY <1>3, WithoutGroupType DEF EstimatePasses, EstimateReverts, QueueTypeOK
<1>4. CASE EstimateFails
  <2>1. pending' \in Seq(Batch)
    <3>1. PICK kept \in BoundedSeq(Batch, CLAIM_BATCH_SIZE) :
            pending' = WithoutGroup \o kept
      BY <1>4 DEF EstimateFails
    <3>2. kept \in Seq(Batch)
      BY <3>1, SubmitterAssumption DEF BoundedSeq, SeqOf
    <3> QED
      BY <3>1, <3>2, WithoutGroupType
  <2> QED
    BY <1>4, <2>1 DEF EstimateFails, QueueTypeOK
<1>5. CASE BackOff
  <2>1. pump.group \in Seq(Batch)
    BY PumpFields
  <2> QED
    BY <1>5, <2>1 DEF BackOff, QueueTypeOK
<1>6. CASE Crash
  BY <1>6 DEF Crash, QueueTypeOK
<1> QED
  BY <1>1, <1>2, <1>3, <1>4, <1>5, <1>6, QueueSteps

LEMMA FlightTypeStep ==
  ASSUME TypeOK, [Next]_vars
  PROVE  FlightTypeOK'
<1> USE DEF TypeOK
<1>1. CASE UNCHANGED inflight
  BY <1>1 DEF FlightTypeOK, Tracked
<1>2. CASE SendAccepted
  <2>1. pump.pc = "send" /\ CanAccept(pump.nonce)
    BY <1>2 DEF SendAccepted
  <2>2. pump.nonce \in Nat /\ pump.group \in Groups
    BY <2>1, AcceptedNonce, PumpFields
  <2>3. DOMAIN inflight' = DOMAIN inflight \cup {pump.nonce}
    BY <1>2 DEF SendAccepted, Track
  <2>4. IsFiniteSet(DOMAIN inflight')
    BY <2>3, FS_AddElement DEF FlightTypeOK
  <2> QED
    BY <1>2, <2>2, <2>3, <2>4, SubmitterAssumption
    DEF SendAccepted, Track, FlightTypeOK, Tracked
<1>3. ASSUME NEW n \in rec.todo, NEW what \in Outcomes, Resolve(n, what)
      PROVE  FlightTypeOK'
  <2>1. DOMAIN inflight' = DOMAIN inflight \ {n}
    BY <1>3 DEF Resolve, Restrict
  <2>2. IsFiniteSet(DOMAIN inflight')
    BY <2>1, FS_Subset DEF FlightTypeOK
  <2> QED
    BY <1>3, <2>1, <2>2 DEF Resolve, Restrict, FlightTypeOK, Tracked
<1>4. ASSUME NEW n \in rec.todo, Resubmit(n)
      PROVE  FlightTypeOK'
  <2>1. n \in DOMAIN inflight /\ inflight[n] \in Tracked
    BY TrackedGroup DEF RecTypeOK
  <2>2. [inflight[n] EXCEPT !.attempts = @ + 1] \in Tracked
    BY <1>4, <2>1, SubmitterAssumption DEF Resubmit, Tracked
  <2> QED
    BY <1>4, <2>1, <2>2 DEF Resubmit, FlightTypeOK
<1>5. ASSUME NEW n \in DOMAIN inflight, NEW old \in BOOLEAN,
             inflight' = [inflight EXCEPT ![n].aged = old]
      PROVE  FlightTypeOK'
  <2>1. [inflight[n] EXCEPT !.aged = old] \in Tracked
    BY TrackedGroup DEF Tracked
  <2> QED
    BY <1>5, <2>1 DEF FlightTypeOK
<1>6. ASSUME NEW n \in rec.todo, ResendAccepted(n)
      PROVE  FlightTypeOK'
  BY <1>5, <1>6 DEF ResendAccepted, RecTypeOK
<1>7. ASSUME NEW n \in DOMAIN inflight, Age(n)
      PROVE  FlightTypeOK'
  BY <1>5, <1>7 DEF Age
<1>8. CASE Crash
  BY <1>8, FS_EmptySet DEF Crash, FlightTypeOK, Tracked
<1> QED
  BY <1>1, <1>2, <1>3, <1>4, <1>6, <1>7, <1>8, FlightSteps
LEMMA PumpTypeStep ==
  ASSUME TypeOK, [Next]_vars
  PROVE  PumpTypeOK'
<1> USE DEF TypeOK
<1>1. CASE UNCHANGED <<nextNonce, pump>>
  BY <1>1 DEF PumpTypeOK
<1>2. ASSUME NEW queue \in Seq(Batch), NEW flight,
             \/ pump' = LoopHead(queue, flight)
             \/ pump' = CallPump(queue) /\ nextNonce' = nextNonce
             \/ pump' = PumpIdle,
             nextNonce' \in Nat \cup {NoNonce}
      PROVE  PumpTypeOK'
  <2>1. CASE pump' = LoopHead(queue, flight)
    BY <1>2, <2>1, LoopHeadType DEF PumpTypeOK, PumpTypes
  <2>2. CASE pump' = CallPump(queue) /\ nextNonce' = nextNonce
    <3>1. CASE pump' = pump
      BY <1>2, <2>2, <3>1 DEF PumpTypeOK
    <3>2. CASE pump' = [PumpIdle EXCEPT !.pc = "sync"]
      BY <1>2, <3>2 DEF PumpTypeOK, PumpIdle, NoNonce
    <3>3. CASE pump' = LoopHead(queue, inflight)
      BY <1>2, <3>3, LoopHeadType DEF PumpTypeOK, PumpTypes
    <3> QED
      BY <2>2, <3>1, <3>2, <3>3, CallPumpCases
  <2>3. CASE pump' = PumpIdle
    BY <1>2, <2>3 DEF PumpTypeOK, PumpIdle, NoNonce
  <2> QED
    BY <1>2, <2>1, <2>2, <2>3
<1>3. pending \in Seq(Batch) /\ pending' \in Seq(Batch)
  BY QueueTypeStep DEF QueueTypeOK
<1>4. nextNonce \in Nat \cup {NoNonce}
  BY DEF PumpTypeOK
<1>5. CASE \E b \in Batch : Push(b)
  BY <1>2, <1>3, <1>4, <1>5 DEF Push
<1>6. CASE SyncNonce
  <2>1. PICK n \in PendingCounts : nextNonce' = Rebase(n)
    BY <1>6 DEF SyncNonce
  <2>2. nextNonce' \in Nat \cup {NoNonce}
    BY <2>1, <1>4, PendingNonce DEF Rebase
  <2> QED
    BY <1>2, <1>3, <1>6, <2>2 DEF SyncNonce
<1>7. CASE SyncFails
  BY <1>2, <1>3, <1>4, <1>7 DEF SyncFails
<1>8. CASE EstimatePasses
  BY <1>4, <1>8 DEF EstimatePasses, PumpTypeOK, NoNonce
<1>9. CASE EstimateReverts
  BY <1>2, <1>3, <1>4, <1>9 DEF EstimateReverts
<1>10. CASE EstimateFails
  BY <1>2, <1>3, <1>4, <1>10 DEF EstimateFails
<1>11. CASE SendAccepted
  BY <1>2, <1>3, <1>4, <1>11 DEF SendAccepted
<1>12. CASE BackOff
  <2>1. nextNonce' = pump.nonce
    BY <1>12 DEF BackOff, PumpTypeOK
  <2> QED
    BY <1>2, <1>3, <1>12, <2>1, PumpFields DEF BackOff
<1>13. CASE Tick
  BY <1>2, <1>3, <1>4, <1>13 DEF Tick
<1>14. CASE Crash
  BY <1>2, <1>3, <1>14 DEF Crash
<1> QED
  BY <1>1, <1>5, <1>6, <1>7, <1>8, <1>9, <1>10, <1>11, <1>12, <1>13, <1>14,
     PumpSteps

LEMMA RecTypeStep ==
  ASSUME TypeOK, [Next]_vars
  PROVE  RecTypeOK'
<1> USE DEF TypeOK
<1>1. rec.todo \subseteq DOMAIN inflight
  BY DEF RecTypeOK
<1>2. ASSUME NEW n \in rec.todo, rec' = After(n),
             DOMAIN inflight \ {n} \subseteq DOMAIN inflight'
      PROVE  RecTypeOK'
  <2>1. rec.todo \ {n} \subseteq DOMAIN inflight'
    BY <1>1, <1>2
  <2> QED
    BY <1>2, <2>1 DEF After, RecIdle, NoNonce, RecTypeOK
<1>3. ASSUME \/ UNCHANGED rec
             \/ \E n \in rec.todo : Resubmit(n)
             \/ rec' = CallReconcile,
             DOMAIN inflight \subseteq DOMAIN inflight'
      PROVE  RecTypeOK'
  BY <1>3 DEF Resubmit, CallReconcile, RecIdle, NoNonce, RecTypeOK
<1>4. ASSUME NEW latest \in Nat \cup {NoNonce}, GotLatest(latest)
      PROVE  RecTypeOK'
  BY <1>4 DEF GotLatest, RecTypeOK
<1>5. ASSUME RecStep PROVE RecTypeOK'
  <2>1. Latest \in Nat
    BY DEF ChainTypeOK, Latest
  <2>2. CASE ReadLatest \/ ReadLatestFails
    BY <1>4, <2>1, <2>2 DEF ReadLatest, ReadLatestFails
  <2>3. ASSUME NEW n \in rec.todo, NEW what, Resolve(n, what)
        PROVE  RecTypeOK'
    BY <1>2, <2>3 DEF Resolve, Restrict
  <2>4. ASSUME NEW n \in rec.todo, Resubmit(n) PROVE RecTypeOK'
    BY <1>3, <2>4 DEF Resubmit
  <2>5. ASSUME NEW n \in rec.todo,
               \/ StillYoung(n) \/ ResendAccepted(n) \/ GiveUpResend(n)
        PROVE  RecTypeOK'
    BY <1>2, <2>5 DEF StillYoung, ResendAccepted, GiveUpResend
  <2> QED
    BY <1>5, <2>2, <2>3, <2>4, <2>5
    DEF RecStep, ReceiptFound, NonceAdvanced, StuckTooOften, ResendRefused,
        ResendFails, ResendReplyLost
<1>6. CASE Crash
  BY <1>6 DEF Crash, RecIdle, NoNonce, RecTypeOK
<1>7. CASE Tick
  BY <1>3, <1>7 DEF Tick
<1>8. CASE UNCHANGED rec /\ DOMAIN inflight \subseteq DOMAIN inflight'
  BY <1>3, <1>8
<1>9. RecStep \/ Crash \/ Tick
        \/ (UNCHANGED rec /\ DOMAIN inflight \subseteq DOMAIN inflight')
  <2>1. ASSUME SendAccepted
        PROVE  DOMAIN inflight \subseteq DOMAIN inflight'
    BY <2>1 DEF SendAccepted, Track
  <2>2. ASSUME NEW n \in DOMAIN inflight, Age(n)
        PROVE  DOMAIN inflight \subseteq DOMAIN inflight'
    BY <2>2 DEF Age
  <2> QED
    BY <2>1, <2>2
    DEF Next, RelayNext, PumpStep, vars, submitterVars, Push, SyncNonce,
        SyncFails, EstimatePasses, EstimateReverts, EstimateFails,
        SendAccepted, SendRefused, SendFails, SendReplyLost, BackOff, Age, Rest
<1> QED
  BY <1>5, <1>6, <1>7, <1>8, <1>9

LEMMA HistoryTypeStep ==
  ASSUME TypeOK, [Next]_vars
  PROVE  HistoryTypeOK'
<1> USE DEF TypeOK
<1>1. ASSUME NEW group, NEW what \in Outcomes
      PROVE  Report(group, what) \in [Batch -> Outcomes]
  BY DEF Report, HistoryTypeOK
<1>2. CASE UNCHANGED <<outcome, arrival, unacked>>
  BY <1>2 DEF HistoryTypeOK
<1>3. CASE \E b \in Batch : Push(b)
  BY <1>3 DEF Push, HistoryTypeOK
<1>4. CASE EstimateReverts
  BY <1>1, <1>4 DEF EstimateReverts, Outcomes, HistoryTypeOK
<1>5. CASE EstimateFails
  BY <1>5 DEF EstimateFails, Outcomes, HistoryTypeOK
<1>6. CASE SendReplyLost
  <2>1. ToSet(pump.group) \subseteq Batch
    BY PumpFields DEF ToSet
  <2> QED
    BY <1>6, <2>1 DEF SendReplyLost, BackOff, HistoryTypeOK
<1>7. ASSUME NEW n, NEW what \in Outcomes, Resolve(n, what)
      PROVE  HistoryTypeOK'
  BY <1>1, <1>7 DEF Resolve, HistoryTypeOK
<1>8. CASE \E n \in rec.todo :
             ReceiptFound(n) \/ NonceAdvanced(n) \/ StuckTooOften(n)
  BY <1>7, <1>8 DEF ReceiptFound, NonceAdvanced, StuckTooOften, Outcomes
<1>9. CASE Crash
  BY <1>9 DEF Crash, Outcomes, HistoryTypeOK
<1> QED
  BY <1>2, <1>3, <1>4, <1>5, <1>6, <1>8, <1>9
  DEF Next, RelayNext, PumpStep, RecStep, vars, submitterVars,
      SyncNonce, SyncFails, EstimatePasses, SendAccepted, SendRefused,
      SendFails, BackOff, ReadLatest, ReadLatestFails, GotLatest, StillYoung,
      Resubmit, ResendAccepted, ResendRefused, ResendFails, ResendReplyLost,
      GiveUpResend, Age, Tick, Rest

LEMMA BoundsStep ==
  ASSUME TypeOK, [Next]_vars
  PROVE  BoundsOK'
<1> USE ChainAssumption, SubmitterAssumption DEF TypeOK
<1>1. CASE UNCHANGED <<evictions, foreign, faults, crashes>>
  BY <1>1 DEF BoundsOK
<1>2. CASE Fault /\ UNCHANGED <<evictions, foreign, crashes>>
  BY <1>2 DEF Fault, BoundsOK
<1>3. ASSUME NEW o \in Other, ForeignSend(o), UNCHANGED submitterVars
      PROVE  BoundsOK'
  BY <1>3 DEF ForeignSend, submitterVars, BoundsOK
<1>4. CASE \E n : Evict(n) /\ UNCHANGED submitterVars
  BY <1>4 DEF Evict, submitterVars, BoundsOK
<1>5. CASE Crash
  BY <1>5 DEF Crash, BoundsOK
<1> QED
  BY <1>1, <1>2, <1>3, <1>4, <1>5
  DEF Next, RelayNext, ChainNext, PumpStep, RecStep, vars, chainVars,
      submitterVars, Mine, Expire, ForeignRead, ForeignFails, Push, SyncNonce,
      SyncFails, EstimatePasses, EstimateReverts, EstimateFails, SendAccepted,
      SendRefused, SendFails, SendReplyLost, BackOff, ReadLatest, ReadLatestFails, GotLatest,
      ReceiptFound, NonceAdvanced, StuckTooOften, Resolve, StillYoung,
      Resubmit, ResendAccepted, ResendRefused, ResendFails, ResendReplyLost,
      GiveUpResend, Age, Tick, Rest

LEMMA TypeInit == Init => TypeOK
<1> SUFFICES ASSUME Init PROVE TypeOK
  OBVIOUS
<1> USE ChainAssumption, SubmitterAssumption
<1>1. ChainTypeOK
  BY FS_EmptySet DEF Init, ChainInit, ChainTypeOK
<1>2. OthersTypeOK /\ QueueTypeOK /\ HistoryTypeOK
  BY DEF Init, ChainInit, SubmitterInit, OthersTypeOK, QueueTypeOK, HistoryTypeOK, Outcomes
<1>3. FlightTypeOK
  BY FS_EmptySet DEF Init, SubmitterInit, FlightTypeOK
<1>4. PumpTypeOK /\ RecTypeOK
  BY DEF Init, SubmitterInit, PumpTypeOK, RecTypeOK, PumpIdle, RecIdle, NoNonce
<1>5. BoundsOK
  BY DEF Init, ChainInit, SubmitterInit, BoundsOK
<1> QED
  BY <1>1, <1>2, <1>3, <1>4, <1>5 DEF TypeOK

LEMMA TypeStep == TypeOK /\ [Next]_vars => TypeOK'
  BY ChainTypeStep, OthersTypeStep, QueueTypeStep, FlightTypeStep, PumpTypeStep, RecTypeStep,
     HistoryTypeStep, BoundsStep DEF TypeOK

\* The submitter's state keeps its type in every behaviour.
THEOREM TypeCorrect == Spec => []TypeOK
  BY TypeInit, TypeStep, PTL DEF Spec
-----------------------------------------------------------------------------
(* The nonce discipline                                                    *)

\* What a step can do to the pump's nonce: take one, give one back, move the
\* next one up, or leave it; only EstimatePasses starts a send.
LEMMA NonceSteps ==
  ASSUME TypeOK, [Next]_vars
  PROVE  \/ nextNonce' = nextNonce /\ (pump'.pc = "send" => pump' = pump)
         \/ SyncNonce
         \/ EstimatePasses
         \/ BackOff
         \/ Crash
<1> USE DEF TypeOK
<1>1. pending \in Seq(Batch) /\ pending' \in Seq(Batch)
  BY QueueTypeStep DEF QueueTypeOK
<1>2. ASSUME NEW queue \in Seq(Batch), pump' = CallPump(queue)
      PROVE  pump'.pc = "send" => pump' = pump
  BY <1>2, CallPumpCases, LoopHeadType DEF PumpIdle
<1>3. ASSUME NEW queue \in Seq(Batch), NEW flight,
             pump' = LoopHead(queue, flight)
      PROVE  pump'.pc # "send"
  BY <1>3, LoopHeadType
<1>4. CASE (\E b \in Batch : Push(b)) \/ Tick
  BY <1>1, <1>2, <1>4 DEF Push, Tick
<1>5. CASE EstimateReverts \/ EstimateFails \/ SendAccepted
  BY <1>1, <1>3, <1>5 DEF EstimateReverts, EstimateFails, SendAccepted
<1>6. CASE SyncFails
  BY <1>6 DEF SyncFails, PumpIdle
<1> QED
  BY <1>4, <1>5, <1>6, PumpSteps

LEMMA NonceStep ==
  ASSUME TypeOK, NonceDiscipline, [Next]_vars
  PROVE  NonceDiscipline'
<1> USE DEF TypeOK
<1>1. /\ DOMAIN inflight \subseteq Nat
      /\ nextNonce \in Nat \cup {NoNonce}
  BY DEF FlightTypeOK, PumpTypeOK
<1>2. CASE SendAccepted
  <2>1. DOMAIN inflight' = DOMAIN inflight \cup {pump.nonce}
    BY <1>2 DEF SendAccepted, Track
  <2>2. pump.nonce = nextNonce - 1 /\ nextNonce' = nextNonce
    BY <1>2 DEF SendAccepted, PumpTypeOK
  <2>3. pump'.pc # "send"
    <3>1. pending \in Seq(Batch) /\ pump' = LoopHead(pending, inflight')
      BY <1>2 DEF SendAccepted, QueueTypeOK
    <3> QED
      BY <3>1, LoopHeadType
  <2> QED
    BY <1>1, <2>1, <2>2, <2>3 DEF NonceDiscipline, NoNonce
<1>3. CASE Crash
  BY <1>3 DEF Crash, PumpIdle, NonceDiscipline
<1>4. SUFFICES ASSUME DOMAIN inflight' \subseteq DOMAIN inflight
               PROVE  NonceDiscipline'
  <2>1. ASSUME NEW n, NEW what, Resolve(n, what)
        PROVE  DOMAIN inflight' \subseteq DOMAIN inflight
    BY <2>1 DEF Resolve, Restrict
  <2>2. ASSUME NEW n, Resubmit(n) \/ ResendAccepted(n) \/ Age(n)
        PROVE  DOMAIN inflight' \subseteq DOMAIN inflight
    BY <2>2 DEF Resubmit, ResendAccepted, Age
  <2> QED
    BY <1>2, <1>3, <2>1, <2>2, FlightSteps
<1>5. CASE nextNonce' = nextNonce /\ (pump'.pc = "send" => pump' = pump)
  BY <1>1, <1>4, <1>5 DEF NonceDiscipline
<1>6. CASE SyncNonce
  <2>1. PICK n \in PendingCounts : nextNonce' = Rebase(n)
    BY <1>6 DEF SyncNonce
  <2>2. nextNonce' \in Nat /\ nextNonce' >= nextNonce
    BY <1>1, <2>1, PendingNonce DEF Rebase, NoNonce
  <2>3. pump'.pc # "send"
    BY <1>6, LoopHeadType DEF SyncNonce, QueueTypeOK
  <2> QED
    BY <1>1, <1>4, <2>2, <2>3 DEF NonceDiscipline, NoNonce
<1>7. CASE EstimatePasses
  BY <1>1, <1>4, <1>7 DEF EstimatePasses, NonceDiscipline, NoNonce
<1>8. CASE BackOff
  BY <1>1, <1>4, <1>8 DEF BackOff, PumpTypeOK, PumpIdle, NonceDiscipline, NoNonce
<1> QED
  BY <1>3, <1>5, <1>6, <1>7, <1>8, NonceSteps

LEMMA NonceInit == Init => NonceDiscipline
  BY DEF Init, SubmitterInit, NonceDiscipline, PumpIdle

\* No nonce is used for two settlement transactions at a time.
THEOREM NoncesDisciplined == Spec => []NonceDiscipline
<1>1. TypeOK /\ NonceDiscipline /\ [Next]_vars => NonceDiscipline'
  BY NonceStep
<1> QED
  BY <1>1, NonceInit, TypeCorrect, PTL DEF Spec

-----------------------------------------------------------------------------
(* The in-flight budget                                                    *)

\* Strengthens InflightBound: while the pump estimates or sends, there is
\* room for one more transaction.
Budget ==
  /\ InflightBound
  /\ pump.pc \in {"estimate", "send"} =>
       Cardinality(DOMAIN inflight) < MAX_INFLIGHT

LEMMA BudgetStep ==
  ASSUME TypeOK, Budget, [Next]_vars
  PROVE  Budget'
<1> USE DEF TypeOK
<1>1. IsFiniteSet(DOMAIN inflight) /\ Cardinality(DOMAIN inflight) \in Nat
  BY FS_CardinalityType DEF FlightTypeOK
<1>2. ASSUME NEW queue, pump' = LoopHead(queue, inflight')
      PROVE  pump'.pc \in {"estimate", "send"} =>
               Cardinality(DOMAIN inflight') < MAX_INFLIGHT
  BY <1>2 DEF LoopHead, PumpIdle
<1>3. CASE SendAccepted
  <2>1. DOMAIN inflight' = DOMAIN inflight \cup {pump.nonce}
    BY <1>3 DEF SendAccepted, Track
  <2>2. Cardinality(DOMAIN inflight') <= Cardinality(DOMAIN inflight) + 1
    <3> DEFINE D == DOMAIN inflight
               n == pump.nonce
    <3>1. IsFiniteSet(D) /\ Cardinality(D) \in Nat
      BY <1>1
    <3> HIDE DEF D, n
    <3>2. Cardinality(D \cup {n}) <= Cardinality(D) + 1
      BY <3>1, FS_AddElement
    <3> QED
      BY <2>1, <3>2 DEF D, n
  <2>3. Cardinality(DOMAIN inflight) < MAX_INFLIGHT
    BY <1>3 DEF SendAccepted, Budget
  <2>4. Cardinality(DOMAIN inflight') \in Nat
    BY <1>1, <2>1, FS_AddElement, FS_CardinalityType
  <2>5. Cardinality(DOMAIN inflight') <= MAX_INFLIGHT
    BY <1>1, <2>2, <2>3, <2>4, SubmitterAssumption
  <2> QED
    BY <1>2, <1>3, <2>5 DEF SendAccepted, Budget, InflightBound
<1>4. CASE Crash
  <2>1. Cardinality(DOMAIN inflight') = 0
    BY <1>4, FS_EmptySet DEF Crash
  <2> QED
    BY <1>4, <2>1, SubmitterAssumption
    DEF Crash, PumpIdle, Budget, InflightBound
<1>5. SUFFICES ASSUME DOMAIN inflight' \subseteq DOMAIN inflight,
                      UNCHANGED inflight \/ UNCHANGED pump
               PROVE  Budget'
  <2>1. ASSUME NEW n, NEW what, Resolve(n, what)
        PROVE  DOMAIN inflight' \subseteq DOMAIN inflight /\ UNCHANGED pump
    BY <2>1 DEF Resolve, Restrict
  <2>2. ASSUME NEW n, Resubmit(n) \/ ResendAccepted(n) \/ Age(n)
        PROVE  DOMAIN inflight' \subseteq DOMAIN inflight /\ UNCHANGED pump
    BY <2>2 DEF Resubmit, ResendAccepted, Age
  <2> QED
    BY <1>3, <1>4, <2>1, <2>2, FlightSteps
<1>6. Cardinality(DOMAIN inflight') <= Cardinality(DOMAIN inflight)
  BY <1>1, <1>5, FS_Subset
<1>7. Cardinality(DOMAIN inflight') \in Nat
  BY <1>1, <1>5, FS_Subset, FS_CardinalityType
<1>8. CASE UNCHANGED pump
  BY <1>1, <1>6, <1>7, <1>8, SubmitterAssumption DEF Budget, InflightBound
<1>9. CASE UNCHANGED inflight
  <2> SUFFICES pump'.pc \in {"estimate", "send"} =>
                 Cardinality(DOMAIN inflight') < MAX_INFLIGHT
    BY <1>9 DEF Budget, InflightBound
  <2>1. ASSUME NEW queue, pump' = CallPump(queue)
        PROVE  pump'.pc \in {"estimate", "send"} =>
                 Cardinality(DOMAIN inflight') < MAX_INFLIGHT
    BY <1>9, <2>1 DEF CallPump, LoopHead, PumpIdle, Budget
  <2>2. CASE (\E b \in Batch : Push(b)) \/ Tick
    BY <2>1, <2>2 DEF Push, Tick
  <2>3. CASE SyncNonce \/ EstimateReverts \/ EstimateFails
    BY <1>2, <1>9, <2>3 DEF SyncNonce, EstimateReverts, EstimateFails
  <2>4. CASE EstimatePasses
    BY <1>9, <2>4 DEF EstimatePasses, Budget
  <2>5. CASE SyncFails \/ BackOff
    BY <2>5 DEF SyncFails, BackOff, PumpIdle
  <2> QED
    BY <1>3, <1>4, <1>8, <2>2, <2>3, <2>4, <2>5, PumpSteps DEF Budget
<1> QED
  BY <1>5, <1>8, <1>9

LEMMA BudgetInit == Init => Budget
<1>1. Init => Cardinality(DOMAIN inflight) = 0
  BY FS_EmptySet DEF Init, SubmitterInit
<1> QED
  BY <1>1, SubmitterAssumption
  DEF Init, SubmitterInit, PumpIdle, Budget, InflightBound

\* The relay never tracks more than MAX_INFLIGHT transactions.
THEOREM InflightBounded == Spec => []InflightBound
<1>1. TypeOK /\ Budget /\ [Next]_vars => Budget'
  BY BudgetStep
<1>2. Budget => InflightBound
  BY DEF Budget
<1> QED
  BY <1>1, <1>2, BudgetInit, TypeCorrect, PTL DEF Spec
-----------------------------------------------------------------------------
(* The copied group                                                        *)

\* What the loop copies is what the queue begins with.
LEMMA HeadIsPrefix ==
  ASSUME NEW queue \in Seq(Batch), queue # <<>>
  PROVE  /\ SubSeq(queue, 1, GroupSize(queue)) # <<>>
         /\ IsPrefix(SubSeq(queue, 1, GroupSize(queue)), queue)
<1> DEFINE k == GroupSize(queue)
           group == SubSeq(queue, 1, k)
<1>1. k \in 1 .. Len(queue) /\ group \in Groups /\ Len(group) = k
  BY HeadIsGroup
<1>2. group # <<>> /\ group \in Seq(Batch)
  BY <1>1 DEF Groups
<1>3. SubSeq(group, 1, Len(group)) = group
  BY <1>2
<1> QED
  BY <1>1, <1>2, <1>3 DEF IsPrefix

\* A queue keeps its beginning when a batch arrives.
LEMMA PrefixKept ==
  ASSUME NEW s \in Seq(Batch), NEW t \in Seq(Batch), NEW b \in Batch,
         IsPrefix(s, t)
  PROVE  IsPrefix(s, Append(t, b))
<1>1. Len(s) <= Len(t) /\ SubSeq(s, 1, Len(s)) = SubSeq(t, 1, Len(s))
  BY DEF IsPrefix
<1>2. SubSeq(t, 1, Len(s)) = SubSeq(Append(t, b), 1, Len(s))
  BY <1>1
<1> QED
  BY <1>1, <1>2 DEF IsPrefix

LEMMA CopyStep ==
  ASSUME TypeOK, EstimatedGroupIsNext, [Next]_vars
  PROVE  EstimatedGroupIsNext'
<1> USE DEF TypeOK
<1>1. pending \in Seq(Batch) /\ pending' \in Seq(Batch)
  BY QueueTypeStep DEF QueueTypeOK
<1>2. ASSUME NEW flight, pump' = LoopHead(pending', flight)
      PROVE  EstimatedGroupIsNext'
  BY <1>1, <1>2, HeadIsPrefix DEF LoopHead, PumpIdle, EstimatedGroupIsNext
<1>3. ASSUME pump' = CallPump(pending'), pump' # pump
      PROVE  EstimatedGroupIsNext'
  <2>1. CASE pump' = [PumpIdle EXCEPT !.pc = "sync"]
    BY <2>1 DEF PumpIdle, EstimatedGroupIsNext
  <2> QED
    BY <1>1, <1>2, <1>3, <2>1, CallPumpCases
<1>4. CASE \E b \in Batch : Push(b)
  <2>1. PICK b \in Batch : Push(b)
    BY <1>4
  <2>2. pending' = Append(pending, b) /\ pump' = CallPump(pending')
    BY <2>1 DEF Push
  <2>3. CASE pump' = pump
    BY <1>1, <2>2, <2>3, PumpFields, PrefixKept DEF EstimatedGroupIsNext
  <2> QED
    BY <1>3, <2>2, <2>3
<1>5. CASE Tick
  <2>1. pending' = pending /\ pump' = CallPump(pending')
    BY <1>5 DEF Tick
  <2> QED
    BY <1>3, <2>1 DEF EstimatedGroupIsNext
<1>6. CASE SyncNonce \/ SendAccepted
  BY <1>2, <1>6 DEF SyncNonce, SendAccepted
<1>7. CASE EstimateReverts \/ EstimateFails
  BY <1>2, <1>7 DEF EstimateReverts, EstimateFails
<1>8. CASE EstimatePasses \/ SyncFails \/ BackOff \/ Crash
  BY <1>8 DEF EstimatePasses, SyncFails, BackOff, Crash, PumpIdle,
              EstimatedGroupIsNext
<1>9. CASE UNCHANGED <<pending, pump>>
  BY <1>9 DEF EstimatedGroupIsNext
<1> QED
  BY <1>4, <1>5, <1>6, <1>7, <1>8, <1>9, QueueSteps, PumpSteps

\* The group being estimated is still the head of the queue when its
\* estimate arrives, so that removing it by length removes exactly it.
THEOREM EstimatedGroupStaysNext == Spec => []EstimatedGroupIsNext
<1>1. Init => EstimatedGroupIsNext
  BY DEF Init, SubmitterInit, PumpIdle, EstimatedGroupIsNext
<1>2. TypeOK /\ EstimatedGroupIsNext /\ [Next]_vars => EstimatedGroupIsNext'
  BY CopyStep
<1> QED
  BY <1>1, <1>2, TypeCorrect, PTL DEF Spec

-----------------------------------------------------------------------------
(* Nonce gaps                                                              *)

Covered(n) == n < Latest \/ n \in DOMAIN pool

\* What is mined or pooled stays so, while the mempool drops nothing.
LEMMA CoveredKept ==
  ASSUME TypeOK, [Next]_vars, evictions' = 0, NEW n \in Nat, Covered(n)
  PROVE  Covered(n)'
<1> USE DEF TypeOK
<1>1. Latest \in Nat
  BY DEF ChainTypeOK, Latest
<1>2. ASSUME NEW m, NEW group, pool' = PoolWith(m, group), mined' = mined
      PROVE  Covered(n)'
  BY <1>2 DEF PoolWith, Covered, Latest
<1>3. CASE UNCHANGED <<mined, pool>>
  BY <1>3 DEF Covered, Latest
<1>4. CASE Mine
  <2>1. Latest' = Latest + 1 /\ DOMAIN pool' = DOMAIN pool \ {Latest}
    BY <1>4 DEF Mine, Latest, Restrict, ChainTypeOK
  <2> QED
    BY <1>1, <2>1 DEF Covered
<1>5. CASE \E o \in Other : ForeignSend(o)
  BY <1>2, <1>5 DEF ForeignSend
<1>6. CASE \E m \in DOMAIN pool : Evict(m)
  BY <1>6 DEF Evict, BoundsOK
<1>7. CASE \E b \in Mortal : Expire(b)
  BY <1>3, <1>7 DEF Expire
<1>8. CASE SendAccepted \/ SendReplyLost
  BY <1>2, <1>8 DEF SendAccepted, SendReplyLost
<1>9. CASE \E m \in rec.todo : ResendAccepted(m) \/ ResendReplyLost(m)
  BY <1>2, <1>9 DEF ResendAccepted, ResendReplyLost
<1>10. CASE Crash
  BY <1>2, <1>3, <1>10 DEF Crash
<1> QED
  BY <1>3, <1>4, <1>5, <1>6, <1>7, <1>8, <1>9, <1>10, ChainSteps

\* The nonces handed out grow only by a nonce the chain names and by one
\* the node has just taken.
LEMMA HandedOutSteps ==
  ASSUME TypeOK, [Next]_vars
  PROVE  \/ HandedOut' <= HandedOut
         \/ HandedOut' = NoNonce
         \/ HandedOut' \in PendingCounts /\ UNCHANGED chainVars
         \/ SendAccepted /\ HandedOut' = pump.nonce + 1
<1> USE DEF TypeOK
<1>1. nextNonce \in Nat \cup {NoNonce} /\ HandedOut \in Int
  BY DEF PumpTypeOK, HandedOut, NoNonce
<1>2. ASSUME nextNonce' = nextNonce, pump'.pc # "send", pump.pc # "send"
      PROVE  HandedOut' = HandedOut
  BY <1>2 DEF HandedOut
<1>3. CASE UNCHANGED <<nextNonce, pump>>
  BY <1>1, <1>3 DEF HandedOut
<1>4. CASE (\E b \in Batch : Push(b)) \/ Tick
  <2>1. pump' = CallPump(pending') /\ nextNonce' = nextNonce
    BY <1>4 DEF Push, Tick
  <2>2. pending' \in Seq(Batch)
    BY QueueTypeStep DEF QueueTypeOK
  <2>3. CASE pump' = pump
    BY <1>1, <2>1, <2>3 DEF HandedOut
  <2>4. CASE pump' # pump
    BY <1>1, <1>2, <2>1, <2>2, <2>4, LoopHeadType DEF CallPump, PumpIdle
  <2> QED
    BY <2>3, <2>4
<1>5. CASE SyncNonce
  <2>1. pump'.pc # "send" /\ UNCHANGED chainVars
    BY <1>5, LoopHeadType DEF SyncNonce, QueueTypeOK
  <2> QED
    BY <1>1, <1>5, <2>1 DEF SyncNonce, HandedOut, Rebase
<1>6. CASE SyncFails
  BY <1>1, <1>2, <1>6 DEF SyncFails, PumpIdle
<1>7. CASE EstimatePasses
  BY <1>1, <1>7 DEF EstimatePasses, HandedOut, NoNonce
<1>8. CASE EstimateReverts \/ EstimateFails
  <2>1. pending' \in Seq(Batch)
    BY QueueTypeStep DEF QueueTypeOK
  <2>2. pump'.pc # "send"
    BY <1>8, <2>1, LoopHeadType DEF EstimateReverts, EstimateFails
  <2>3. nextNonce' = nextNonce /\ pump.pc # "send"
    BY <1>8 DEF EstimateReverts, EstimateFails
  <2> QED
    BY <1>1, <1>2, <2>2, <2>3
<1>9. CASE SendAccepted
  <2>1. pump'.pc # "send"
    BY <1>9, LoopHeadType DEF SendAccepted, QueueTypeOK
  <2>2. pump.nonce = nextNonce - 1 /\ nextNonce' = nextNonce
    BY <1>9 DEF SendAccepted, PumpTypeOK
  <2>3. HandedOut' = nextNonce
    BY <2>1, <2>2 DEF HandedOut
  <2> QED
    BY <1>1, <1>9, <2>2, <2>3 DEF NoNonce
<1>10. CASE BackOff
  BY <1>1, <1>10 DEF BackOff, PumpIdle, HandedOut, NoNonce
<1>11. CASE Crash
  BY <1>1, <1>11 DEF Crash, PumpIdle, HandedOut, NoNonce
<1> QED
  BY <1>3, <1>4, <1>5, <1>6, <1>7, <1>8, <1>9, <1>10, <1>11, PumpSteps
\* Only the mempool drops transactions.
LEMMA EvictionSteps ==
  ASSUME [Next]_vars
  PROVE  UNCHANGED evictions \/ \E n \in DOMAIN pool : Evict(n)
  BY DEF Next, RelayNext, ChainNext, PumpStep, RecStep, vars, chainVars,
     Mine, ForeignRead, ForeignSend, ForeignFails, Expire, Push, SyncNonce,
     SyncFails, EstimatePasses, EstimateReverts, EstimateFails, SendAccepted,
     SendRefused, SendFails, SendReplyLost, ReadLatest, ReadLatestFails,
     GotLatest, ReceiptFound, NonceAdvanced, StuckTooOften, Resolve,
     StillYoung, Resubmit, ResendAccepted, ResendRefused, ResendFails,
     ResendReplyLost, Age, Tick, Rest, Crash

LEMMA GapStep ==
  ASSUME TypeOK, NoNonceGap, [Next]_vars
  PROVE  NoNonceGap'
<1> USE DEF TypeOK
<1>1. HandedOut \in Int /\ HandedOut' \in Int
  <2>1. /\ nextNonce \in Nat \cup {NoNonce}
        /\ nextNonce' \in Nat \cup {NoNonce}
    BY PumpTypeStep DEF PumpTypeOK
  <2> QED
    BY <2>1 DEF HandedOut, NoNonce
<1>2. PICK top \in Int : top = HandedOut'
  BY <1>1
<1> SUFFICES ASSUME evictions' = 0, NEW n \in 0 .. top - 1
             PROVE  Covered(n)'
  BY <1>2 DEF NoNonceGap, Covered
<1>3. evictions = 0
  <2>1. evictions \in Nat /\ evictions + 1 # 0
    BY ChainAssumption DEF BoundsOK
  <2> QED
    BY <2>1, EvictionSteps DEF Evict
<1>4. n < HandedOut => Covered(n)
  BY <1>1, <1>3 DEF NoNonceGap, Covered
<1>5. CASE HandedOut' <= HandedOut
  <2>1. top <= HandedOut
    BY <1>2, <1>5
  <2>2. n \in Nat /\ n < HandedOut
    BY <1>1, <2>1
  <2> QED
    BY <1>4, <2>2, CoveredKept
<1>6. CASE HandedOut' = NoNonce
  BY <1>2, <1>6 DEF NoNonce
<1>7. CASE HandedOut' \in PendingCounts /\ UNCHANGED chainVars
  <2>1. Latest .. (top - 1) \subseteq DOMAIN pool /\ Latest \in Nat
    BY <1>2, <1>7 DEF PendingCounts, ChainTypeOK, Latest
  <2>2. Covered(n)
    BY <2>1 DEF Covered
  <2> QED
    BY <2>2, CoveredKept
<1>8. CASE SendAccepted /\ HandedOut' = pump.nonce + 1
  <2>1. HandedOut = pump.nonce
    BY <1>8 DEF SendAccepted, HandedOut, PumpTypeOK
  <2>2. pool' = PoolWith(pump.nonce, pump.group)
    BY <1>8 DEF SendAccepted
  <2>3. CASE n = pump.nonce
    BY <2>2, <2>3 DEF PoolWith, Covered
  <2>4. CASE n < pump.nonce
    BY <1>2, <1>4, <2>1, <2>4, CoveredKept
  <2> QED
    BY <1>1, <1>2, <1>8, <2>1, <2>3, <2>4
<1> QED
  BY <1>5, <1>6, <1>7, <1>8, HandedOutSteps

\* While the mempool drops nothing, every nonce the pump handed out is mined
\* or pooled.
THEOREM NoGapOfItsOwn == Spec => []NoNonceGap
<1>1. Init => NoNonceGap
  BY DEF Init, SubmitterInit, PumpIdle, NoNonce, HandedOut, NoNonceGap
<1>2. TypeOK /\ NoNonceGap /\ [Next]_vars => NoNonceGap'
  BY GapStep
<1> QED
  BY <1>1, <1>2, TypeCorrect, PTL DEF Spec
-----------------------------------------------------------------------------
(* What a step does to the places of batches                               *)

\* The tracked transactions carry what they carried.
SameFlights ==
  /\ DOMAIN inflight' = DOMAIN inflight
  /\ \A n \in DOMAIN inflight : inflight'[n].batches = inflight[n].batches

\* A call of _pump, and the head of its loop, do not send.
LEMMA NotSending ==
  ASSUME TypeOK, NEW queue \in Seq(Batch)
  PROVE  /\ pump' = CallPump(queue) => Sending' = Sending
         /\ pump.pc # "send" =>
              \A flight : pump' = LoopHead(queue, flight) => Sending' = Sending
         /\ \A flight : pump' = LoopHead(queue, flight) => Sending' = <<>>
<1>1. \A flight : LoopHead(queue, flight).pc # "send"
  BY LoopHeadType
<1>2. ASSUME pump' = CallPump(queue) PROVE Sending' = Sending
  <2>1. CASE pump.pc # "idle" \/ queue = <<>>
    BY <1>2, <2>1 DEF CallPump, Sending
  <2>2. CASE ~(pump.pc # "idle" \/ queue = <<>>)
    <3>1. pump.pc = "idle" /\ pump'.pc # "send"
      BY <1>1, <1>2, <2>2 DEF CallPump, PumpIdle
    <3> QED
      BY <3>1 DEF Sending
  <2> QED
    BY <2>1, <2>2
<1> QED
  BY <1>1, <1>2 DEF Sending

\* The steps that move no batch.
Unmoved ==
  /\ UNCHANGED <<pending, outcome, arrival>>
  /\ Sending' = Sending
  /\ SameFlights

\* Every step moves no batch, or is one of eight kinds.
LEMMA Moves ==
  ASSUME TypeOK, [Next]_vars
  PROVE  \/ Unmoved
         \/ \E b \in Batch : Push(b)
         \/ EstimatePasses \/ EstimateReverts \/ EstimateFails
         \/ SendAccepted \/ BackOff
         \/ \E n \in DOMAIN inflight, what \in Outcomes \ {"open"} : Resolve(n, what)
         \/ Crash
<1> USE DEF TypeOK
<1>0. pending \in Seq(Batch)
  BY DEF QueueTypeOK
<1>1. ASSUME UNCHANGED <<pending, outcome, arrival, pump, inflight>> PROVE Unmoved
  BY <1>1 DEF Unmoved, Sending, SameFlights
<1>2. CASE SyncNonce
  <2>1. UNCHANGED <<pending, outcome, arrival, inflight>> /\ pump.pc # "send"
        /\ pump' = LoopHead(pending, inflight)
    BY <1>2 DEF SyncNonce
  <2> QED
    BY <1>0, <2>1, NotSending DEF Unmoved, SameFlights
<1>3. CASE SyncFails
  BY <1>3 DEF SyncFails, Unmoved, SameFlights, Sending, PumpIdle
<1>4. CASE Tick
  <2>1. UNCHANGED <<pending, outcome, arrival, inflight>> /\ pump' = CallPump(pending)
    BY <1>4 DEF Tick
  <2> QED
    BY <1>0, <2>1, NotSending DEF Unmoved, SameFlights
<1>5. CASE SendRefused \/ SendFails \/ SendReplyLost
  BY <1>5 DEF SendRefused, SendFails, SendReplyLost
<1>6. CASE ReadLatest \/ ReadLatestFails
  BY <1>1, <1>6 DEF ReadLatest, ReadLatestFails, GotLatest
<1>7. ASSUME NEW n \in rec.todo, ReceiptFound(n) \/ NonceAdvanced(n) \/ StuckTooOften(n)
      PROVE  \E m \in DOMAIN inflight, what \in Outcomes \ {"open"} : Resolve(m, what)
  <2>1. n \in DOMAIN inflight
    BY DEF RecTypeOK
  <2>2. \E what \in Outcomes \ {"open"} : Resolve(n, what)
    BY <1>7 DEF ReceiptFound, NonceAdvanced, StuckTooOften, Outcomes
  <2> QED
    BY <2>1, <2>2
<1>8. ASSUME NEW n \in rec.todo,
             StillYoung(n) \/ ResendRefused(n) \/ ResendFails(n) \/ ResendReplyLost(n)
      PROVE  Unmoved
  BY <1>1, <1>8 DEF StillYoung, ResendRefused, ResendFails, ResendReplyLost, GiveUpResend
<1>9. ASSUME NEW n, UNCHANGED <<pending, outcome, arrival, pump>>,
             \/ inflight' = [inflight EXCEPT ![n].aged = FALSE]
             \/ inflight' = [inflight EXCEPT ![n].aged = TRUE]
             \/ inflight' = [inflight EXCEPT ![n].attempts = @ + 1]
      PROVE  Unmoved
  <2>1. SameFlights
    BY <1>9 DEF SameFlights, FlightTypeOK, Tracked
  <2> QED
    BY <1>9, <2>1 DEF Unmoved, Sending
<1>10. ASSUME NEW n \in rec.todo, Resubmit(n) \/ ResendAccepted(n) PROVE Unmoved
  BY <1>9, <1>10 DEF Resubmit, ResendAccepted
<1>11. ASSUME NEW n \in DOMAIN inflight, Age(n) PROVE Unmoved
  BY <1>9, <1>11 DEF Age
<1>12. CASE Rest \/ UNCHANGED vars
  BY <1>1, <1>12 DEF Rest, vars, submitterVars
<1>13. CASE ChainNext /\ UNCHANGED submitterVars
  BY <1>1, <1>13 DEF submitterVars
<1> QED
  BY <1>2, <1>3, <1>4, <1>5, <1>6, <1>7, <1>8, <1>10, <1>11, <1>12, <1>13
     DEF Next, RelayNext, PumpStep, RecStep

\* The group being estimated and the rest make up the queue.
LEMMA GroupAndRest ==
  ASSUME TypeOK, EstimatedGroupIsNext, pump.pc = "estimate"
  PROVE  /\ pump.group \in Seq(Batch) /\ WithoutGroup \in Seq(Batch)
         /\ \A b : Count(pending, b) = Count(pump.group, b) + Count(WithoutGroup, b)
<1> DEFINE k == Len(pump.group)
<1>1. pending \in Seq(Batch) /\ pump.group \in Seq(Batch)
  BY PumpFields DEF TypeOK, QueueTypeOK
<1>2. k \in 0 .. Len(pending) /\ SubSeq(pending, 1, k) = pump.group
  <2>1. k <= Len(pending) /\ SubSeq(pump.group, 1, k) = SubSeq(pending, 1, k)
    BY DEF EstimatedGroupIsNext, IsPrefix
  <2> QED
    BY <1>1, <2>1, SubSeqFull
<1>3. WithoutGroup = SubSeq(pending, k + 1, Len(pending))
  BY DEF WithoutGroup
<1> HIDE DEF k
<1> QED
  BY <1>1, <1>2, <1>3, SplitAt, CountSplit

-----------------------------------------------------------------------------
(* Every batch in one place                                                *)

Waiting(b) == Count(pending, b) + Count(Sending, b)

\* A batch that arrived and has no outcome is in flight, or once in the queue
\* or the group being sent; one with an outcome, or not here, is nowhere.
InOneStage(b) ==
  /\ Waiting(b) = IF b \in Arrived /\ outcome[b] = "open" /\ ~InFlight(b) THEN 1 ELSE 0
  /\ InFlight(b) => b \in Arrived /\ outcome[b] = "open"
  /\ b \notin Arrived => outcome[b] = "open"

\* A tracked transaction carries a batch once, and no other carries it.
FlightsApart ==
  /\ \A n \in DOMAIN inflight, b \in Batch : Count(inflight[n].batches, b) <= 1
  /\ \A m, n \in DOMAIN inflight, b \in Batch :
       b \in ToSet(inflight[m].batches) /\ b \in ToSet(inflight[n].batches) => m = n

Staged == FlightsApart /\ \A b \in Batch : InOneStage(b)

\* What the relay holds are sequences of batches.
LEMMA HeldSequences ==
  ASSUME TypeOK
  PROVE  /\ pending \in Seq(Batch) /\ Sending \in Seq(Batch) /\ pump.group \in Seq(Batch)
         /\ arrival \in Seq(Batch) /\ DOMAIN inflight \subseteq Nat
         /\ \A n \in DOMAIN inflight : inflight[n].batches \in Seq(Batch)
<1>1. pump.group \in Seq(Batch) /\ Sending \in Seq(Batch)
  BY PumpFields, EmptySeq DEF TypeOK, Sending
<1>2. \A n \in DOMAIN inflight : inflight[n].batches \in Seq(Batch)
  BY TrackedGroup DEF TypeOK
<1> QED
  BY <1>1, <1>2 DEF TypeOK, QueueTypeOK, HistoryTypeOK, FlightTypeOK

\* What a tracked transaction carries follows the transactions.
LEMMA FlightsStay ==
  ASSUME SameFlights
  PROVE  /\ \A b : InFlight(b)' = InFlight(b)
         /\ FlightsApart => FlightsApart'
<1>1. DOMAIN inflight' = DOMAIN inflight
      /\ \A n \in DOMAIN inflight : inflight'[n].batches = inflight[n].batches
  BY DEF SameFlights
<1> QED
  BY <1>1 DEF InFlight, FlightsApart

\* A step that changes no transaction in flight keeps Staged if it keeps
\* InOneStage of each batch.
LEMMA StagedByBatch ==
  ASSUME Staged, SameFlights, Arrived' = Arrived,
         \A b \in Batch : \/ outcome'[b] = outcome[b] /\ Waiting(b)' = Waiting(b)
                          \/ Waiting(b) >= 1 /\ outcome'[b] # "open" /\ Waiting(b)' = 0
  PROVE  Staged'
<1>1. SUFFICES ASSUME NEW b \in Batch PROVE InOneStage(b)'
  BY FlightsStay DEF Staged
<1>2. InOneStage(b) /\ InFlight(b)' = InFlight(b)
  BY FlightsStay DEF Staged
<1>3. CASE outcome'[b] = outcome[b] /\ Waiting(b)' = Waiting(b)
  BY <1>2, <1>3 DEF InOneStage
<1>4. CASE Waiting(b) >= 1 /\ outcome'[b] # "open" /\ Waiting(b)' = 0
  <2>1. b \in Arrived /\ ~InFlight(b)
    BY <1>2, <1>4 DEF InOneStage
  <2> QED
    BY <1>2, <1>4, <2>1 DEF InOneStage
<1> QED
  BY <1>3, <1>4

\* A batch arrives.
LEMMA StagedPush ==
  ASSUME TypeOK, Staged, NEW a \in Batch, Push(a)
  PROVE  Staged'
<1>1. /\ a \notin Arrived /\ Arrived' = Arrived \cup {a}
      /\ outcome' = outcome /\ inflight' = inflight
  BY HeldSequences, ToSetAppend DEF Push, Arrived
<1>2. SameFlights
  BY <1>1 DEF SameFlights
<1>3. \A b \in Batch : Waiting(b)' = Waiting(b) + IF a = b THEN 1 ELSE 0
  <2>1. pending' = Append(pending, a) /\ pump' = CallPump(pending') /\ pending' \in Seq(Batch)
    BY HeldSequences DEF Push
  <2>2. Sending' = Sending
    BY <2>1, NotSending
  <2>3. \A b \in Batch : Count(pending', b) = Count(pending, b) + IF a = b THEN 1 ELSE 0
    BY <2>1, HeldSequences, CountAppend
  <2>4. \A b : Count(pending, b) \in Nat /\ Count(Sending, b) \in Nat
    BY HeldSequences, CountType
  <2> QED
    BY <2>2, <2>3, <2>4 DEF Waiting
<1>4. SUFFICES ASSUME NEW b \in Batch PROVE InOneStage(b)'
  BY <1>2, FlightsStay DEF Staged
<1>5. InOneStage(b) /\ InFlight(b)' = InFlight(b)
  BY <1>2, FlightsStay DEF Staged
<1>6. CASE b = a
  BY <1>1, <1>3, <1>5, <1>6 DEF InOneStage
<1>7. CASE b # a
  <2>1. Waiting(b) \in {0, 1}
    BY <1>5 DEF InOneStage
  <2>2. Waiting(b)' = Waiting(b)
    BY <1>3, <1>7, <2>1
  <2> QED
    BY <1>1, <1>5, <1>7, <2>2 DEF InOneStage
<1> QED
  BY <1>6, <1>7

\* An estimate ends: its group is sent, given up, or partly queued again.
LEMMA StagedEstimate ==
  ASSUME TypeOK, Staged, EstimatedGroupIsNext,
         EstimatePasses \/ EstimateReverts \/ EstimateFails
  PROVE  Staged'
<1> DEFINE group == pump.group
           rest == WithoutGroup
<1>1. /\ pump.pc = "estimate" /\ Sending = <<>>
      /\ inflight' = inflight /\ Arrived' = Arrived
  BY DEF EstimatePasses, EstimateReverts, EstimateFails, Sending, Arrived
<1>2. SameFlights
  BY <1>1 DEF SameFlights
<1>3. /\ group \in Seq(Batch) /\ rest \in Seq(Batch)
      /\ \A b : Count(pending, b) = Count(group, b) + Count(rest, b)
  BY <1>1, GroupAndRest
<1>4. \A b : /\ Count(group, b) \in Nat /\ Count(rest, b) \in Nat
             /\ Count(group, b) = 0 <=> b \notin ToSet(group)
  BY <1>3, CountType
<1>5. \A b : Waiting(b) = Count(group, b) + Count(rest, b)
  BY <1>1, <1>3, <1>4, CountEmpty DEF Waiting
<1>6. \A b \in Batch : Waiting(b) \in {0, 1}
  BY DEF Staged, InOneStage
<1>7. CASE EstimatePasses
  <2>1. pending' = rest /\ Sending' = group /\ outcome' = outcome
    BY <1>7 DEF EstimatePasses, Sending
  <2>2. \A b : Waiting(b)' = Count(rest, b) + Count(group, b)
    BY <2>1 DEF Waiting
  <2>3. \A b \in Batch : outcome'[b] = outcome[b] /\ Waiting(b)' = Waiting(b)
    BY <1>4, <1>5, <2>1, <2>2
  <2> QED
    BY <1>1, <1>2, <2>3, StagedByBatch
<1>8. ASSUME NEW b \in Batch, NEW back \in Nat, Waiting(b)' = Count(rest, b) + back,
             \/ b \in ToSet(group) /\ back = 0 /\ outcome'[b] # "open"
             \/ back = Count(group, b) /\ outcome'[b] = outcome[b]
      PROVE  \/ outcome'[b] = outcome[b] /\ Waiting(b)' = Waiting(b)
             \/ Waiting(b) >= 1 /\ outcome'[b] # "open" /\ Waiting(b)' = 0
  <2>1. CASE b \in ToSet(group) /\ back = 0 /\ outcome'[b] # "open"
    <3>1. Count(group, b) >= 1
      BY <1>4, <2>1
    <3>2. Count(group, b) + Count(rest, b) \in {0, 1}
      BY <1>5, <1>6
    <3>3. Count(group, b) = 1 /\ Count(rest, b) = 0
      BY <1>4, <3>1, <3>2
    <3>4. Waiting(b) = 1 /\ Waiting(b)' = 0
      BY <1>5, <1>8, <2>1, <3>3
    <3> QED
      BY <2>1, <3>4
  <2>2. CASE back = Count(group, b) /\ outcome'[b] = outcome[b]
    BY <1>4, <1>5, <1>8, <2>2
  <2> QED
    BY <1>8, <2>1, <2>2
<1>9. CASE EstimateReverts
  <2>1. pending' = rest /\ outcome' = Report(group, "rejected")
    BY <1>9 DEF EstimateReverts
  <2>2. Sending' = <<>>
    BY <1>3, <1>9, <2>1, NotSending DEF EstimateReverts
  <2>3. \A b : Waiting(b)' = Count(rest, b) + 0
    BY <2>1, <2>2, <1>4, CountEmpty DEF Waiting
  <2>4. ASSUME NEW b \in Batch
        PROVE  \/ outcome'[b] = outcome[b] /\ Waiting(b)' = Waiting(b)
               \/ Waiting(b) >= 1 /\ outcome'[b] # "open" /\ Waiting(b)' = 0
    <3>1. CASE b \in ToSet(group)
      BY <1>8, <2>1, <2>3, <3>1 DEF Report
    <3>2. CASE b \notin ToSet(group)
      BY <1>4, <1>8, <2>1, <2>3, <3>2 DEF Report
    <3> QED
      BY <3>1, <3>2
  <2> QED
    BY <1>1, <1>2, <2>4, StagedByBatch
<1>10. CASE EstimateFails
  <2>1. PICK kept \in BoundedSeq(Batch, CLAIM_BATCH_SIZE) :
          /\ IsSelection(kept, group, {b \in Batch : HasRetry(b)})
          /\ pending' = rest \o kept
    BY <1>10 DEF EstimateFails
  <2>2. kept \in Seq(Batch)
    BY SubmitterAssumption DEF BoundedSeq, SeqOf
  <2>3. Sending' = <<>>
    <3>1. pending' \in Seq(Batch)
      BY <1>3, <2>1, <2>2
    <3> QED
      BY <1>10, <3>1, NotSending DEF EstimateFails
  <2>4. \A b : Count(kept, b) \in Nat
    BY <2>2, CountType
  <2>5. \A b : Waiting(b)' = Count(rest, b) + Count(kept, b)
    BY <1>3, <1>4, <2>1, <2>2, <2>3, <2>4, CountConcat, CountEmpty DEF Waiting
  <2>6. \A b \in Batch : Count(kept, b) = IF HasRetry(b) THEN Count(group, b) ELSE 0
    <3> DEFINE R == {b \in Batch : HasRetry(b)}
    <3>1. IsSelection(kept, group, R) /\ group \in Seq(Batch)
      BY <1>3, <2>1
    <3>2. \A b \in Batch : b \in R <=> HasRetry(b)
      OBVIOUS
    <3> HIDE DEF R, group
    <3> QED
      BY <2>2, <3>1, <3>2, CountSelection
  <2>7. ASSUME NEW b \in Batch
        PROVE  \/ outcome'[b] = outcome[b] /\ Waiting(b)' = Waiting(b)
               \/ Waiting(b) >= 1 /\ outcome'[b] # "open" /\ Waiting(b)' = 0
    <3>1. outcome'[b] = IF b \in ToSet(group) /\ ~HasRetry(b) THEN "exhausted" ELSE outcome[b]
      BY <1>10 DEF EstimateFails
    <3>2. CASE b \in ToSet(group) /\ ~HasRetry(b)
      BY <1>8, <2>4, <2>5, <2>6, <3>1, <3>2
    <3>3. CASE ~(b \in ToSet(group) /\ ~HasRetry(b))
      <4>1. Count(kept, b) = Count(group, b)
        BY <1>4, <2>6, <3>3
      <4> QED
        BY <1>8, <2>4, <2>5, <3>1, <3>3, <4>1
    <3> QED
      BY <3>2, <3>3
  <2> QED
    BY <1>1, <1>2, <2>7, StagedByBatch
<1> QED
  BY <1>7, <1>9, <1>10


\* The node takes a group: it is in flight.
LEMMA StagedSend ==
  ASSUME TypeOK, NonceDiscipline, Staged, SendAccepted
  PROVE  Staged'
<1> DEFINE group == pump.group
           new == pump.nonce
<1>1. /\ group \in Seq(Batch) /\ Sending = group /\ new \notin DOMAIN inflight
      /\ UNCHANGED <<pending, outcome, arrival>>
  BY HeldSequences DEF SendAccepted, Sending, NonceDiscipline
<1>2. /\ DOMAIN inflight' = DOMAIN inflight \cup {new}
      /\ inflight'[new].batches = group
      /\ \A n \in DOMAIN inflight : inflight'[n].batches = inflight[n].batches
  BY <1>1 DEF SendAccepted, Track
<1>3. Sending' = <<>> /\ Arrived' = Arrived
  BY <1>1, HeldSequences, NotSending DEF SendAccepted, Arrived
<1>4. \A b : InFlight(b)' <=> InFlight(b) \/ b \in ToSet(group)
  BY <1>2 DEF InFlight
<1>5. \A b : /\ Count(pending, b) \in Nat /\ Count(group, b) \in Nat
             /\ Count(group, b) = 0 <=> b \notin ToSet(group)
             /\ Waiting(b) = Count(pending, b) + Count(group, b)
             /\ Waiting(b)' = Count(pending, b)
  BY <1>1, <1>3, HeldSequences, CountType, CountEmpty DEF Waiting
<1>6. ASSUME NEW b \in Batch, b \in ToSet(group)
      PROVE  /\ b \in Arrived /\ outcome[b] = "open" /\ ~InFlight(b)
             /\ Count(group, b) = 1 /\ Count(pending, b) = 0
  <2>1. Waiting(b) >= 1
    BY <1>5, <1>6
  <2>2. InOneStage(b)
    BY DEF Staged
  <2> QED
    BY <1>5, <1>6, <2>1, <2>2 DEF InOneStage
<1>7. ASSUME NEW b \in Batch PROVE InOneStage(b)'
  <2>1. InOneStage(b)
    BY DEF Staged
  <2>2. CASE b \in ToSet(group)
    BY <1>1, <1>3, <1>4, <1>5, <1>6, <2>2 DEF InOneStage
  <2>3. CASE b \notin ToSet(group)
    <3>1. Waiting(b)' = Waiting(b)
      BY <1>5, <2>3
    <3>2. InFlight(b)' = InFlight(b)
      BY <1>4, <2>3 DEF InFlight
    <3> QED
      BY <1>1, <1>3, <2>1, <3>1, <3>2 DEF InOneStage
  <2> QED
    BY <2>2, <2>3
<1>8. FlightsApart'
  <2>1. \A n \in DOMAIN inflight', b \in Batch : Count(inflight'[n].batches, b) <= 1
    <3>1. \A b \in Batch : Count(group, b) <= 1
      BY <1>5, <1>6
    <3> QED
      BY <1>2, <3>1 DEF Staged, FlightsApart
  <2>2. \A n \in DOMAIN inflight, b \in Batch :
          b \in ToSet(inflight[n].batches) => b \notin ToSet(group)
    BY <1>6 DEF InFlight
  <2>3. ASSUME NEW m \in DOMAIN inflight', NEW n \in DOMAIN inflight', NEW b \in Batch,
               b \in ToSet(inflight'[m].batches), b \in ToSet(inflight'[n].batches)
        PROVE  m = n
    BY <1>2, <2>2, <2>3 DEF Staged, FlightsApart
  <2> QED
    BY <2>1, <2>3 DEF FlightsApart
<1> QED
  BY <1>7, <1>8 DEF Staged

\* A send fails: its group is queued again.
LEMMA StagedBackOff ==
  ASSUME TypeOK, Staged, BackOff
  PROVE  Staged'
<1>1. /\ Sending = pump.group /\ pending' = pump.group \o pending /\ Sending' = <<>>
      /\ inflight' = inflight /\ outcome' = outcome /\ Arrived' = Arrived
  BY DEF BackOff, Sending, PumpIdle, Arrived
<1>2. \A b \in Batch : Waiting(b)' = Waiting(b)
  <2>1. \A b : Count(pump.group \o pending, b) = Count(pump.group, b) + Count(pending, b)
    BY HeldSequences, CountConcat
  <2>2. \A b : Count(pump.group, b) \in Nat /\ Count(pending, b) \in Nat
    BY HeldSequences, CountType
  <2> QED
    BY <1>1, <2>1, <2>2, CountEmpty DEF Waiting
<1> QED
  BY <1>1, <1>2, StagedByBatch DEF SameFlights

\* A tracked transaction is resolved: its batches have an outcome.
LEMMA StagedResolve ==
  ASSUME TypeOK, Staged, NEW n \in DOMAIN inflight, NEW what \in Outcomes \ {"open"},
         Resolve(n, what)
  PROVE  Staged'
<1> DEFINE group == inflight[n].batches
<1>1. /\ DOMAIN inflight' = DOMAIN inflight \ {n}
      /\ \A m \in DOMAIN inflight' : inflight'[m].batches = inflight[m].batches
  BY DEF Resolve, Restrict
<1>2. /\ Arrived' = Arrived
      /\ \A b \in Batch : outcome'[b] = IF b \in ToSet(group) THEN what ELSE outcome[b]
  BY DEF Resolve, Report, Arrived
<1>3. \A b : Waiting(b)' = Waiting(b)
  BY DEF Resolve, Waiting, Sending
<1>4. FlightsApart'
  BY <1>1 DEF Staged, FlightsApart
<1>5. ASSUME NEW b \in Batch PROVE InOneStage(b)'
  <2>1. InOneStage(b)
    BY DEF Staged
  <2>2. CASE b \in ToSet(group)
    <3>1. InFlight(b)
      BY <2>2 DEF InFlight
    <3>2. ~InFlight(b)'
      BY <1>1, <2>2 DEF InFlight, Staged, FlightsApart
    <3>3. outcome'[b] # "open"
      BY <1>2, <2>2
    <3> QED
      BY <1>2, <1>3, <2>1, <3>1, <3>2, <3>3 DEF InOneStage
  <2>3. CASE b \notin ToSet(group)
    <3>1. InFlight(b)' = InFlight(b)
      BY <1>1, <2>3 DEF InFlight
    <3> QED
      BY <1>2, <1>3, <2>1, <2>3, <3>1 DEF InOneStage
  <2> QED
    BY <2>2, <2>3
<1> QED
  BY <1>4, <1>5 DEF Staged

\* The process dies: every batch it held has an outcome.
LEMMA StagedCrash ==
  ASSUME TypeOK, Staged, Crash
  PROVE  Staged'
<1>1. /\ pending' = <<>> /\ Sending' = <<>> /\ DOMAIN inflight' = {} /\ Arrived' = Arrived
      /\ \A b \in Batch : outcome'[b] = IF b \in Arrived /\ outcome[b] = "open"
                                        THEN "lost" ELSE outcome[b]
  BY DEF Crash, PumpIdle, Sending, Arrived
<1>2. \A b : Waiting(b)' = 0 /\ ~InFlight(b)'
  BY <1>1, CountEmpty DEF Waiting, InFlight
<1> QED
  BY <1>1, <1>2 DEF Staged, InOneStage, FlightsApart

LEMMA StagedStep ==
  ASSUME TypeOK, NonceDiscipline, EstimatedGroupIsNext, Staged, [Next]_vars
  PROVE  Staged'
<1>1. CASE Unmoved
  <2>1. \A b : Waiting(b)' = Waiting(b)
    BY <1>1 DEF Unmoved, Waiting
  <2> QED
    BY <1>1, <2>1, StagedByBatch DEF Unmoved, Arrived
<1> QED
  BY <1>1, Moves, StagedPush, StagedEstimate, StagedSend, StagedBackOff,
     StagedResolve, StagedCrash

LEMMA StagedInit == Init => Staged
<1> SUFFICES ASSUME Init PROVE Staged
  OBVIOUS
<1>1. /\ pending = <<>> /\ Sending = <<>> /\ DOMAIN inflight = {} /\ Arrived = {}
      /\ \A b \in Batch : outcome[b] = "open"
  BY ToSetEmpty DEF Init, SubmitterInit, PumpIdle, Sending, Arrived
<1>2. \A b : Waiting(b) = 0 /\ ~InFlight(b)
  BY <1>1, CountEmpty DEF Waiting, InFlight
<1> QED
  BY <1>1, <1>2 DEF Staged, InOneStage, FlightsApart


LEMMA StagedAlways == Spec => []Staged
<1>1. TypeOK /\ NonceDiscipline /\ EstimatedGroupIsNext /\ Staged /\ [Next]_vars => Staged'
  BY StagedStep
<1> QED
  BY <1>1, StagedInit, TypeCorrect, NoncesDisciplined, EstimatedGroupStaysNext, PTL
     DEF Spec

\* The positions of a batch in flight are one or none, as InFlight says.
LEMMA FlightPositions ==
  ASSUME TypeOK, Staged, NEW b \in Batch
  PROVE  Cardinality(UNION {{n} \X Positions(inflight[n].batches, b) : n \in DOMAIN inflight})
           = IF InFlight(b) THEN 1 ELSE 0
<1> DEFINE At(n) == Positions(inflight[n].batches, b)
           all == UNION {{n} \X At(n) : n \in DOMAIN inflight}
<1>1. \A n \in DOMAIN inflight : /\ IsFiniteSet(At(n))
                                 /\ At(n) # {} <=> b \in ToSet(inflight[n].batches)
                                 /\ Cardinality(At(n)) <= 1
  <2>1. TAKE n \in DOMAIN inflight
  <2>2. inflight[n].batches \in Seq(Batch)
    BY HeldSequences
  <2>3. At(n) # {} <=> b \in ToSet(inflight[n].batches)
    BY DEF Positions, ToSet
  <2>4. IsFiniteSet(At(n))
    BY <2>2, CountType
  <2>5. Cardinality(At(n)) <= 1
    BY DEF Staged, FlightsApart, Count
  <2> QED
    BY <2>3, <2>4, <2>5
<1>2. CASE ~InFlight(b)
  <2>1. \A n \in DOMAIN inflight : At(n) = {}
    BY <1>1, <1>2 DEF InFlight
  <2>2. all = {}
    BY <2>1
  <2> QED
    BY <1>2, <2>2, FS_EmptySet
<1>3. CASE InFlight(b)
  <2>1. PICK n \in DOMAIN inflight : b \in ToSet(inflight[n].batches)
    BY <1>3 DEF InFlight
  <2>2. \A m \in DOMAIN inflight : m # n => At(m) = {}
    BY <1>1, <2>1 DEF Staged, FlightsApart
  <2>3. PICK i : At(n) = {i}
    <3>1. IsFiniteSet(At(n)) /\ Cardinality(At(n)) \in Nat /\ Cardinality(At(n)) # 0
      BY <1>1, <2>1, FS_CardinalityType, FS_EmptySet
    <3>2. Cardinality(At(n)) = 1
      BY <1>1, <3>1
    <3> HIDE DEF At
    <3> QED
      BY <3>1, <3>2, FS_Singleton
  <2>4. all = {<<n, i>>}
    <3> HIDE DEF At
    <3>1. all = {n} \X At(n)
      BY <2>1, <2>2
    <3> QED
      BY <2>3, <3>1
  <2> QED
    BY <1>3, <2>4, FS_Singleton
<1> QED
  BY <1>2, <1>3

\* No batch is lost without a report, and none is in two places.
THEOREM EveryBatchInOnePlace == Spec => []OneStage
<1>1. ASSUME TypeOK, Staged PROVE OneStage
  <2> SUFFICES ASSUME NEW b \in Batch
               PROVE  Places(b) = IF b \in Arrived /\ outcome[b] = "open" THEN 1 ELSE 0
    BY DEF OneStage
  <2>1. InOneStage(b)
    BY <1>1 DEF Staged
  <2>2. /\ Count(pending, b) \in Nat /\ Count(Sending, b) \in Nat
        /\ Count(pending, b) + Count(Sending, b) = Waiting(b)
    BY <1>1, HeldSequences, CountType DEF Waiting
  <2>3. Places(b) = Waiting(b) + IF InFlight(b) THEN 1 ELSE 0
    BY <1>1, <2>2, FlightPositions DEF Places, Count
  <2> QED
    BY <2>1, <2>3 DEF InOneStage
<1>2. TypeOK /\ Staged => OneStage
  BY <1>1
<1> QED
  BY <1>2, StagedAlways, TypeCorrect, PTL


-----------------------------------------------------------------------------
(* The nonces a batch is sent under                                        *)

\* A batch whose replies arrived is under one nonce at most: none before it
\* is sent, and the nonce of its transaction while that is in flight.
SentUnderOneNonce(b) ==
  /\ \A m, n \in CarriedAt(b) : m = n
  /\ outcome[b] = "open" /\ ~InFlight(b) => CarriedAt(b) = {}
  /\ \A n \in DOMAIN inflight :
       b \in ToSet(inflight[n].batches) => CarriedAt(b) \subseteq {n}

SentAsTracked == \A b \in Batch \ unacked : SentUnderOneNonce(b)

\* A transaction pooled under n carries its batches there, and nothing else
\* moves.
LEMMA CarriedByPool ==
  ASSUME NEW n, NEW group, pool' = PoolWith(n, group), mined' = mined, NEW b
  PROVE  /\ CarriedAt(b)' \subseteq CarriedAt(b) \cup {n}
         /\ b \notin ToSet(group) => CarriedAt(b)' \subseteq CarriedAt(b)
<1>1. /\ DOMAIN pool' = DOMAIN pool \cup {n} /\ pool'[n] = group
      /\ \A m \in DOMAIN pool : m # n => pool'[m] = pool[m]
  BY DEF PoolWith
<1> QED
  BY <1>1 DEF CarriedAt, Latest

\* A block, a drop and another sender's transaction put no batch under a
\* nonce.
LEMMA CarriedByChain ==
  ASSUME TypeOK, ChainNext, NEW b
  PROVE  CarriedAt(b)' \subseteq CarriedAt(b)
<1> USE DEF TypeOK, ChainTypeOK
<1>1. CASE Mine
  <2>1. /\ Latest \in Nat /\ Latest \in DOMAIN pool
        /\ Latest' = Latest + 1
        /\ \A i \in 1 .. Latest : mined'[i] = mined[i]
        /\ mined'[Latest + 1].group = pool[Latest]
    BY <1>1 DEF Mine, Latest
  <2>2. /\ DOMAIN pool' = DOMAIN pool \ {Latest}
        /\ \A n \in DOMAIN pool' : pool'[n] = pool[n]
    BY <1>1 DEF Mine, Restrict
  <2>3. SUFFICES ASSUME NEW n \in CarriedAt(b)' PROVE n \in CarriedAt(b)
    OBVIOUS
  <2>4. CASE n \in 0 .. Latest' - 1 /\ b \in ToSet(mined'[n + 1].group)
    <3>1. CASE n = Latest
      BY <2>1, <2>4, <3>1 DEF CarriedAt
    <3>2. CASE n # Latest
      <4>1. n \in 0 .. Latest - 1 /\ n + 1 \in 1 .. Latest
        BY <2>1, <2>4, <3>2
      <4>2. mined'[n + 1] = mined[n + 1]
        BY <2>1, <4>1
      <4> QED
        BY <2>4, <4>1, <4>2 DEF CarriedAt
    <3> QED
      BY <3>1, <3>2
  <2>5. CASE n \in DOMAIN pool' /\ b \in ToSet(pool'[n])
    BY <2>2, <2>5 DEF CarriedAt
  <2> QED
    BY <2>3, <2>4, <2>5 DEF CarriedAt
<1>2. ASSUME NEW o \in Other, ForeignSend(o)
      PROVE  CarriedAt(b)' \subseteq CarriedAt(b)
  <2>1. pool' = PoolWith(others[o], <<>>) /\ mined' = mined
    BY <1>2 DEF ForeignSend
  <2> QED
    BY <2>1, CarriedByPool, ToSetEmpty
<1>5. ASSUME NEW o \in Other, ForeignRead(o) \/ ForeignFails(o)
      PROVE  CarriedAt(b)' \subseteq CarriedAt(b)
  BY <1>5 DEF ForeignRead, ForeignFails, CarriedAt, Latest
<1>3. CASE \E n \in DOMAIN pool : Evict(n)
  BY <1>3 DEF Evict, Restrict, CarriedAt, Latest
<1>4. CASE \E e \in Mortal : Expire(e)
  BY <1>4 DEF Expire, CarriedAt, Latest
<1> QED
  BY <1>1, <1>2, <1>3, <1>4, <1>5 DEF ChainNext

\* A step that is not a send and not a crash gives no batch a new
\* transaction, and takes one away only with an outcome.
LEMMA FlightsOnlyEnd ==
  ASSUME TypeOK, Staged, [Next]_vars, ~SendAccepted, ~Crash, NEW b \in Batch
  PROVE  /\ \A n \in DOMAIN inflight' :
              n \in DOMAIN inflight /\ inflight'[n].batches = inflight[n].batches
         /\ outcome'[b] = "open" => outcome[b] = "open" /\ InFlight(b)' = InFlight(b)
<1>1. CASE Unmoved
  BY <1>1, FlightsStay DEF Unmoved, SameFlights
<1>2. CASE (\E a \in Batch : Push(a)) \/ EstimatePasses \/ BackOff
  <2>1. inflight' = inflight /\ outcome' = outcome
    BY <1>2 DEF Push, EstimatePasses, BackOff
  <2> QED
    BY <2>1 DEF InFlight
<1>3. CASE EstimateReverts \/ EstimateFails
  <2>1. inflight' = inflight
    BY <1>3 DEF EstimateReverts, EstimateFails
  <2>2. outcome'[b] = "open" => outcome[b] = "open"
    BY <1>3 DEF EstimateReverts, EstimateFails, Report
  <2> QED
    BY <2>1, <2>2 DEF InFlight
<1>4. ASSUME NEW n \in DOMAIN inflight, NEW what \in Outcomes \ {"open"}, Resolve(n, what)
      PROVE  /\ \A m \in DOMAIN inflight' :
                  m \in DOMAIN inflight /\ inflight'[m].batches = inflight[m].batches
             /\ outcome'[b] = "open" => outcome[b] = "open" /\ InFlight(b)' = InFlight(b)
  <2>1. /\ DOMAIN inflight' = DOMAIN inflight \ {n}
        /\ \A m \in DOMAIN inflight' : inflight'[m].batches = inflight[m].batches
        /\ outcome'[b] = IF b \in ToSet(inflight[n].batches) THEN what ELSE outcome[b]
    BY <1>4 DEF Resolve, Restrict, Report
  <2> QED
    BY <2>1 DEF InFlight
<1> QED
  BY <1>1, <1>2, <1>3, <1>4, Moves

\* A batch being sent is in no transaction yet.
LEMMA SendingIsNew ==
  ASSUME TypeOK, Staged, pump.pc = "send", NEW b \in Batch, b \in ToSet(pump.group)
  PROVE  b \in Arrived /\ outcome[b] = "open" /\ ~InFlight(b)
<1>1. /\ Count(pending, b) \in Nat /\ Count(pump.group, b) \in Nat
      /\ Count(pump.group, b) # 0
  BY HeldSequences, CountType
<1>2. Waiting(b) # 0
  BY <1>1 DEF Waiting, Sending
<1> QED
  BY <1>2 DEF Staged, InOneStage

LEMMA SentStep ==
  ASSUME TypeOK, NonceDiscipline, Staged, Staged', SentAsTracked, [Next]_vars
  PROVE  SentAsTracked'
<1>1. unacked \subseteq unacked'
  BY DEF Next, RelayNext, PumpStep, RecStep, vars, submitterVars, Push,
     SyncNonce, SyncFails, EstimatePasses, EstimateReverts, EstimateFails,
     SendAccepted, SendRefused, SendFails, SendReplyLost, ReadLatest,
     ReadLatestFails, GotLatest, ReceiptFound, NonceAdvanced, StuckTooOften,
     Resolve, StillYoung, Resubmit, ResendAccepted, ResendRefused, ResendFails,
     ResendReplyLost, GiveUpResend, Age, Tick, Rest, Crash
<1>2. SUFFICES ASSUME NEW b \in Batch, b \notin unacked' PROVE SentUnderOneNonce(b)'
  BY DEF SentAsTracked
<1>3. SentUnderOneNonce(b) /\ InOneStage(b)
  BY <1>1, <1>2 DEF SentAsTracked, Staged
<1>4. CASE CarriedAt(b)' \subseteq CarriedAt(b) /\ ~SendAccepted /\ ~Crash
  BY <1>3, <1>4, FlightsOnlyEnd DEF SentUnderOneNonce
<1>5. ASSUME NEW n \in rec.todo, ResendAccepted(n) \/ ResendReplyLost(n)
      PROVE  SentUnderOneNonce(b)'
  <2>1. n \in DOMAIN inflight
    BY DEF TypeOK, RecTypeOK
  <2>2. pool' = PoolWith(n, inflight[n].batches) /\ mined' = mined
    BY <1>5 DEF ResendAccepted, ResendReplyLost
  <2>3. SameFlights /\ outcome' = outcome
    <3>1. CASE ResendAccepted(n)
      BY <3>1 DEF ResendAccepted, SameFlights, TypeOK, FlightTypeOK, Tracked
    <3>2. CASE ResendReplyLost(n)
      BY <3>2 DEF ResendReplyLost, GiveUpResend, SameFlights
    <3> QED
      BY <1>5, <3>1, <3>2
  <2>4. CASE b \notin ToSet(inflight[n].batches)
    <3>1. CarriedAt(b)' \subseteq CarriedAt(b)
      BY <2>2, <2>4, CarriedByPool
    <3> QED
      BY <1>3, <2>3, <3>1, FlightsStay DEF SentUnderOneNonce, SameFlights
  <2>5. CASE b \in ToSet(inflight[n].batches)
    <3>1. CarriedAt(b)' \subseteq {n}
      BY <1>3, <2>1, <2>2, <2>5, CarriedByPool DEF SentUnderOneNonce
    <3>2. InFlight(b)'
      BY <2>1, <2>3, <2>5, FlightsStay DEF InFlight
    <3>3. \A m \in DOMAIN inflight' : b \in ToSet(inflight'[m].batches) => m = n
      BY <2>1, <2>3, <2>5 DEF SameFlights, Staged, FlightsApart
    <3> QED
      BY <3>1, <3>2, <3>3 DEF SentUnderOneNonce
  <2> QED
    BY <2>4, <2>5
<1>6. CASE SendAccepted
  <2>1. /\ pump.pc = "send" /\ pool' = PoolWith(pump.nonce, pump.group)
        /\ mined' = mined /\ outcome' = outcome /\ pump.nonce \notin DOMAIN inflight
    BY <1>6 DEF SendAccepted, NonceDiscipline
  <2>2. /\ DOMAIN inflight' = DOMAIN inflight \cup {pump.nonce}
        /\ inflight'[pump.nonce].batches = pump.group
        /\ \A n \in DOMAIN inflight : inflight'[n].batches = inflight[n].batches
    BY <1>6, <2>1 DEF SendAccepted, Track
  <2>3. CASE b \notin ToSet(pump.group)
    <3>1. CarriedAt(b)' \subseteq CarriedAt(b)
      BY <2>1, <2>3, CarriedByPool
    <3>2. InFlight(b)' = InFlight(b)
      BY <2>2, <2>3 DEF InFlight
    <3> QED
      BY <1>3, <2>1, <2>2, <2>3, <3>1, <3>2 DEF SentUnderOneNonce
  <2>4. CASE b \in ToSet(pump.group)
    <3>1. outcome[b] = "open" /\ ~InFlight(b)
      BY <2>1, <2>4, SendingIsNew
    <3>2. CarriedAt(b)' \subseteq {pump.nonce}
      BY <1>3, <2>1, <3>1, CarriedByPool DEF SentUnderOneNonce
    <3>3. \A n \in DOMAIN inflight' : b \in ToSet(inflight'[n].batches) => n = pump.nonce
      BY <2>2, <3>1 DEF InFlight
    <3>4. InFlight(b)'
      BY <2>2, <2>4 DEF InFlight
    <3> QED
      BY <3>2, <3>3, <3>4 DEF SentUnderOneNonce
  <2> QED
    BY <2>3, <2>4
<1>7. CASE SendReplyLost
  <2>1. pool' = PoolWith(pump.nonce, pump.group) /\ mined' = mined
        /\ b \notin ToSet(pump.group)
    BY <1>2, <1>7 DEF SendReplyLost
  <2>2. CarriedAt(b)' \subseteq CarriedAt(b)
    BY <2>1, CarriedByPool
  <2>3. inflight' = inflight /\ outcome' = outcome
    BY <1>7 DEF SendReplyLost, BackOff
  <2> QED
    BY <1>3, <2>2, <2>3 DEF SentUnderOneNonce, InFlight
<1>8. CASE Crash
  <2>1. /\ DOMAIN inflight' = {} /\ mined' = mined
        /\ outcome'[b] = "open" => b \notin Arrived
        /\ ~InFlight(b)'
    BY <1>8 DEF Crash, InFlight
  <2>2. SUFFICES /\ \A m, n \in CarriedAt(b)' : m = n
                 /\ b \notin Arrived => CarriedAt(b)' = {}
    BY <2>1 DEF SentUnderOneNonce
  <2>3. CASE CarriedAt(b)' \subseteq CarriedAt(b)
    BY <1>3, <2>3 DEF SentUnderOneNonce, InOneStage
  <2>4. ASSUME NEW send \in SendsUnderWay, pool' = PoolWith(send[1], send[2]),
               b \in ToSet(send[2])
        PROVE  CarriedAt(b)' \subseteq {send[1]} /\ b \in Arrived
    <3>1. CASE pump.pc = "send" /\ send = <<pump.nonce, pump.group>>
      BY <1>3, <2>1, <2>4, <3>1, SendingIsNew, CarriedByPool DEF SentUnderOneNonce
    <3>2. ASSUME NEW n \in DOMAIN inflight, send = <<n, inflight[n].batches>>
          PROVE  CarriedAt(b)' \subseteq {send[1]} /\ b \in Arrived
      <4>1. InFlight(b) /\ CarriedAt(b) \subseteq {n}
        BY <1>3, <2>4, <3>2 DEF InFlight, SentUnderOneNonce
      <4> QED
        BY <1>3, <2>1, <2>4, <3>2, <4>1, CarriedByPool DEF InOneStage
    <3> QED
      BY <3>1, <3>2 DEF SendsUnderWay
  <2>5. ASSUME NEW send \in SendsUnderWay, pool' = PoolWith(send[1], send[2])
        PROVE  /\ \A m, n \in CarriedAt(b)' : m = n
               /\ b \notin Arrived => CarriedAt(b)' = {}
    BY <2>1, <2>3, <2>4, <2>5, CarriedByPool
  <2>6. CASE pool' = pool
    BY <2>1, <2>3, <2>6 DEF CarriedAt, Latest
  <2> QED
    BY <1>8, <2>5, <2>6 DEF Crash
<1>9. CASE UNCHANGED <<mined, pool>>
  BY <1>4, <1>6, <1>8, <1>9 DEF CarriedAt, Latest
<1>10. CASE ChainNext
  <2>1. CarriedAt(b)' \subseteq CarriedAt(b)
    BY <1>10, CarriedByChain
  <2> QED
    BY <1>4, <1>6, <1>8, <2>1
<1> QED
  BY <1>5, <1>6, <1>7, <1>8, <1>9, <1>10, ChainSteps DEF ChainNext

LEMMA SentInit == Init => SentAsTracked
<1> SUFFICES ASSUME Init, NEW b \in Batch PROVE SentUnderOneNonce(b)
  BY DEF SentAsTracked
<1>1. CarriedAt(b) = {} /\ DOMAIN inflight = {}
  BY DEF Init, ChainInit, SubmitterInit, CarriedAt, Latest
<1> QED
  BY <1>1 DEF SentUnderOneNonce

\* A batch is sent under two nonces only if the reply to its send was lost.
THEOREM BatchesSubmittedOnce == Spec => []SubmittedOnce
<1>1. TypeOK /\ NonceDiscipline /\ Staged /\ Staged' /\ SentAsTracked /\ [Next]_vars
        => SentAsTracked'
  BY SentStep
<1>2. SentAsTracked => SubmittedOnce
  <2>1. ASSUME NEW b, NEW m \in CarriedAt(b), \A n \in CarriedAt(b) : n = m
        PROVE  Cardinality(CarriedAt(b)) = 1
    <3>1. CarriedAt(b) = {m}
      BY <2>1
    <3> QED
      BY <3>1, FS_Singleton
  <2>2. ASSUME SentAsTracked, NEW b \in Batch \ unacked
        PROVE  Cardinality(CarriedAt(b)) \in {0, 1}
    BY <2>1, <2>2, FS_EmptySet DEF SentAsTracked, SentUnderOneNonce
  <2> QED
    BY <2>2 DEF SubmittedOnce
<1> QED
  BY <1>1, <1>2, SentInit, StagedAlways, TypeCorrect, NoncesDisciplined, PTL DEF Spec


-----------------------------------------------------------------------------
(* What is counted as confirmed                                            *)

\* The nonce n is this group's: it is mined there, or pooled there.
HeldBy(n, group) ==
  \/ n < Latest /\ mined[n + 1].group = group
  \/ n \in DOMAIN pool /\ pool[n] = group

\* The group's own transaction is gone.  The nonce is then free, unless
\* another sender sent.
Displaced(n, group) ==
  /\ ToSet(group) \subseteq displaced
  /\ foreign > 0 \/ ~Covered(n)

\* Strengthens ConfirmedWasMined: a tracked transaction has its nonce or was
\* displaced, and the account nonce the reconciler read was reached.
MinedAsTracked ==
  \A n \in DOMAIN inflight :
    HeldBy(n, inflight[n].batches) \/ Displaced(n, inflight[n].batches)

\* What is pooled is not mined yet.
PoolAbove == \A n \in DOMAIN pool : n >= Latest

LatestReached == rec.latest <= Latest

LEMMA PoolAboveStep ==
  ASSUME TypeOK, PoolAbove, [Next]_vars
  PROVE  PoolAbove'
<1> USE DEF TypeOK
<1>1. Latest \in Nat /\ DOMAIN pool \subseteq Nat
  BY DEF ChainTypeOK, Latest
<1>2. ASSUME NEW m, NEW group, CanAccept(m), pool' = PoolWith(m, group), mined' = mined
      PROVE  PoolAbove'
  BY <1>2 DEF PoolWith, CanAccept, PoolAbove, Latest
<1>3. CASE UNCHANGED <<mined, pool>>
  BY <1>3 DEF PoolAbove, Latest
<1>4. CASE Mine
  <2>1. Latest' = Latest + 1 /\ DOMAIN pool' = DOMAIN pool \ {Latest}
    BY <1>4 DEF Mine, Latest, Restrict, ChainTypeOK
  <2> QED
    BY <1>1, <2>1 DEF PoolAbove
<1>5. CASE \E o \in Other : ForeignSend(o)
  BY <1>2, <1>5 DEF ForeignSend
<1>6. CASE \E m \in DOMAIN pool : Evict(m)
  BY <1>6 DEF Evict, Restrict, PoolAbove, Latest
<1>7. CASE \E b \in Mortal : Expire(b)
  BY <1>3, <1>7 DEF Expire
<1>8. CASE SendAccepted \/ SendReplyLost
  BY <1>2, <1>8 DEF SendAccepted, SendReplyLost
<1>9. CASE \E m \in rec.todo : ResendAccepted(m) \/ ResendReplyLost(m)
  BY <1>2, <1>9 DEF ResendAccepted, ResendReplyLost
<1>10. CASE Crash
  BY <1>2, <1>3, <1>10 DEF Crash
<1> QED
  BY <1>3, <1>4, <1>5, <1>6, <1>7, <1>8, <1>9, <1>10, ChainSteps

\* The mined transactions are never rewritten, the displaced ones are not
\* forgotten, and the transactions of other senders are only counted up.
LEMMA MinedStays ==
  ASSUME TypeOK, [Next]_vars
  PROVE  /\ Latest \in Nat /\ Latest' \in Nat /\ Latest <= Latest'
         /\ \A i \in DOMAIN mined : i \in DOMAIN mined' /\ mined'[i] = mined[i]
         /\ displaced \subseteq displaced'
         /\ foreign > 0 => foreign' > 0
<1> USE DEF TypeOK
<1>1. mined' = mined \/ Mine
  BY ChainSteps DEF ForeignSend, Evict, Expire, SendAccepted, SendReplyLost,
     ResendAccepted, ResendReplyLost, Crash
<1>2. /\ Latest \in Nat /\ Latest' \in Nat /\ Latest <= Latest'
      /\ \A i \in DOMAIN mined : i \in DOMAIN mined' /\ mined'[i] = mined[i]
  <2>1. mined \in Seq([group : Seq(Batch), ok : BOOLEAN])
    BY DEF ChainTypeOK
  <2>2. CASE mined' = mined
    BY <2>1, <2>2 DEF Latest
  <2>3. ASSUME NEW tx \in [group : Seq(Batch), ok : BOOLEAN], mined' = Append(mined, tx)
        PROVE  /\ Latest \in Nat /\ Latest' \in Nat /\ Latest <= Latest'
               /\ \A i \in DOMAIN mined : i \in DOMAIN mined' /\ mined'[i] = mined[i]
    BY <2>1, <2>3 DEF Latest
  <2>4. CASE Mine
    <3>1. pool[Latest] \in Seq(Batch)
      BY <2>4 DEF Mine, ChainTypeOK
    <3> DEFINE tx == [group |-> pool[Latest], ok |-> ~Reverts(pool[Latest])]
    <3>2. mined' = Append(mined, tx)
      BY <2>4 DEF Mine
    <3>3. tx \in [group : Seq(Batch), ok : BOOLEAN]
      BY <3>1 DEF Reverts
    <3> HIDE DEF tx
    <3> QED
      BY <2>3, <3>2, <3>3
  <2> QED
    BY <1>1, <2>2, <2>4
<1>3. displaced \subseteq displaced'
  BY OthersSteps DEF ForeignRead, ForeignSend, ForeignFails, Evict, Crash
<1>4. foreign' = foreign \/ foreign' = foreign + 1
  BY DEF Next, RelayNext, ChainNext, PumpStep, RecStep, vars, chainVars,
     Mine, ForeignRead, ForeignSend, ForeignFails, Evict, Expire, Push,
     SyncNonce, SyncFails, EstimatePasses, EstimateReverts, EstimateFails,
     SendAccepted, SendRefused, SendFails, SendReplyLost, ReadLatest,
     ReadLatestFails, GotLatest, ReceiptFound, NonceAdvanced, StuckTooOften,
     Resolve, StillYoung, Resubmit, ResendAccepted, ResendRefused, ResendFails,
     ResendReplyLost, Age, Tick, Rest, Crash
<1>5. foreign \in Nat
  BY ChainAssumption DEF BoundsOK
<1> QED
  BY <1>2, <1>3, <1>4, <1>5

\* A transaction pooled under another nonce is no concern of nonce n, and
\* the group's own one makes the nonce its own.
LEMMA OtherNonce ==
  ASSUME NEW n, NEW group, HeldBy(n, group) \/ Displaced(n, group), NEW m, NEW other,
         pool' = PoolWith(m, other), mined' = mined, displaced \subseteq displaced',
         foreign > 0 => foreign' > 0,
         m # n \/ other = group
  PROVE  HeldBy(n, group)' \/ Displaced(n, group)'
<1>1. /\ DOMAIN pool' = DOMAIN pool \cup {m} /\ pool'[m] = other
      /\ \A k \in DOMAIN pool : k # m => pool'[k] = pool[k]
  BY DEF PoolWith
<1>2. CASE HeldBy(n, group)
  BY <1>1, <1>2 DEF HeldBy, Latest
<1>3. CASE Displaced(n, group) /\ m # n
  BY <1>1, <1>3 DEF Displaced, Covered, Latest
<1>4. CASE m = n
  BY <1>1, <1>4 DEF HeldBy
<1> QED
  BY <1>2, <1>3, <1>4

LEMMA MinedAsTrackedStep ==
  ASSUME TypeOK, NonceDiscipline, PoolAbove, MinedAsTracked, [Next]_vars
  PROVE  MinedAsTracked'
<1> USE DEF TypeOK
<1>1. SUFFICES ASSUME NEW n \in DOMAIN inflight'
               PROVE  HeldBy(n, inflight[n].batches)' \/ Displaced(n, inflight[n].batches)'
  BY DEF MinedAsTracked
<1>2. displaced \subseteq displaced' /\ (foreign > 0 => foreign' > 0)
  BY MinedStays
<1>3. CASE SendAccepted
  <2>1. /\ pool' = PoolWith(pump.nonce, pump.group) /\ mined' = mined
        /\ DOMAIN inflight' = DOMAIN inflight \cup {pump.nonce}
    BY <1>3 DEF SendAccepted, Track
  <2>2. CASE n = pump.nonce
    <3>1. inflight'[n].batches = pump.group
      BY <1>3, <2>2 DEF SendAccepted, Track
    <3>2. n \in DOMAIN pool' /\ pool'[n] = pump.group
      BY <2>1, <2>2 DEF PoolWith
    <3> QED
      BY <3>1, <3>2 DEF HeldBy
  <2>3. CASE n # pump.nonce
    <3>1. n \in DOMAIN inflight /\ inflight'[n] = inflight[n]
      BY <1>3, <2>1, <2>3 DEF SendAccepted, Track
    <3>2. HeldBy(n, inflight[n].batches) \/ Displaced(n, inflight[n].batches)
      BY <3>1 DEF MinedAsTracked
    <3> QED
      BY <1>2, <2>1, <2>3, <3>1, <3>2, OtherNonce
  <2> QED
    BY <2>2, <2>3
<1>4. CASE Crash
  BY <1>1, <1>4 DEF Crash
<1>5. SUFFICES ASSUME ~SendAccepted, ~Crash
               PROVE  HeldBy(n, inflight[n].batches)' \/ Displaced(n, inflight[n].batches)'
  BY <1>3, <1>4
<1>6. n \in DOMAIN inflight /\ inflight'[n].batches = inflight[n].batches
  <2>1. ASSUME NEW m, NEW what, Resolve(m, what)
        PROVE  n \in DOMAIN inflight /\ inflight'[n].batches = inflight[n].batches
    BY <2>1, <1>1 DEF Resolve, Restrict
  <2>2. ASSUME NEW m, Resubmit(m) \/ ResendAccepted(m) \/ Age(m)
        PROVE  n \in DOMAIN inflight /\ inflight'[n].batches = inflight[n].batches
    BY <1>1, <2>2 DEF Resubmit, ResendAccepted, Age, FlightTypeOK, Tracked
  <2> QED
    BY <1>1, <1>5, <2>1, <2>2, FlightSteps
<1> PICK group : group = inflight[n].batches
  OBVIOUS
<1>7. HeldBy(n, group) \/ Displaced(n, group)
  BY <1>6 DEF MinedAsTracked
<1>8. SUFFICES HeldBy(n, group)' \/ Displaced(n, group)'
  BY <1>6
<1>9. n \in Nat /\ Latest \in Nat /\ group \in Seq(Batch)
  BY <1>6, TrackedGroup DEF FlightTypeOK, ChainTypeOK, Latest
<1>10. CASE UNCHANGED <<mined, pool>>
  BY <1>2, <1>7, <1>10 DEF HeldBy, Displaced, Covered, Latest
<1>11. CASE Mine
  <2>1. /\ Latest \in DOMAIN pool /\ Latest' = Latest + 1
        /\ \A i \in 1 .. Latest : mined'[i] = mined[i]
        /\ mined'[Latest + 1].group = pool[Latest]
    BY <1>11 DEF Mine, Latest, ChainTypeOK
  <2>2. /\ DOMAIN pool' = DOMAIN pool \ {Latest}
        /\ \A m \in DOMAIN pool' : pool'[m] = pool[m]
    BY <1>11 DEF Mine, Restrict
  <2>3. CASE n < Latest /\ mined[n + 1].group = group
    <3>1. mined'[n + 1] = mined[n + 1] /\ n < Latest'
      BY <1>9, <2>1, <2>3
    <3> QED
      BY <2>3, <3>1 DEF HeldBy
  <2>4. CASE n \in DOMAIN pool /\ pool[n] = group
    BY <1>9, <2>1, <2>2, <2>4 DEF HeldBy
  <2>5. CASE Displaced(n, group)
    BY <1>2, <1>9, <2>1, <2>2, <2>5 DEF Displaced, Covered
  <2> QED
    BY <1>7, <2>3, <2>4, <2>5 DEF HeldBy
<1>12. ASSUME NEW o \in Other, ForeignSend(o)
       PROVE  HeldBy(n, group)' \/ Displaced(n, group)'
  <2>1. /\ pool' = PoolWith(others[o], <<>>) /\ mined' = mined
        /\ displaced' = displaced \cup Carried(others[o])
        /\ foreign' = foreign + 1 /\ foreign \in Nat
    BY <1>12, ChainAssumption DEF ForeignSend, BoundsOK
  <2>2. CASE others[o] # n
    BY <1>2, <1>7, <2>1, <2>2, OtherNonce
  <2>3. CASE others[o] = n
    <3>1. CASE n < Latest /\ mined[n + 1].group = group
      BY <2>1, <3>1 DEF HeldBy, Latest
    <3>2. CASE n \in DOMAIN pool /\ pool[n] = group
      BY <2>1, <2>3, <3>2 DEF Displaced, Carried
    <3>3. CASE Displaced(n, group)
      BY <2>1, <3>3 DEF Displaced
    <3> QED
      BY <1>7, <3>1, <3>2, <3>3 DEF HeldBy
  <2> QED
    BY <2>2, <2>3
<1>13. ASSUME NEW m \in DOMAIN pool, Evict(m)
       PROVE  HeldBy(n, group)' \/ Displaced(n, group)'
  <2>1. /\ mined' = mined /\ foreign' = foreign
        /\ displaced' = displaced \cup ToSet(pool[m])
        /\ DOMAIN pool' = DOMAIN pool \ {m}
        /\ \A k \in DOMAIN pool' : pool'[k] = pool[k]
    BY <1>13 DEF Evict, Carried, Restrict
  <2>2. CASE n < Latest /\ mined[n + 1].group = group
    BY <2>1, <2>2 DEF HeldBy, Latest
  <2>3. CASE n \in DOMAIN pool /\ pool[n] = group /\ ~(n < Latest)
    BY <2>1, <2>3 DEF HeldBy, Displaced, Covered, Latest
  <2>4. CASE Displaced(n, group)
    BY <2>1, <2>4 DEF Displaced, Covered, Latest
  <2>5. n \in DOMAIN pool => ~(n < Latest)
    BY <1>9 DEF PoolAbove, ChainTypeOK
  <2> QED
    BY <1>7, <2>2, <2>3, <2>4, <2>5 DEF HeldBy
<1>14. CASE \E b \in Mortal : Expire(b)
  BY <1>10, <1>14 DEF Expire
<1>15. CASE SendReplyLost
  <2>1. /\ pool' = PoolWith(pump.nonce, pump.group) /\ mined' = mined
        /\ pump.nonce # n
    BY <1>6, <1>15 DEF SendReplyLost, BackOff, NonceDiscipline
  <2> QED
    BY <1>2, <1>7, <2>1, OtherNonce
<1>16. ASSUME NEW m \in rec.todo, ResendAccepted(m) \/ ResendReplyLost(m)
       PROVE  HeldBy(n, group)' \/ Displaced(n, group)'
  <2>1. /\ pool' = PoolWith(m, inflight[m].batches) /\ mined' = mined
    BY <1>16 DEF ResendAccepted, ResendReplyLost
  <2>2. m # n \/ inflight[m].batches = group
    OBVIOUS
  <2> QED
    BY <1>2, <1>7, <2>1, <2>2, OtherNonce
<1> QED
  BY <1>5, <1>8, <1>10, <1>11, <1>12, <1>13, <1>14, <1>15, <1>16, ChainSteps

LEMMA LatestReachedStep ==
  ASSUME TypeOK, LatestReached, [Next]_vars
  PROVE  LatestReached'
<1> USE DEF TypeOK
<1>1. /\ Latest \in Nat /\ Latest' \in Nat /\ Latest <= Latest'
      /\ rec.latest \in Nat \cup {NoNonce}
  BY MinedStays DEF RecTypeOK
<1>2. rec'.latest \in {rec.latest, NoNonce, Latest}
  <2>1. CASE ReadLatest \/ ReadLatestFails
    BY <2>1 DEF ReadLatest, ReadLatestFails, GotLatest
  <2>2. ASSUME NEW n \in rec.todo, rec' = After(n) \/ Resubmit(n)
        PROVE  rec'.latest \in {rec.latest, NoNonce}
    BY <2>2 DEF After, Resubmit, RecIdle, RecTypeOK
  <2>3. CASE Tick
    BY <2>3 DEF Tick, CallReconcile, RecIdle
  <2>4. CASE Crash
    BY <2>4 DEF Crash, RecIdle
  <2> QED
    BY <2>1, <2>2, <2>3, <2>4, RecSteps
<1> QED
  BY <1>1, <1>2 DEF LatestReached, NoNonce

LEMMA ConfirmedStep ==
  ASSUME TypeOK, PoolAbove, MinedAsTracked, LatestReached, ConfirmedWasMined, [Next]_vars
  PROVE  ConfirmedWasMined'
<1> USE DEF TypeOK
<1>1. SUFFICES ASSUME NEW b \in Batch, outcome'[b] = "confirmed"
               PROVE  (WasMined(b) \/ (foreign > 0 /\ b \in displaced))'
  BY DEF ConfirmedWasMined
<1>3. SUFFICES WasMined(b) \/ (foreign > 0 /\ b \in displaced)
  BY <1>3, MinedStays DEF WasMined
<1>4. CASE outcome[b] = "confirmed"
  BY <1>4 DEF ConfirmedWasMined
<1>5. ASSUME NEW n \in rec.todo, ReceiptFound(n) \/ NonceAdvanced(n),
             b \in ToSet(inflight[n].batches)
      PROVE  WasMined(b) \/ (foreign > 0 /\ b \in displaced)
  <2>1. n \in DOMAIN inflight /\ n \in Nat /\ Latest \in Nat /\ DOMAIN mined = 1 .. Latest
    BY DEF RecTypeOK, FlightTypeOK, ChainTypeOK, Latest
  <2>2. n < Latest
    BY <1>5, <2>1 DEF ReceiptFound, HasReceipt, NonceAdvanced, LatestReached,
                      RecTypeOK, NoNonce
  <2>3. CASE HeldBy(n, inflight[n].batches)
    <3>1. mined[n + 1].group = inflight[n].batches
      BY <2>1, <2>2, <2>3 DEF HeldBy, PoolAbove
    <3> QED
      BY <1>5, <2>1, <2>2, <3>1 DEF WasMined
  <2>4. CASE Displaced(n, inflight[n].batches)
    BY <1>5, <2>2, <2>4 DEF Displaced, Covered
  <2> QED
    BY <2>1, <2>3, <2>4 DEF MinedAsTracked
<1>6. ASSUME NEW n \in rec.todo, StuckTooOften(n)
      PROVE  outcome[b] = "confirmed"
  BY <1>1, <1>6 DEF StuckTooOften, Resolve, Report
<1>7. ASSUME NEW n \in rec.todo, ReceiptFound(n) \/ NonceAdvanced(n)
      PROVE  outcome[b] = "confirmed" \/ b \in ToSet(inflight[n].batches)
  BY <1>1, <1>7 DEF ReceiptFound, NonceAdvanced, Resolve, Report
<1>8. CASE EstimateReverts \/ EstimateFails \/ Crash
  BY <1>1, <1>4, <1>8 DEF EstimateReverts, EstimateFails, Crash, Report
<1> QED
  BY <1>1, <1>4, <1>5, <1>6, <1>7, <1>8
  DEF Next, RelayNext, PumpStep, RecStep, vars, submitterVars, Push,
      SyncNonce, SyncFails, EstimatePasses, SendAccepted, SendRefused,
      SendFails, SendReplyLost, BackOff, ReadLatest, ReadLatestFails, GotLatest,
      StillYoung, Resubmit, ResendAccepted, ResendRefused, ResendFails,
      ResendReplyLost, GiveUpResend, Age, Tick, Rest

\* What is counted as confirmed was mined, by receipt or by the account nonce
\* alone, unless its transaction was displaced and another sender sent.
THEOREM ConfirmationsAreMined == Spec => []ConfirmedWasMined
<1>1. Init => PoolAbove /\ MinedAsTracked /\ LatestReached /\ ConfirmedWasMined
  BY DEF Init, PoolAbove, ChainInit, SubmitterInit, RecIdle, NoNonce, MinedAsTracked,
         LatestReached, Latest, ConfirmedWasMined
<1>5. TypeOK /\ PoolAbove /\ [Next]_vars => PoolAbove'
  BY PoolAboveStep
<1>2. TypeOK /\ NonceDiscipline /\ PoolAbove /\ MinedAsTracked /\ [Next]_vars
        => MinedAsTracked'
  BY MinedAsTrackedStep
<1>3. TypeOK /\ LatestReached /\ [Next]_vars => LatestReached'
  BY LatestReachedStep
<1>4. TypeOK /\ PoolAbove /\ MinedAsTracked /\ LatestReached /\ ConfirmedWasMined
        /\ [Next]_vars => ConfirmedWasMined'
  BY ConfirmedStep
<1> QED
  BY <1>1, <1>2, <1>3, <1>4, <1>5, TypeCorrect, NoncesDisciplined, PTL DEF Spec


-----------------------------------------------------------------------------
(* The life cycle of a batch                                               *)

\* A sequence names at most as many batches as it is long.
LEMMA NamesAtMost ==
  ASSUME NEW group \in Seq(Batch)
  PROVE  IsFiniteSet(ToSet(group)) /\ Cardinality(ToSet(group)) <= Len(group)
<1> DEFINE f == [i \in 1 .. Len(group) |-> group[i]]
<1>1. f \in Surjection(1 .. Len(group), ToSet(group))
  BY DEF ToSet, Surjection
<1>2. IsFiniteSet(1 .. Len(group)) /\ Cardinality(1 .. Len(group)) = Len(group)
  <2>1. PICK k \in Nat : k = Len(group)
    OBVIOUS
  <2>2. IsFiniteSet(1 .. k) /\ Cardinality(1 .. k) = k
    BY FS_Interval
  <2> QED
    BY <2>1, <2>2
<1> HIDE DEF f
<1> QED
  BY <1>1, <1>2, FS_Surjection

\* A group fits one transaction.
LEMMA GroupFits ==
  ASSUME NEW group \in Groups
  PROVE  /\ IsFiniteSet(ToSet(group)) /\ Cardinality(ToSet(group)) <= CLAIM_BATCH_SIZE
         /\ ToSet(group) # {} /\ ToSet(group) \subseteq Batch
<1>1. group \in Seq(Batch) /\ group # <<>> /\ Len(group) <= CLAIM_BATCH_SIZE
  BY DEF Groups
<1>2. Cardinality(ToSet(group)) \in Nat
  BY <1>1, NamesAtMost, FS_CardinalityType
<1>3. Cardinality(ToSet(group)) <= CLAIM_BATCH_SIZE
  BY <1>1, <1>2, NamesAtMost, SubmitterAssumption
<1>4. ToSet(group) # {}
  BY <1>1 DEF ToSet
<1> QED
  BY <1>1, <1>3, <1>4, NamesAtMost, ToSetType

\* Few transactions of few batches each carry few batches in all.
LEMMA FlightsFit ==
  ASSUME NEW flight, IsFiniteSet(DOMAIN flight),
         Cardinality(DOMAIN flight) <= MAX_INFLIGHT,
         \A n \in DOMAIN flight : flight[n].batches \in Groups
  PROVE  Cardinality({b \in Batch : \E n \in DOMAIN flight : b \in ToSet(flight[n].batches)})
           <= CLAIM_BATCH_SIZE * MAX_INFLIGHT
<1> DEFINE Out == {b \in Batch : \E n \in DOMAIN flight : b \in ToSet(flight[n].batches)}
           D == DOMAIN flight
           I == 1 .. CLAIM_BATCH_SIZE
           Seats == D \X I
           Seated(b, p) == flight[p[1]].batches[p[2]] = b
           seat == [b \in Out |-> CHOOSE p \in Seats : Seated(b, p)]
<1>1. ASSUME NEW b \in Out PROVE \E p \in Seats : Seated(b, p)
  <2>1. PICK n \in DOMAIN flight : b \in ToSet(flight[n].batches)
    OBVIOUS
  <2>2. PICK i \in DOMAIN flight[n].batches : flight[n].batches[i] = b
    BY <2>1 DEF ToSet
  <2>3. i \in 1 .. CLAIM_BATCH_SIZE
    <3>1. flight[n].batches \in Seq(Batch) /\ Len(flight[n].batches) <= CLAIM_BATCH_SIZE
      BY DEF Groups
    <3> QED
      BY <2>2, <3>1, SubmitterAssumption
  <2>4. Seated(b, <<n, i>>)
    BY <2>2
  <2>5. <<n, i>> \in Seats
    <3>1. n \in D /\ i \in I
      BY <2>3
    <3> HIDE DEF D, I
    <3> QED
      BY <3>1
  <2> QED
    BY <2>4, <2>5
<1>2. \A b \in Out : seat[b] \in Seats /\ Seated(b, seat[b])
  <2> HIDE DEF Seats, Seated, Out
  <2> QED
    BY <1>1
<1>3. seat \in Injection(Out, Seats)
  <2>1. seat \in [Out -> Seats]
    <3>1. \A b \in Out : (CHOOSE p \in Seats : Seated(b, p)) \in Seats
      BY <1>2
    <3> HIDE DEF Seats, Seated, Out
    <3> QED
      BY <3>1
  <2>2. ASSUME NEW b \in Out, NEW c \in Out, seat[b] = seat[c] PROVE b = c
    <3>1. Seated(b, seat[b]) /\ Seated(c, seat[b])
      BY <1>2, <2>2
    <3> HIDE DEF seat
    <3> QED
      BY <3>1
  <2> HIDE DEF seat, Out
  <2> QED
    BY <2>1, <2>2 DEF Injection, IsInjective
<1>4. /\ IsFiniteSet(Seats)
      /\ Cardinality(Seats) = Cardinality(D) * CLAIM_BATCH_SIZE
  <2>1. IsFiniteSet(1 .. CLAIM_BATCH_SIZE) /\ Cardinality(1 .. CLAIM_BATCH_SIZE) = CLAIM_BATCH_SIZE
    BY SubmitterAssumption, FS_Interval
  <2>2. IsFiniteSet(D) /\ IsFiniteSet(I) /\ Cardinality(I) = CLAIM_BATCH_SIZE
    BY <2>1
  <2> HIDE DEF D, I
  <2> QED
    BY <2>2, FS_Product
<1>5. IsFiniteSet(Out) /\ Cardinality(Out) <= Cardinality(Seats)
  <2> HIDE DEF seat, Seats, Out
  <2> QED
    BY <1>3, <1>4, FS_Injection
<1>6. Cardinality(Seats) <= CLAIM_BATCH_SIZE * MAX_INFLIGHT
  <2>1. Cardinality(DOMAIN flight) \in Nat
    BY FS_CardinalityType
  <2>2. \A k, m, size \in Nat : k <= m => k * size <= size * m
    OBVIOUS
  <2> HIDE DEF Seats
  <2> QED
    BY <1>4, <2>1, <2>2, SubmitterAssumption
<1>7. Cardinality(Out) \in Nat /\ Cardinality(Seats) \in Nat
      /\ CLAIM_BATCH_SIZE * MAX_INFLIGHT \in Nat
  BY <1>4, <1>5, FS_CardinalityType, SubmitterAssumption
<1> HIDE DEF Out, Seats
<1>8. Cardinality(Out) <= CLAIM_BATCH_SIZE * MAX_INFLIGHT
  BY <1>5, <1>6, <1>7
<1> QED
  BY <1>8 DEF Out


\* The stages as BatchLifecycle sees them, and a step that moves some.
StageMap == [b \in Batch |-> StageOf(b)]

LEMMA StageMoves ==
  ASSUME NEW group, NEW s,
         \A b \in Batch : StageOf(b)' = IF b \in group THEN s ELSE StageOf(b)
  PROVE  Lifecycle!Move(group, s)
  BY DEF Lifecycle!Move

\* BatchLifecycle counts as this module does.
LEMMA SameCardinality == \A S : Lifecycle!Cardinality(S) = Cardinality(S)
  BY DEF Lifecycle!Cardinality, Cardinality

\* Where a batch stands, once what StageOf reads is known.
LEMMA StageStays ==
  ASSUME NEW b \in Batch, Arrived' = Arrived, outcome'[b] = outcome[b],
         InFlight(b)' = InFlight(b)
  PROVE  StageOf(b)' = StageOf(b)
  BY DEF StageOf

\* The batches of a group that is not in flight yet wait.
LEMMA GroupWaits ==
  ASSUME TypeOK, Staged, EstimatedGroupIsNext, pump.pc \in {"estimate", "send"},
         NEW b \in ToSet(pump.group)
  PROVE  b \in Batch /\ b \in Arrived /\ outcome[b] = "open" /\ ~InFlight(b)
<1>1. b \in Batch
  BY HeldSequences, ToSetType
<1>2. CASE pump.pc = "send"
  BY <1>1, <1>2, SendingIsNew
<1>3. CASE pump.pc = "estimate"
  <2>1. /\ Count(pump.group, b) \in Nat /\ Count(pump.group, b) # 0
        /\ Count(WithoutGroup, b) \in Nat
        /\ Count(pending, b) = Count(pump.group, b) + Count(WithoutGroup, b)
    BY <1>3, GroupAndRest, CountType
  <2>2. Count(Sending, b) \in Nat
    BY HeldSequences, CountType
  <2>3. Waiting(b) # 0
    BY <2>1, <2>2 DEF Waiting
  <2> QED
    BY <1>1, <2>3 DEF Staged, InOneStage
<1> QED
  BY <1>2, <1>3

\* A group of waiting batches is given up.
LEMMA LifecycleGivesUp ==
  ASSUME TypeOK, Staged, EstimatedGroupIsNext, EstimateReverts \/ EstimateFails
  PROVE  Lifecycle!Next
<1> DEFINE group == {b \in ToSet(pump.group) : outcome'[b] # outcome[b]}
<1>1. /\ pump.pc = "estimate" /\ pump.group \in Groups
      /\ inflight' = inflight /\ Arrived' = Arrived
  BY PumpFields DEF EstimateReverts, EstimateFails, Arrived, TypeOK
<1>2. \A b \in Batch : InFlight(b)' = InFlight(b)
  BY <1>1 DEF InFlight
<1>3. \A b \in ToSet(pump.group) : b \in Batch /\ b \in Arrived /\ outcome[b] = "open" /\ ~InFlight(b)
  BY <1>1, GroupWaits
<1>4. \A b \in Batch : /\ b \notin group => outcome'[b] = outcome[b]
                       /\ b \in group => outcome'[b] # "open"
  BY <1>3 DEF EstimateReverts, EstimateFails, Report
<1>5. \A b \in Batch : StageOf(b)' = IF b \in group THEN "closed" ELSE StageOf(b)
  <2>1. ASSUME NEW b \in Batch, b \notin group PROVE StageOf(b)' = StageOf(b)
    BY <1>1, <1>2, <1>4, <2>1, StageStays
  <2>2. ASSUME NEW b \in Batch, b \in group PROVE StageOf(b)' = "closed"
    BY <1>1, <1>3, <1>4, <2>2 DEF StageOf
  <2> QED
    BY <2>1, <2>2
<1>6. Cardinality(group) <= CLAIM_BATCH_SIZE
  <2>1. /\ IsFiniteSet(ToSet(pump.group))
        /\ Cardinality(ToSet(pump.group)) <= CLAIM_BATCH_SIZE
    BY <1>1, GroupFits
  <2>2. group \subseteq ToSet(pump.group)
    OBVIOUS
  <2> HIDE DEF group
  <2>3. /\ Cardinality(group) <= Cardinality(ToSet(pump.group))
        /\ Cardinality(group) \in Nat /\ Cardinality(ToSet(pump.group)) \in Nat
    BY <2>1, <2>2, FS_Subset, FS_CardinalityType
  <2> QED
    BY <2>1, <2>3, SubmitterAssumption
<1>7. group \subseteq Lifecycle!At("waiting")
  BY <1>3 DEF Lifecycle!At, StageOf
<1> HIDE DEF group
<1>8. Lifecycle!Move(group, "closed")
  BY <1>5, StageMoves
<1>9. Lifecycle!Close(group)
  BY <1>6, <1>8, SameCardinality DEF Lifecycle!Close
<1> QED
  BY <1>7, <1>9 DEF Lifecycle!Next

\* A group of waiting batches is submitted, within the window.
LEMMA LifecycleSubmits ==
  ASSUME TypeOK, TypeOK', NonceDiscipline, EstimatedGroupIsNext, InflightBound',
         Staged, Staged', SendAccepted
  PROVE  Lifecycle!Next
<1> DEFINE group == ToSet(pump.group)
<1>1. /\ pump.pc = "send" /\ pump.group \in Groups /\ outcome' = outcome /\ Arrived' = Arrived
      /\ pump.nonce \notin DOMAIN inflight
  BY PumpFields DEF SendAccepted, Arrived, TypeOK, NonceDiscipline
<1>2. /\ DOMAIN inflight' = DOMAIN inflight \cup {pump.nonce}
      /\ inflight'[pump.nonce].batches = pump.group
      /\ \A n \in DOMAIN inflight : inflight'[n].batches = inflight[n].batches
  BY <1>1 DEF SendAccepted, Track
<1>3. \A b : InFlight(b)' <=> InFlight(b) \/ b \in group
  BY <1>2 DEF InFlight
<1>4. \A b \in group : b \in Batch /\ b \in Arrived /\ outcome[b] = "open" /\ ~InFlight(b)
  BY <1>1, GroupWaits
<1>5. \A b \in Batch : StageOf(b)' = IF b \in group THEN "submitted" ELSE StageOf(b)
  <2>1. ASSUME NEW b \in Batch, b \notin group PROVE StageOf(b)' = StageOf(b)
    <3>1. InFlight(b)' = InFlight(b)
      BY <1>3, <2>1 DEF InFlight
    <3> QED
      BY <1>1, <3>1, StageStays
  <2>2. ASSUME NEW b \in Batch, b \in group PROVE StageOf(b)' = "submitted"
    BY <1>1, <1>3, <1>4, <2>2 DEF StageOf
  <2> QED
    BY <2>1, <2>2
<1>6. /\ group # {} /\ Cardinality(group) <= CLAIM_BATCH_SIZE
      /\ group \subseteq Lifecycle!At("waiting")
  BY <1>1, <1>4, GroupFits DEF Lifecycle!At, StageOf
<1>7. Cardinality(Lifecycle!At("submitted") \cup group) <= CLAIM_BATCH_SIZE * MAX_INFLIGHT
  <2> DEFINE Out == {b \in Batch : \E n \in DOMAIN inflight' : b \in ToSet(inflight'[n].batches)}
  <2>1. Lifecycle!At("submitted") = {b \in Batch : InFlight(b)}
    BY DEF Lifecycle!At, StageOf, Staged, InOneStage
  <2>2. \A b \in Batch : b \in Out <=> InFlight(b) \/ b \in group
    BY <1>2
    DEF InFlight
  <2>3. Lifecycle!At("submitted") \cup group = Out
    BY <1>4, <2>1, <2>2
  <2>4. /\ IsFiniteSet(DOMAIN inflight') /\ Cardinality(DOMAIN inflight') <= MAX_INFLIGHT
        /\ \A n \in DOMAIN inflight' : inflight'[n].batches \in Groups
    BY DEF TypeOK, FlightTypeOK, Tracked, InflightBound
  <2>5. Cardinality(Out) <= CLAIM_BATCH_SIZE * MAX_INFLIGHT
    BY <2>4, FlightsFit
  <2> QED
    BY <2>3, <2>5
<1> HIDE DEF group
<1>8. Lifecycle!Move(group, "submitted")
  BY <1>5, StageMoves
<1>9. Lifecycle!Submit(group)
  BY <1>6, <1>7, <1>8, SameCardinality DEF Lifecycle!Submit
<1> QED
  BY <1>6, <1>9 DEF Lifecycle!Next

\* The batches of one transaction are closed.
LEMMA LifecycleCloses ==
  ASSUME TypeOK, Staged, NEW n \in DOMAIN inflight, NEW what \in Outcomes \ {"open"},
         Resolve(n, what)
  PROVE  Lifecycle!Next
<1> DEFINE group == ToSet(inflight[n].batches)
<1>1. inflight[n].batches \in Groups
  BY TrackedGroup DEF TypeOK, Tracked
<1>2. /\ DOMAIN inflight' = DOMAIN inflight \ {n} /\ Arrived' = Arrived
      /\ \A m \in DOMAIN inflight' : inflight'[m].batches = inflight[m].batches
      /\ \A b \in Batch : outcome'[b] = IF b \in group THEN what ELSE outcome[b]
  BY DEF Resolve, Restrict, Report, Arrived
<1>3. \A b \in group : b \in Batch /\ InFlight(b) /\ b \in Arrived /\ outcome[b] = "open"
  BY <1>1, GroupFits DEF InFlight, Staged, InOneStage
<1>4. \A b \in Batch : StageOf(b)' = IF b \in group THEN "closed" ELSE StageOf(b)
  <2>1. ASSUME NEW b \in Batch, b \notin group PROVE StageOf(b)' = StageOf(b)
    <3>1. InFlight(b)' = InFlight(b)
      BY <1>2, <2>1 DEF InFlight
    <3> QED
      BY <1>2, <2>1, <3>1, StageStays
  <2>2. ASSUME NEW b \in Batch, b \in group PROVE StageOf(b)' = "closed"
    BY <1>2, <1>3, <2>2 DEF StageOf
  <2> QED
    BY <2>1, <2>2
<1>5. group \subseteq Lifecycle!At("submitted") /\ Cardinality(group) <= CLAIM_BATCH_SIZE
  BY <1>1, <1>3, GroupFits DEF Lifecycle!At, StageOf
<1> HIDE DEF group
<1>6. Lifecycle!Move(group, "closed")
  BY <1>4, StageMoves
<1>7. Lifecycle!Close(group)
  BY <1>5, <1>6, SameCardinality DEF Lifecycle!Close
<1> QED
  BY <1>5, <1>7 DEF Lifecycle!Next

\* The process dies with what it held.
LEMMA LifecycleDies ==
  ASSUME TypeOK, Staged, Crash
  PROVE  Lifecycle!Next
<1> DEFINE group == Lifecycle!At("waiting") \cup Lifecycle!At("submitted")
<1>1. /\ Arrived' = Arrived /\ DOMAIN inflight' = {}
      /\ \A b \in Batch : outcome'[b] = IF b \in Arrived /\ outcome[b] = "open"
                                        THEN "lost" ELSE outcome[b]
  BY DEF Crash, Arrived
<1>2. \A b \in Batch : b \in group <=> b \in Arrived /\ outcome[b] = "open"
  BY DEF Lifecycle!At, StageOf
<1>3. \A b \in Batch : StageOf(b)' = IF b \in group THEN "closed" ELSE StageOf(b)
  <2>1. ASSUME NEW b \in Batch, b \in group PROVE StageOf(b)' = "closed"
    BY <1>1, <1>2, <2>1 DEF StageOf
  <2>2. ASSUME NEW b \in Batch, b \notin group PROVE StageOf(b)' = StageOf(b)
    BY <1>1, <1>2, <2>2 DEF StageOf
  <2> QED
    BY <2>1, <2>2
<1>4. Lifecycle!Move(group, "closed")
  <2> HIDE DEF group
  <2> QED
    BY <1>3, StageMoves
<1> QED
  BY <1>4 DEF Lifecycle!Die, Lifecycle!Next

LEMMA LifecycleStep ==
  ASSUME TypeOK, TypeOK', NonceDiscipline, EstimatedGroupIsNext, InflightBound',
         Staged, Staged', [Next]_vars
  PROVE  Lifecycle!Next \/ StageMap' = StageMap
<1>1. ASSUME Arrived' = Arrived, outcome' = outcome,
             \A b \in Batch : InFlight(b)' = InFlight(b)
      PROVE  StageMap' = StageMap
  BY <1>1, StageStays DEF StageMap
<1>2. CASE Unmoved
  BY <1>1, <1>2, FlightsStay DEF Unmoved, Arrived
<1>3. CASE EstimatePasses \/ BackOff
  BY <1>1, <1>3 DEF EstimatePasses, BackOff, Arrived, InFlight
<1>4. ASSUME NEW a \in Batch, Push(a) PROVE Lifecycle!Next
  <2>1. /\ a \notin Arrived /\ Arrived' = Arrived \cup {a}
        /\ outcome' = outcome /\ inflight' = inflight
    BY <1>4, HeldSequences, ToSetAppend DEF Push, Arrived
  <2>2. \A b \in Batch : StageOf(b)' = IF b \in {a} THEN "waiting" ELSE StageOf(b)
    <3>1. outcome[a] = "open" /\ ~InFlight(a)
      BY <2>1 DEF Staged, InOneStage
    <3> QED
      BY <2>1, <3>1 DEF StageOf, InFlight
  <2>3. Lifecycle!Move({a}, "waiting") /\ a \in Lifecycle!At("new")
    BY <2>1, <2>2, StageMoves DEF Lifecycle!At, StageOf
  <2> QED
    BY <2>3 DEF Lifecycle!Accept, Lifecycle!Next
<1> QED
  BY <1>2, <1>3, <1>4, Moves, LifecycleGivesUp, LifecycleSubmits, LifecycleCloses,
     LifecycleDies

\* The submitter implements the life cycle of a batch: a batch is accepted
\* once, submitted at most once by a running process, in groups and within
\* the window, and never comes back.
THEOREM ImplementsLifecycle == Spec => LifecycleImplemented
<1>1. Init => Lifecycle!Init
  <2> SUFFICES ASSUME Init, NEW b \in Batch PROVE StageOf(b) = "new"
    BY DEF Lifecycle!Init
  <2> QED
    BY ToSetEmpty DEF Init, SubmitterInit, StageOf, Arrived
<1>2. TypeOK /\ TypeOK' /\ NonceDiscipline /\ EstimatedGroupIsNext
        /\ InflightBound' /\ Staged /\ Staged' /\ [Next]_vars
        => [Lifecycle!Next]_StageMap
  BY LifecycleStep
<1> QED
  BY <1>1, <1>2, TypeCorrect, NoncesDisciplined, EstimatedGroupStaysNext,
     InflightBounded, StagedAlways, PTL
     DEF Spec, LifecycleImplemented, Lifecycle!Spec, StageMap

-----------------------------------------------------------------------------
(* The order of arrival                                                    *)

\* What waits, in the order it is dealt with.
Line == Sending \o pending

(***************************************************************************)
(* c is not dealt with before b: not in the line, not in flight while b is *)
(* in the line, and not in a lower nonce, nor before b under the same one. *)
(***************************************************************************)
InOrder(b, c) ==
  /\ Precedes(Line, b, c)
  /\ ~(b \in ToSet(Line) /\ InFlight(c))
  /\ \A m, n \in DOMAIN inflight :
       b \in ToSet(inflight[m].batches) /\ c \in ToSet(inflight[n].batches) =>
         /\ m <= n
         /\ m = n => Precedes(inflight[n].batches, b, c)

\* b arrived before c, is still without an outcome, as c, and never failed an
\* estimate.
Due(b, c) ==
  /\ \E i, j \in DOMAIN arrival : i < j /\ arrival[i] = b /\ arrival[j] = c
  /\ outcome[b] = "open" /\ outcome[c] = "open" /\ attempts[b] = 0

ArrivedOnce == \A i, j \in DOMAIN arrival : arrival[i] = arrival[j] => i = j

Ordered == ArrivedOnce /\ \A b, c \in Batch : Due(b, c) => InOrder(b, c)

\* Only a failed estimate changes what failures are counted; a crash forgets.
LEMMA AttemptsStay ==
  ASSUME [Next]_vars, ~EstimateFails, ~Crash
  PROVE  attempts' = attempts
<1>1. CASE ChainNext /\ UNCHANGED submitterVars
  BY <1>1 DEF submitterVars
<1>2. CASE PumpStep
  BY <1>2 DEF PumpStep, SyncNonce, SyncFails, EstimatePasses, EstimateReverts,
              SendAccepted, SendRefused, SendFails, SendReplyLost, BackOff
<1>3. CASE RecStep
  BY <1>3 DEF RecStep, ReadLatest, ReadLatestFails, GotLatest, ReceiptFound, NonceAdvanced,
              StuckTooOften, StillYoung, Resubmit, ResendAccepted, ResendRefused,
              ResendFails, ResendReplyLost, GiveUpResend, Resolve
<1>4. CASE UNCHANGED vars
  BY <1>4 DEF vars, submitterVars
<1> QED
  BY <1>1, <1>2, <1>3, <1>4 DEF Next, RelayNext, Push, Age, Tick, Rest, vars, submitterVars

\* Where a batch waits is where Waiting counts it.
LEMMA LineOK ==
  ASSUME TypeOK
  PROVE  /\ Line \in Seq(Batch)
         /\ \A b : b \in ToSet(Line) <=> Waiting(b) # 0
         /\ ToSet(Line) = ToSet(Sending) \cup ToSet(pending)
<1>1. pending \in Seq(Batch) /\ Sending \in Seq(Batch)
  BY HeldSequences
<1>2. Line \in Seq(Batch) /\ ToSet(Line) = ToSet(Sending) \cup ToSet(pending)
  BY <1>1, ToSetConcat DEF Line
<1>3. \A b : /\ Count(pending, b) \in Nat /\ Count(Sending, b) \in Nat
             /\ Count(pending, b) = 0 <=> b \notin ToSet(pending)
             /\ Count(Sending, b) = 0 <=> b \notin ToSet(Sending)
  BY <1>1, CountType
<1> QED
  BY <1>2, <1>3 DEF Waiting

\* A step that keeps the line, or drops its front, and at most ends flights.
LEMMA OrderStays ==
  ASSUME NEW b, NEW c, InOrder(b, c), Precedes(Line', b, c),
         b \in ToSet(Line') => b \in ToSet(Line),
         \A n \in DOMAIN inflight' :
           n \in DOMAIN inflight /\ inflight'[n].batches = inflight[n].batches
  PROVE  InOrder(b, c)'
<1>1. InFlight(c)' => InFlight(c)
  BY DEF InFlight
<1>2. \A m, n \in DOMAIN inflight' :
        b \in ToSet(inflight'[m].batches) /\ c \in ToSet(inflight'[n].batches) =>
          m <= n /\ (m = n => Precedes(inflight'[n].batches, b, c))
  BY DEF InOrder
<1> QED
  BY <1>1, <1>2 DEF InOrder

\* What is due after a step that queues no batch was due before it.
LEMMA DueBefore ==
  ASSUME NEW b, NEW c, arrival' = arrival, Due(b, c)',
         outcome'[b] = "open" => outcome[b] = "open",
         outcome'[c] = "open" => outcome[c] = "open",
         attempts'[b] = 0 => attempts[b] = 0
  PROVE  Due(b, c)
  BY DEF Due

\* The group being estimated is the front of the queue.
LEMMA GroupThenRest ==
  ASSUME TypeOK, EstimatedGroupIsNext, pump.pc = "estimate"
  PROVE  pending = pump.group \o WithoutGroup
<1> DEFINE k == Len(pump.group)
<1>1. pending \in Seq(Batch) /\ pump.group \in Seq(Batch)
  BY HeldSequences
<1>2. k \in 0 .. Len(pending) /\ SubSeq(pending, 1, k) = pump.group
  <2>1. k <= Len(pending) /\ SubSeq(pump.group, 1, k) = SubSeq(pending, 1, k)
    BY DEF EstimatedGroupIsNext, IsPrefix
  <2> QED
    BY <1>1, <2>1, SubSeqFull
<1>3. WithoutGroup = SubSeq(pending, k + 1, Len(pending))
  BY DEF WithoutGroup
<1> HIDE DEF k
<1> QED
  BY <1>1, <1>2, <1>3, SplitAt

\* An estimate ends: the group is sent, given up, or partly queued again, and
\* what is queued again failed an estimate.
LEMMA OrderEstimate ==
  ASSUME TypeOK, EstimatedGroupIsNext,
         EstimatePasses \/ EstimateReverts \/ EstimateFails,
         NEW b \in Batch, NEW c \in Batch, attempts'[b] = 0, InOrder(b, c)
  PROVE  InOrder(b, c)'
<1> DEFINE group == pump.group
           rest == WithoutGroup
<1>1. pump.pc = "estimate" /\ Sending = <<>> /\ inflight' = inflight
  BY DEF EstimatePasses, EstimateReverts, EstimateFails, Sending
<1>2. group \in Seq(Batch) /\ rest \in Seq(Batch) /\ pending = group \o rest
  BY <1>1, GroupAndRest, GroupThenRest
<1>3. Line = group \o rest
  BY <1>1, <1>2 DEF Line
<1>4. /\ Precedes(group, b, c) /\ Precedes(rest, b, c)
      /\ ~(b \in ToSet(rest) /\ c \in ToSet(group))
      /\ ToSet(Line) = ToSet(group) \cup ToSet(rest)
  <2>1. Precedes(group \o rest, b, c)
    BY <1>3 DEF InOrder
  <2> HIDE DEF group, rest
  <2> QED
    BY <1>2, <1>3, <2>1, PrecedesConcat, ToSetConcat
<1>5. CASE EstimatePasses
  <2>1. Line' = Line
    BY <1>3, <1>5 DEF EstimatePasses, Line, Sending
  <2> QED
    BY <1>1, <2>1, OrderStays DEF InOrder
<1>6. CASE EstimateReverts
  <2>1. pending' = rest /\ Sending' = <<>>
    BY <1>2, <1>6, NotSending DEF EstimateReverts
  <2>2. Line' = rest
    BY <1>2, <2>1 DEF Line
  <2> HIDE DEF group, rest
  <2> QED
    BY <1>1, <1>4, <2>2, OrderStays
<1>7. CASE EstimateFails
  <2>1. PICK kept \in BoundedSeq(Batch, CLAIM_BATCH_SIZE) :
          /\ IsSelection(kept, group, {a \in Batch : HasRetry(a)})
          /\ pending' = rest \o kept
    BY <1>7 DEF EstimateFails
  <2>2. kept \in Seq(Batch)
    BY SubmitterAssumption DEF BoundedSeq, SeqOf
  <2>3. Line' = rest \o kept
    <3>1. pending' \in Seq(Batch)
      BY <1>2, <2>1, <2>2
    <3>2. Sending' = <<>>
      BY <1>7, <3>1, NotSending DEF EstimateFails
    <3> QED
      BY <2>1, <3>1, <3>2 DEF Line
  <2>4. b \notin ToSet(group)
    BY <1>7 DEF EstimateFails, TypeOK, QueueTypeOK
  <2>5. b \notin ToSet(kept)
    BY <2>1, <2>4, ToSetSelection
  <2>6. Precedes(kept, b, c)
    BY <2>5 DEF Precedes, ToSet
  <2> HIDE DEF group, rest
  <2>7. Precedes(rest \o kept, b, c) /\ ToSet(rest \o kept) = ToSet(rest) \cup ToSet(kept)
    BY <1>2, <1>4, <2>2, <2>5, <2>6, PrecedesConcat, ToSetConcat
  <2> QED
    BY <1>1, <1>4, <2>3, <2>5, <2>7, OrderStays
<1> QED
  BY <1>5, <1>6, <1>7

\* A group in order is tracked, under a nonce above all others.
LEMMA OrderSend ==
  ASSUME TypeOK, NonceDiscipline, SendAccepted,
         NEW b \in Batch, NEW c \in Batch, InOrder(b, c)
  PROVE  InOrder(b, c)'
<1> DEFINE group == pump.group
<1>1. /\ pump.pc = "send" /\ pending' = pending /\ Sending' = <<>>
      /\ pending \in Seq(Batch) /\ group \in Seq(Batch)
  BY HeldSequences, NotSending DEF SendAccepted
<1>2. Line = group \o pending /\ Line' = pending
  BY <1>1 DEF Line, Sending
<1>3. /\ Precedes(group, b, c) /\ Precedes(pending, b, c)
      /\ ~(b \in ToSet(pending) /\ c \in ToSet(group))
      /\ ToSet(Line) = ToSet(group) \cup ToSet(pending)
  <2>1. Precedes(group \o pending, b, c)
    BY <1>2 DEF InOrder
  <2> HIDE DEF group
  <2> QED
    BY <1>1, <1>2, <2>1, PrecedesConcat, ToSetConcat
<1>4. /\ DOMAIN inflight' = DOMAIN inflight \cup {pump.nonce}
      /\ inflight'[pump.nonce].batches = group
      /\ pump.nonce \notin DOMAIN inflight
      /\ \A n \in DOMAIN inflight : inflight'[n].batches = inflight[n].batches
  BY DEF SendAccepted, Track, NonceDiscipline
<1>5. /\ pump.nonce \in Int
      /\ \A n \in DOMAIN inflight : n \in Int /\ n < pump.nonce
  <2>1. /\ pump.nonce = nextNonce - 1 /\ nextNonce \in Nat \cup {NoNonce}
        /\ DOMAIN inflight \subseteq Nat
    BY <1>1 DEF TypeOK, PumpTypeOK, FlightTypeOK
  <2> QED
    BY <1>4, <2>1 DEF NonceDiscipline, NoNonce
<1> HIDE DEF group
<1>6. ~(b \in ToSet(pending) /\ InFlight(c)')
  BY <1>3, <1>4 DEF InFlight, InOrder
<1>7. ASSUME NEW m \in DOMAIN inflight', NEW n \in DOMAIN inflight',
             b \in ToSet(inflight'[m].batches), c \in ToSet(inflight'[n].batches)
      PROVE  m <= n /\ (m = n => Precedes(inflight'[n].batches, b, c))
  <2>1. CASE m \in DOMAIN inflight /\ n \in DOMAIN inflight
    BY <1>4, <1>7, <2>1 DEF InOrder
  <2>2. CASE m = pump.nonce /\ n \in DOMAIN inflight
    <3>1. b \in ToSet(Line) /\ InFlight(c)
      BY <1>3, <1>4, <1>7, <2>2 DEF InFlight
    <3> QED
      BY <3>1 DEF InOrder
  <2>3. CASE n = pump.nonce
    BY <1>3, <1>4, <1>5, <2>3
  <2> QED
    BY <1>4, <2>1, <2>2, <2>3
<1> QED
  BY <1>2, <1>3, <1>6, <1>7 DEF InOrder

\* A batch arrives, behind everything else.
LEMMA OrderPush ==
  ASSUME TypeOK, Staged, Ordered, NEW a \in Batch, Push(a)
  PROVE  Ordered'
<1> DEFINE k == Len(arrival)
<1>1. /\ a \notin Arrived /\ arrival' = Append(arrival, a)
      /\ UNCHANGED <<inflight, outcome, attempts>>
  BY DEF Push
<1>2. /\ k \in Nat /\ DOMAIN arrival = 1 .. k /\ DOMAIN arrival' = 1 .. k + 1
      /\ \A i \in 1 .. k : arrival'[i] = arrival[i] /\ arrival[i] # a
      /\ arrival'[k + 1] = a
  <2>1. arrival \in Seq(Batch)
    BY HeldSequences
  <2>2. \A i \in DOMAIN arrival : arrival[i] # a
    BY <1>1 DEF Arrived, ToSet
  <2> QED
    BY <1>1, <2>1, <2>2
<1>3. Line' = Line \o <<a>> /\ Line \in Seq(Batch) /\ <<a>> \in Seq(Batch)
  <2>1. /\ pending' = Append(pending, a) /\ pump' = CallPump(pending')
        /\ pending \in Seq(Batch) /\ pending' \in Seq(Batch) /\ Sending \in Seq(Batch)
    BY HeldSequences DEF Push
  <2>2. Sending' = Sending
    BY <2>1, NotSending
  <2>3. Line' = Sending \o Append(pending, a)
    BY <2>1, <2>2 DEF Line
  <2>4. Append(pending, a) = pending \o <<a>>
    BY <2>1, AppendIsConcat
  <2>5. Sending \o (pending \o <<a>>) = (Sending \o pending) \o <<a>>
    <3>1. <<a>> \in Seq(Batch)
      OBVIOUS
    <3> QED
      BY <2>1, <3>1, ConcatAssociative
  <2> QED
    BY <2>1, <2>3, <2>4, <2>5, LineOK DEF Line
<1>4. a \notin ToSet(Line) /\ ~InFlight(a)
  BY <1>1, LineOK DEF Staged, InOneStage
<1>5. /\ ToSet(<<a>>) = {a} /\ ToSet(Line') = ToSet(Line) \cup {a}
      /\ \A b : InFlight(b)' = InFlight(b)
  <2>1. ToSet(<<a>>) = {a}
    BY DEF ToSet
  <2>2. ToSet(Line \o <<a>>) = ToSet(Line) \cup ToSet(<<a>>)
    <3> DEFINE l == Line
               t == <<a>>
    <3>1. l \in Seq(Batch) /\ t \in Seq(Batch)
      BY <1>3
    <3> HIDE DEF k, l, t
    <3>2. ToSet(l \o t) = ToSet(l) \cup ToSet(t)
      BY <3>1, ToSetConcat
    <3> QED
      BY <3>2 DEF l, t
  <2>3. \A b : InFlight(b)' = InFlight(b)
    BY <1>1 DEF InFlight
  <2> HIDE DEF k
  <2>4. ToSet(Line') = ToSet(Line \o <<a>>)
    BY <1>3
  <2> QED
    BY <2>1, <2>2, <2>3, <2>4, Zenon
<1> HIDE DEF k
<1>6. ArrivedOnce'
  BY <1>2 DEF Ordered, ArrivedOnce
<1>7. ASSUME NEW b \in Batch, NEW c \in Batch, Due(b, c)' PROVE InOrder(b, c)'
  <2>1. PICK i, j \in 1 .. k + 1 : i < j /\ arrival'[i] = b /\ arrival'[j] = c
    BY <1>2, <1>7 DEF Due
  <2>2. i \in 1 .. k /\ arrival[i] = b /\ b # a
    BY <1>2, <2>1
  <2>3. Precedes(<<a>>, b, c)
    BY <2>2 DEF Precedes
  <2>4. CASE j = k + 1
    <3>1. c = a
      BY <1>2, <2>1, <2>4
    <3>2. Precedes(Line, b, c)
      BY <1>4, <3>1 DEF Precedes, ToSet
    <3>3. Precedes(Line', b, c)
      BY <1>3, <1>5, <2>2, <2>3, <3>2, PrecedesConcat
    <3>4. ~InFlight(c)'
      BY <1>4, <1>5, <3>1
    <3> QED
      BY <3>3, <3>4 DEF InOrder, InFlight
  <2>5. CASE j # k + 1
    <3>1. j \in 1 .. k /\ arrival[j] = c
      BY <1>2, <2>1, <2>5
    <3>2. Due(b, c)
      BY <1>1, <1>2, <1>7, <2>1, <2>2, <3>1 DEF Due
    <3>3. InOrder(b, c)
      BY <3>2 DEF Ordered
    <3>4. Precedes(Line', b, c)
      BY <1>3, <1>5, <2>2, <2>3, <3>3, PrecedesConcat DEF InOrder
    <3>5. b \in ToSet(Line') => b \in ToSet(Line)
      BY <1>5, <2>2
    <3> QED
      BY <1>1, <3>3, <3>4, <3>5, OrderStays
  <2> QED
    BY <2>4, <2>5
<1> QED
  BY <1>6, <1>7 DEF Ordered

LEMMA OrderStep ==
  ASSUME TypeOK, NonceDiscipline, EstimatedGroupIsNext, Staged, Ordered, [Next]_vars
  PROVE  Ordered'
<1>1. CASE \E a \in Batch : Push(a)
  BY <1>1, OrderPush
<1>2. CASE Crash
  <2>1. /\ arrival' = arrival
        /\ \A b \in Batch : outcome'[b] = IF b \in Arrived /\ outcome[b] = "open"
                                          THEN "lost" ELSE outcome[b]
    BY <1>2 DEF Crash
  <2>2. ASSUME NEW b \in Batch, NEW c \in Batch, Due(b, c)' PROVE FALSE
    <3>1. b \in Arrived /\ outcome'[b] = "open"
      BY <2>1, <2>2 DEF Due, Arrived, ToSet
    <3> QED
      BY <2>1, <3>1
  <2> QED
    BY <2>1, <2>2 DEF Ordered, ArrivedOnce
<1>3. CASE ~Crash /\ ~(\E a \in Batch : Push(a))
  <2>1. arrival' = arrival
    BY <1>3, Moves DEF Unmoved, EstimatePasses, EstimateReverts, EstimateFails,
                       SendAccepted, BackOff, Resolve
  <2>2. SUFFICES ASSUME NEW b \in Batch, NEW c \in Batch, Due(b, c)'
                 PROVE  InOrder(b, c)'
    BY <2>1 DEF Ordered, ArrivedOnce
  <2>3. \A e \in Batch : outcome'[e] = "open" => outcome[e] = "open"
    <3>1. CASE SendAccepted
      BY <3>1 DEF SendAccepted
    <3> QED
      BY <1>3, <3>1, FlightsOnlyEnd
  <2>4. attempts'[b] = 0 => attempts[b] = 0
    <3>1. CASE EstimateFails
      BY <3>1 DEF EstimateFails, TypeOK, QueueTypeOK
    <3> QED
      BY <1>3, <3>1, AttemptsStay
  <2>5. InOrder(b, c) /\ attempts'[b] = 0
    <3>1. Due(b, c)
      BY <2>1, <2>2, <2>3, <2>4, DueBefore
    <3> QED
      BY <2>2, <3>1 DEF Ordered, Due
  <2>6. CASE EstimatePasses \/ EstimateReverts \/ EstimateFails
    BY <2>5, <2>6, OrderEstimate
  <2>7. CASE SendAccepted
    BY <2>5, <2>7, OrderSend
  <2>8. ASSUME Line' = Line, ~SendAccepted PROVE InOrder(b, c)'
    <3>1. Precedes(Line', b, c)
      BY <2>5, <2>8 DEF InOrder
    <3> QED
      BY <1>3, <2>5, <2>8, <3>1, FlightsOnlyEnd, OrderStays
  <2>9. CASE BackOff /\ ~SendAccepted
    <3>1. Sending = pump.group /\ pending' = pump.group \o pending /\ Sending' = <<>>
      BY <2>9 DEF BackOff, Sending, PumpIdle
    <3>2. pump.group \o pending \in Seq(Batch)
      BY HeldSequences
    <3>3. Line' = Line
      BY <3>1, <3>2 DEF Line
    <3> QED
      BY <2>8, <2>9, <3>3
  <2>10. CASE Unmoved /\ ~SendAccepted
    BY <2>8, <2>10 DEF Unmoved, Line
  <2>11. CASE ~SendAccepted /\ \E n \in DOMAIN inflight, what \in Outcomes \ {"open"} :
                                 Resolve(n, what)
    <3>1. Line' = Line
      BY <2>11 DEF Resolve, Line, Sending
    <3> QED
      BY <2>8, <2>11, <3>1
  <2> QED
    BY <1>3, <2>6, <2>7, <2>9, <2>10, <2>11, Moves
<1> QED
  BY <1>1, <1>2, <1>3

LEMMA OrderInit == Init => Ordered
  BY DEF Init, SubmitterInit, Ordered, ArrivedOnce, Due

\* Where Slot has a batch that arrived and has no outcome.
LEMMA SlotOK ==
  ASSUME TypeOK, Staged, NEW b \in Batch, b \in Arrived, outcome[b] = "open"
  PROVE  \/ \E n \in DOMAIN inflight : \E k \in DOMAIN inflight[n].batches :
              inflight[n].batches[k] = b /\ Slot(b) = <<0, n, k>>
         \/ \E k \in DOMAIN Sending : Sending[k] = b /\ Slot(b) = <<1, 0, k>>
         \/ /\ b \notin ToSet(Sending)
            /\ \E k \in DOMAIN pending : pending[k] = b /\ Slot(b) = <<2, 0, k>>
<1>1. \A s : b \in ToSet(s) =>
        /\ (CHOOSE k \in DOMAIN s : s[k] = b) \in DOMAIN s
        /\ s[CHOOSE k \in DOMAIN s : s[k] = b] = b
  BY DEF ToSet
<1>2. CASE InFlight(b)
  <2> DEFINE n == CHOOSE m \in DOMAIN inflight : b \in ToSet(inflight[m].batches)
  <2>1. n \in DOMAIN inflight /\ b \in ToSet(inflight[n].batches)
    BY <1>2 DEF InFlight
  <2>2. Slot(b) = <<0, n, CHOOSE k \in DOMAIN inflight[n].batches :
                            inflight[n].batches[k] = b>>
    BY <1>2 DEF Slot, InFlight
  <2> HIDE DEF n
  <2> QED
    BY <1>1, <2>1, <2>2
<1>3. CASE ~InFlight(b) /\ b \in ToSet(Sending)
  <2>1. Slot(b) = <<1, 0, CHOOSE k \in DOMAIN Sending : Sending[k] = b>>
    BY <1>3 DEF Slot, InFlight
  <2> QED
    BY <1>1, <1>3, <2>1
<1>4. CASE ~InFlight(b) /\ b \notin ToSet(Sending)
  <2>1. Slot(b) = <<2, 0, CHOOSE k \in DOMAIN pending : pending[k] = b>>
    BY <1>4 DEF Slot, InFlight
  <2>2. b \in ToSet(pending)
    BY <1>4, LineOK DEF Staged, InOneStage
  <2> QED
    BY <1>1, <1>4, <2>1, <2>2
<1> QED
  BY <1>2, <1>3, <1>4

LEMMA OrderedIsKept ==
  ASSUME TypeOK, Staged, Ordered
  PROVE  ArrivalOrderKept
<1>1. SUFFICES ASSUME NEW b \in Batch, NEW c \in Batch, b \in Arrived, c \in Arrived,
                      Due(b, c)
               PROVE  SlotBefore(Slot(b), Slot(c))
  <2>1. \A i \in DOMAIN arrival : arrival[i] \in Batch /\ arrival[i] \in Arrived
    BY HeldSequences DEF Arrived, ToSet
  <2> QED
    BY <2>1 DEF ArrivalOrderKept, Due
<1>2. InOrder(b, c) /\ outcome[b] = "open" /\ outcome[c] = "open"
  BY <1>1 DEF Ordered, Due
<1>3. /\ Precedes(Sending, b, c) /\ Precedes(pending, b, c)
      /\ ~(b \in ToSet(pending) /\ c \in ToSet(Sending))
  BY <1>2, HeldSequences, PrecedesConcat DEF InOrder, Line
<1>4. DOMAIN inflight \subseteq Nat
  BY HeldSequences
<1>5. CASE \E n \in DOMAIN inflight : \E k \in DOMAIN inflight[n].batches :
             inflight[n].batches[k] = c /\ Slot(c) = <<0, n, k>>
  <2>1. PICK n \in DOMAIN inflight : \E k \in DOMAIN inflight[n].batches :
          inflight[n].batches[k] = c /\ Slot(c) = <<0, n, k>>
    BY <1>5
  <2>2. PICK k \in DOMAIN inflight[n].batches :
          inflight[n].batches[k] = c /\ Slot(c) = <<0, n, k>>
    BY <2>1
  <2>3. c \in ToSet(inflight[n].batches) /\ InFlight(c)
    BY <2>2 DEF InFlight, ToSet
  <2>4. b \notin ToSet(Sending) /\ b \notin ToSet(pending)
    BY <1>2, <2>3, LineOK DEF InOrder
  <2>5. PICK m \in DOMAIN inflight : \E l \in DOMAIN inflight[m].batches :
          inflight[m].batches[l] = b /\ Slot(b) = <<0, m, l>>
    BY <1>1, <1>2, <2>4, SlotOK DEF ToSet
  <2>6. PICK l \in DOMAIN inflight[m].batches :
          inflight[m].batches[l] = b /\ Slot(b) = <<0, m, l>>
    BY <2>5
  <2>7. b \in ToSet(inflight[m].batches)
    BY <2>6 DEF ToSet
  <2>8. m <= n /\ (m = n => l < k)
    BY <1>2, <2>2, <2>3, <2>6, <2>7 DEF InOrder, Precedes
  <2> QED
    BY <1>4, <2>2, <2>6, <2>8 DEF SlotBefore
<1>6. CASE \E k \in DOMAIN Sending : Sending[k] = c /\ Slot(c) = <<1, 0, k>>
  <2>1. PICK k \in DOMAIN Sending : Sending[k] = c /\ Slot(c) = <<1, 0, k>>
    BY <1>6
  <2>2. b \notin ToSet(pending)
    BY <1>3, <2>1 DEF ToSet
  <2>3. CASE \E l \in DOMAIN Sending : Sending[l] = b /\ Slot(b) = <<1, 0, l>>
    BY <1>3, <2>1, <2>3 DEF SlotBefore, Precedes
  <2>4. CASE \E m \in DOMAIN inflight : \E l \in DOMAIN inflight[m].batches :
               inflight[m].batches[l] = b /\ Slot(b) = <<0, m, l>>
    BY <2>1, <2>4 DEF SlotBefore
  <2> QED
    BY <1>1, <1>2, <2>2, <2>3, <2>4, SlotOK DEF ToSet
<1>7. CASE \E k \in DOMAIN pending : pending[k] = c /\ Slot(c) = <<2, 0, k>>
  <2>1. PICK k \in DOMAIN pending : pending[k] = c /\ Slot(c) = <<2, 0, k>>
    BY <1>7
  <2>2. CASE \E l \in DOMAIN pending : pending[l] = b /\ Slot(b) = <<2, 0, l>>
    BY <1>3, <2>1, <2>2 DEF SlotBefore, Precedes
  <2>3. CASE \E m \in DOMAIN inflight : \E l \in DOMAIN inflight[m].batches :
               inflight[m].batches[l] = b /\ Slot(b) = <<0, m, l>>
    BY <2>1, <2>3 DEF SlotBefore
  <2>4. CASE \E l \in DOMAIN Sending : Sending[l] = b /\ Slot(b) = <<1, 0, l>>
    BY <2>1, <2>4 DEF SlotBefore
  <2> QED
    BY <1>1, <1>2, <2>2, <2>3, <2>4, SlotOK
<1> QED
  BY <1>1, <1>2, <1>5, <1>6, <1>7, SlotOK

\* A batch that never failed an estimate is not overtaken: not by batches
\* queued again at the end, not by a group put back in front after a failed
\* send, and not by the order of the nonces (claims.mjs:196, 213, 225, 251).
THEOREM ArrivalOrderStays == Spec => []ArrivalOrderKept
<1>1. TypeOK /\ NonceDiscipline /\ EstimatedGroupIsNext /\ Staged /\ Ordered /\ [Next]_vars
        => Ordered'
  BY OrderStep
<1>2. TypeOK /\ Staged /\ Ordered => ArrivalOrderKept
  BY OrderedIsKept
<1> QED
  BY <1>1, <1>2, OrderInit, TypeCorrect, NoncesDisciplined, EstimatedGroupStaysNext,
     StagedAlways, PTL DEF Spec
=============================================================================
