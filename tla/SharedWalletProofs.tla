------------------------- MODULE SharedWalletProofs -------------------------
(***************************************************************************)
(* Theorems about SharedWallet, for any clicks, withdrawals, batch sizes   *)
(* and numbers of failures.                                                *)
(***************************************************************************)
EXTENDS SharedWallet, CollectionProofs

-----------------------------------------------------------------------------
(* What the helpers do                                                     *)

\* The empty queue is the one without length.
LEMMA EmptyQueue == \A s \in Seq(Click) : s = <<>> <=> Len(s) = 0
  BY EmptySeq

\* A running flush has a click in hand.
LEMMA DrainTypes ==
  ASSUME TypeOK
  PROVE  /\ drain \in Flushes
         /\ drain.batch \in Seq(Click) /\ drain.nonce \in Nat /\ pending \in Seq(Click)
         /\ drain.pc # "idle" =>
              drain.batch # <<>> /\ Len(drain.batch) \in Nat \ {0} /\ Current \in Click
<1>1. /\ drain \in Flushes
      /\ drain.batch \in Seq(Click) /\ drain.nonce \in Nat /\ pending \in Seq(Click)
      /\ drain.pc # "idle" => drain.batch # <<>>
  BY DEF TypeOK, Flushes
<1>2. ASSUME drain.batch # <<>>
      PROVE  Len(drain.batch) \in Nat \ {0} /\ drain.batch[1] \in Click
  BY <1>1, <1>2, EmptyQueue
<1> QED
  BY <1>1, <1>2 DEF Current

\* The loop moves on: the click in hand leaves the batch, and no other.
LEMMA NextClickEffect ==
  ASSUME TypeOK, drain.pc # "idle", NextClick
  PROVE  /\ drain' \in Flushes
         /\ drain'.pc = "idle" <=> drain'.batch = <<>>
         /\ drain'.pc \in {"idle", "nonce"}
         /\ \A c : Count(drain.batch, c) =
                     Count(drain'.batch, c) + IF Current = c THEN 1 ELSE 0
<1> DEFINE rest == Tail(drain.batch)
<1>1. /\ drain.batch \in Seq(Click) /\ drain.batch # <<>> /\ Len(drain.batch) \in Nat \ {0}
      /\ rest \in Seq(Click) /\ Len(rest) = Len(drain.batch) - 1
      /\ drain' = IF Len(drain.batch) = 1 THEN Idle
                  ELSE [pc |-> "nonce", batch |-> rest, nonce |-> 0]
      /\ \A c : Count(drain.batch, c) = Count(rest, c) + IF drain.batch[1] = c THEN 1 ELSE 0
  BY DrainTypes, HeadTailProperties, CountTail DEF NextClick
<1> HIDE DEF rest
<1>0. rest = <<>> <=> Len(drain.batch) = 1
  <2>1. rest = <<>> <=> Len(rest) = 0
    BY <1>1, EmptyQueue, Zenon
  <2>2. Len(rest) = 0 <=> Len(drain.batch) = 1
    BY <1>1
  <2> QED
    BY <2>1, <2>2
<1>2. drain'.batch = rest
  BY <1>0, <1>1 DEF Idle
<1>3. /\ drain' \in Flushes
      /\ drain'.pc = "idle" <=> drain'.batch = <<>>
      /\ drain'.pc \in {"idle", "nonce"}
  BY <1>0, <1>1 DEF Idle, Flushes
<1> QED
  BY <1>1, <1>2, <1>3 DEF Current

\* What a flush takes and what it leaves make up the queue.
LEMMA TakenAndLeft ==
  ASSUME NEW queue \in Seq(Click)
  PROVE  /\ Taken(queue) \in Seq(Click) /\ Left(queue) \in Seq(Click)
         /\ queue # <<>> => Taken(queue) # <<>>
         /\ \A c : Count(queue, c) = Count(Taken(queue), c) + Count(Left(queue), c)
<1> DEFINE k == IF Len(queue) < CLICK_BATCH_SIZE THEN Len(queue) ELSE CLICK_BATCH_SIZE
<1>1. k \in 0 .. Len(queue) /\ (queue # <<>> => k > 0)
  BY WalletAssumption, EmptyQueue
<1>2. /\ SubSeq(queue, 1, k) \in Seq(Click) /\ SubSeq(queue, k + 1, Len(queue)) \in Seq(Click)
      /\ Len(SubSeq(queue, 1, k)) = k
  BY <1>1, SplitAt
<1>3. \A c : Count(queue, c) = Count(SubSeq(queue, 1, k), c)
                                 + Count(SubSeq(queue, k + 1, Len(queue)), c)
  BY <1>1, CountSplit
<1>4. Taken(queue) = SubSeq(queue, 1, k)
  BY DEF Taken
<1> HIDE DEF k
<1>5. Left(queue) = SubSeq(queue, k + 1, Len(queue))
  BY <1>2, <1>4 DEF Left
<1>6. queue # <<>> => SubSeq(queue, 1, k) # <<>>
  BY <1>1, <1>2, EmptyQueue
<1> QED
  BY <1>2, <1>3, <1>4, <1>5, <1>6

\* A flush, if it is due, takes clicks off the queue into the batch.
LEMMA FlushEffect ==
  ASSUME TypeOK, NEW queue \in Seq(Click), Flush(queue)
  PROVE  /\ pending' \in Seq(Click)
         /\ drain' \in Flushes
         /\ drain'.pc = "idle" <=> drain'.batch = <<>>
         /\ \/ drain' = drain
            \/ drain.pc = "idle" /\ drain'.pc = "nonce"
         /\ \A c : Count(pending', c) + Count(drain'.batch, c)
                     = Count(queue, c) + Count(drain.batch, c)
<1>1. CASE FlushDue(queue)
  <2>1. drain.batch = <<>> /\ queue # <<>> /\ drain.pc = "idle"
    BY <1>1 DEF FlushDue, TypeOK
  <2>2. drain' = [pc |-> "nonce", batch |-> Taken(queue), nonce |-> 0]
        /\ pending' = Left(queue)
    BY <1>1 DEF Flush
  <2>3. \A c : Count(drain.batch, c) = 0
    BY <2>1, CountEmpty
  <2>4. \A c : /\ Count(Taken(queue), c) \in Nat /\ Count(Left(queue), c) \in Nat
               /\ Count(queue, c) = Count(Taken(queue), c) + Count(Left(queue), c)
    BY TakenAndLeft, CountType
  <2>5. drain'.batch = Taken(queue) /\ drain'.pc = "nonce" /\ drain' \in Flushes
    BY <2>2, TakenAndLeft DEF Flushes
  <2>6. \A c : Count(pending', c) + Count(drain'.batch, c)
                 = Count(queue, c) + Count(drain.batch, c)
    <3> TAKE c
    <3>1. Count(drain.batch, c) = 0 /\ Count(drain'.batch, c) = Count(Taken(queue), c)
          /\ Count(pending', c) = Count(Left(queue), c)
      BY <2>2, <2>3, <2>5
    <3> QED
      BY <2>4, <3>1
  <2> QED
    BY <2>1, <2>2, <2>5, <2>6, TakenAndLeft
<1>2. CASE ~FlushDue(queue)
  BY <1>2 DEF Flush, TypeOK
<1> QED
  BY <1>1, <1>2

-----------------------------------------------------------------------------
(* Type correctness                                                        *)

\* The initial values have their types.
LEMMA InitTypes == Init => TypeOK
<1> SUFFICES ASSUME Init PROVE TypeOK
  OBVIOUS
<1>1. drain \in Flushes /\ drain.pc = "idle" /\ drain.batch = <<>>
  BY DEF Init, Idle, Flushes
<1>2. withdraw \in [Withdrawal -> Withdraws]
  BY DEF Init, Withdraws
<1>3. click \in [Click -> LeftAs \cup {"new", "open"}]
  BY DEF Init
<1>4. DOMAIN pool = {} /\ pool \in [DOMAIN pool -> Payload]
  BY DEF Init
<1>5. 0 \in 0 .. MaxTroubles /\ pending \in Seq(Click)
      /\ mined \in Seq([payload : Payload, ok : BOOLEAN])
  BY WalletAssumption DEF Init
<1> QED
  BY <1>1, <1>2, <1>3, <1>4, <1>5 DEF Init, TypeOK

\* The node takes a payload for some nonce.
LEMMA BroadcastTypes ==
  ASSUME TypeOK, NEW n \in Nat, NEW p \in Payload, Broadcast(n, p)
  PROVE  /\ DOMAIN pool' = DOMAIN pool \cup {n}
         /\ pool'[n] = p /\ \A m \in DOMAIN pool \ {n} : pool'[m] = pool[m]
         /\ DOMAIN pool' \subseteq Nat /\ pool' \in [DOMAIN pool' -> Payload]
         /\ displaced \subseteq displaced' /\ displaced' \subseteq Payload
         /\ n \in DOMAIN pool => pool[n] \in displaced'
         /\ mined' = mined /\ n >= Latest
  BY DEF TypeOK, Broadcast, PoolWith, CanAccept

\* The mempool drops what it has for a nonce.
LEMMA DropTypes ==
  ASSUME TypeOK, NEW n \in DOMAIN pool, pool' = Restrict(pool, DOMAIN pool \ {n})
  PROVE  /\ DOMAIN pool' = DOMAIN pool \ {n}
         /\ \A m \in DOMAIN pool' : pool'[m] = pool[m]
         /\ DOMAIN pool' \subseteq Nat /\ pool' \in [DOMAIN pool' -> Payload]
         /\ n \in Nat /\ pool[n] \in Payload
  BY DEF TypeOK, Restrict

\* A block takes the next transaction.
LEMMA MineTypes ==
  ASSUME TypeOK, Mine
  PROVE  /\ Latest \in DOMAIN pool /\ Latest \in Nat /\ Len(mined') = Latest + 1
         /\ \A i \in 1 .. Latest : mined'[i] = mined[i]
         /\ mined'[Latest + 1].payload = pool[Latest]
         /\ mined'[Latest + 1].ok = Succeeds(pool[Latest])
         /\ mined' \in Seq([payload : Payload, ok : BOOLEAN])
         /\ DOMAIN mined = 1 .. Latest /\ DOMAIN mined' = 1 .. Latest + 1
         /\ Succeeds(pool[Latest]) /\ pool[Latest] \in Click =>
              SessionOf[pool[Latest]] \in recorded'
         /\ recorded \subseteq recorded' /\ recorded' \subseteq {SessionOf[c] : c \in Click}
         /\ usedAuths' \subseteq {AuthOf[w] : w \in Withdrawal}
<1> DEFINE payload == pool[Latest]
           good == {payload} \cap {p \in {payload} : Succeeds(p)}
           tx == [payload |-> payload, ok |-> good # {}]
<1>1. /\ Latest \in DOMAIN pool
      /\ mined' = Append(mined, tx)
      /\ recorded' = recorded \cup {SessionOf[c] : c \in good \cap Click}
      /\ usedAuths' = usedAuths \cup {AuthOf[w] : w \in good \cap Withdrawal}
  BY DEF Mine
<1>2. good # {} <=> Succeeds(payload)
  OBVIOUS
<1>3. payload \in Payload
  BY <1>1 DEF TypeOK
<1>4. tx \in [payload : Payload, ok : BOOLEAN]
      /\ tx.payload = payload /\ tx.ok = Succeeds(payload)
  <2>1. Succeeds(payload) \in BOOLEAN
    BY DEF Succeeds, Duplicate
  <2> HIDE DEF payload, good
  <2> QED
    BY <1>2, <1>3, <2>1
<1>5. mined \in Seq([payload : Payload, ok : BOOLEAN])
  BY DEF TypeOK
<1> HIDE DEF tx, good
<1>6. /\ Latest \in Nat /\ Len(mined') = Latest + 1
      /\ \A i \in 1 .. Latest : mined'[i] = mined[i]
      /\ mined'[Latest + 1] = tx
      /\ mined' \in Seq([payload : Payload, ok : BOOLEAN])
      /\ DOMAIN mined = 1 .. Latest /\ DOMAIN mined' = 1 .. Latest + 1
  BY <1>1, <1>4, <1>5 DEF Latest
<1>7. Succeeds(payload) /\ payload \in Click => SessionOf[payload] \in recorded'
  BY <1>1, <1>2 DEF good
<1>8. /\ recorded \subseteq recorded' /\ recorded' \subseteq {SessionOf[c] : c \in Click}
      /\ usedAuths' \subseteq {AuthOf[w] : w \in Withdrawal}
  BY <1>1 DEF TypeOK
<1> QED
  BY <1>1, <1>4, <1>6, <1>7, <1>8

\* The click in hand leaves the batcher.
LEMMA LeaveTypes ==
  ASSUME TypeOK, drain.pc # "idle", NEW how \in LeftAs, Leave(how)
  PROVE  /\ click' \in [Click -> LeftAs \cup {"new", "open"}]
         /\ drain' \in Flushes
         /\ drain'.pc = "idle" <=> drain'.batch = <<>>
         /\ pending' = pending /\ UNCHANGED <<registryVars, withdraw>>
  BY NextClickEffect DEF TypeOK, Leave

\* The click in hand is queued again.
LEMMA RequeueTypes ==
  ASSUME TypeOK, drain.pc # "idle", Requeue
  PROVE  /\ pending' \in Seq(Click) /\ pending' = Append(pending, Current)
         /\ drain' \in Flushes
         /\ drain'.pc = "idle" <=> drain'.batch = <<>>
         /\ click' = click /\ UNCHANGED <<registryVars, withdraw>>
  BY DrainTypes, NextClickEffect DEF Requeue

\* The call moves on within a send.
LEMMA GoTypes ==
  ASSUME TypeOK, drain.pc # "idle", NEW pc \in {"estimate", "send", "confirm"},
         NEW n \in Nat, Go(pc, n)
  PROVE  /\ drain' \in Flushes
         /\ drain'.pc = pc /\ drain'.nonce = n /\ drain'.batch = drain.batch
         /\ drain'.pc = "idle" <=> drain'.batch = <<>>
         /\ UNCHANGED <<pending, click, registryVars, withdraw, troubles>>
  BY DEF TypeOK, Go, Flushes

\* An answer to a withdrawal.
LEMMA AnswerTypes ==
  ASSUME TypeOK, NEW w \in Withdrawal, NEW reply \in Replies \cup {"nonce"}, Answer(w, reply)
  PROVE  /\ withdraw' \in [Withdrawal -> Withdraws]
         /\ withdraw'[w].pc = reply
         /\ \A v \in Withdrawal \ {w} : withdraw'[v] = withdraw[v]
         /\ UNCHANGED <<clickVars, registryVars>>
<1>1. [pc |-> reply, nonce |-> 0] \in Withdraws
  BY DEF Withdraws
<1> QED
  BY <1>1 DEF TypeOK, Answer

\* A nonce read from the node.
LEMMA NonceTypes ==
  ASSUME TypeOK
  PROVE  /\ Latest \in Nat /\ \A n \in PendingCounts : n \in Nat
         /\ \A n \in Latest .. Latest + Cardinality(DOMAIN pool) : n \in Nat
<1>1. Latest \in Nat
  BY DEF TypeOK, Latest
<1> QED
  BY <1>1 DEF PendingCounts

\* What the process does on its own changes no chain; a trouble is counted.
LEMMA TroubleTypes ==
  ASSUME TypeOK, Trouble \/ UNCHANGED troubles
  PROVE  troubles' \in 0 .. MaxTroubles
  BY WalletAssumption DEF TypeOK, Trouble

\* The steps of the click batcher keep the types.
LEMMA BatcherTypes ==
  ASSUME TypeOK, (\E c \in Click : Enqueue(c)) \/ Tick \/ DrainStep
  PROVE  TypeOK'
<1> USE DEF registryVars, sentVars, NotBroadcast
<1>0. Click \subseteq Payload
  BY DEF Payload
<1>1. ASSUME NEW c \in Click, Enqueue(c) PROVE TypeOK'
  <2>1. Append(pending, c) \in Seq(Click) /\ click' \in [Click -> LeftAs \cup {"new", "open"}]
    BY <1>1 DEF TypeOK, Enqueue
  <2>2. /\ pending' \in Seq(Click) /\ drain' \in Flushes
        /\ drain'.pc = "idle" <=> drain'.batch = <<>>
    <3>1. CASE Flush(Append(pending, c))
      BY <2>1, <3>1, FlushEffect
    <3>2. CASE pending' = Append(pending, c) /\ UNCHANGED drain
      BY <2>1, <3>2 DEF TypeOK
    <3> QED
      BY <1>1, <3>1, <3>2 DEF Enqueue
  <2> QED
    BY <1>1, <2>1, <2>2 DEF TypeOK, Enqueue
<1>2. CASE Tick
  <2>1. /\ pending' \in Seq(Click) /\ drain' \in Flushes
        /\ drain'.pc = "idle" <=> drain'.batch = <<>>
    BY <1>2, FlushEffect, DrainTypes DEF Tick
  <2> QED
    BY <1>2, <2>1 DEF TypeOK, Tick
<1>3. CASE ReadNonce
  <2>1. PICK n \in PendingCounts : Go("estimate", n)
    BY <1>3 DEF ReadNonce
  <2>2. n \in Nat /\ drain.pc # "idle"
    BY <1>3, NonceTypes DEF ReadNonce, At
  <2> QED
    BY <1>3, <2>1, <2>2, GoTypes DEF TypeOK, ReadNonce
<1>4. CASE Estimate
  <2>1. drain.pc # "idle" /\ drain.nonce \in Nat /\ "duplicate" \in LeftAs
    BY <1>4, DrainTypes DEF Estimate, At, LeftAs
  <2>2. CASE Go("send", drain.nonce)
    BY <1>4, <2>1, <2>2, GoTypes DEF TypeOK, Estimate
  <2>3. CASE Leave("duplicate") /\ UNCHANGED troubles
    BY <1>4, <2>1, <2>3, LeaveTypes DEF TypeOK, Estimate
  <2>4. CASE Requeue /\ UNCHANGED troubles
    BY <1>4, <2>1, <2>4, RequeueTypes DEF TypeOK, Estimate
  <2> QED
    BY <1>4, <2>2, <2>3, <2>4 DEF Estimate
<1>5. CASE SendTaken
  <2>1. drain.pc # "idle" /\ drain.nonce \in Nat /\ Current \in Payload
    BY <1>0, <1>5, DrainTypes DEF SendTaken, At
  <2> QED
    BY <1>5, <2>1, GoTypes, BroadcastTypes DEF TypeOK, SendTaken
<1>6. CASE ReplyLost
  <2>1. drain.pc # "idle" /\ drain.nonce \in Nat /\ Current \in Payload
    BY <1>0, <1>6, DrainTypes DEF ReplyLost, At
  <2> QED
    BY <1>6, <2>1, RequeueTypes, BroadcastTypes, TroubleTypes DEF TypeOK, ReplyLost
<1>7. CASE SendRefused \/ CallFails
  <2>1. drain.pc # "idle" /\ Requeue /\ NotBroadcast /\ (Trouble \/ UNCHANGED troubles)
    BY <1>7 DEF SendRefused, CallFails, At
  <2> QED
    BY <2>1, RequeueTypes, TroubleTypes DEF TypeOK
<1>8. CASE ReceiptRead \/ NonceAdvanced \/ Timeout
  <2>1. /\ drain.pc # "idle" /\ NotBroadcast /\ UNCHANGED troubles
        /\ Requeue \/ \E how \in LeftAs : Leave(how)
    BY <1>8 DEF ReceiptRead, NonceAdvanced, Timeout, At, LeftAs
  <2> QED
    BY <2>1, RequeueTypes, LeaveTypes DEF TypeOK
<1> QED
  BY <1>1, <1>2, <1>3, <1>4, <1>5, <1>6, <1>7, <1>8 DEF DrainStep

\* The steps of a withdrawal keep the types.
LEMMA WithdrawTypes ==
  ASSUME TypeOK, NEW w \in Withdrawal, WithdrawStep(w)
  PROVE  TypeOK'
<1> USE DEF registryVars, clickVars, sentVars, NotBroadcast, Replies
<1>0. w \in Payload /\ withdraw[w] \in Withdraws /\ withdraw[w].nonce \in Nat
  BY DEF Payload, TypeOK, Withdraws
<1>1. CASE Preflight(w)
  <2>1. \E reply \in Replies \cup {"nonce"} : Answer(w, reply)
    BY <1>1 DEF Preflight
  <2> QED
    BY <1>1, <2>1, AnswerTypes DEF TypeOK, Preflight
<1>2. CASE WithdrawNonce(w)
  <2>1. PICK n \in PendingCounts : withdraw' = [withdraw EXCEPT ![w] = [pc |-> "send", nonce |-> n]]
    BY <1>2 DEF WithdrawNonce
  <2>2. [pc |-> "send", nonce |-> n] \in Withdraws
    BY NonceTypes DEF Withdraws
  <2>3. withdraw' \in [Withdrawal -> Withdraws]
    BY <2>1, <2>2 DEF TypeOK
  <2> QED
    BY <1>2, <2>3 DEF TypeOK, WithdrawNonce
<1>3. CASE WithdrawTaken(w)
  BY <1>0, <1>3, AnswerTypes, BroadcastTypes DEF TypeOK, WithdrawTaken
<1>4. CASE WithdrawRefused(w) \/ WithdrawFails(w)
  <2>1. Answer(w, "refused") /\ NotBroadcast /\ (Trouble \/ UNCHANGED troubles)
    BY <1>4 DEF WithdrawRefused, WithdrawFails
  <2> QED
    BY <2>1, AnswerTypes, TroubleTypes DEF TypeOK
<1>5. CASE WithdrawReplyLost(w)
  BY <1>0, <1>5, AnswerTypes, BroadcastTypes, TroubleTypes DEF TypeOK, WithdrawReplyLost
<1> QED
  BY <1>1, <1>2, <1>3, <1>4, <1>5 DEF WithdrawStep

\* What a restart interrupts are the sends of the click in hand and of the
\* withdrawals.
LEMMA SendTypes ==
  ASSUME TypeOK, NEW send \in SendsUnderWay
  PROVE  /\ send[1] \in Nat /\ send[2] \in Payload
         /\ \/ At("send") /\ send[1] = drain.nonce /\ send[2] = Current /\ Current \in Click
            \/ send[2] \in Withdrawal /\ withdraw[send[2]].pc = "send"
<1>1. CASE send \in {<<drain.nonce, c>> : c \in {d \in Click : At("send") /\ d = Current}}
  BY <1>1, DrainTypes DEF Payload
<1>2. CASE send \in {<<withdraw[w].nonce, w>> :
                        w \in {v \in Withdrawal : withdraw[v].pc = "send"}}
  <2>1. PICK w \in Withdrawal : withdraw[w].pc = "send" /\ send = <<withdraw[w].nonce, w>>
    BY <1>2
  <2>2. withdraw[w].nonce \in Nat
    BY DEF TypeOK, Withdraws
  <2> QED
    BY <2>1, <2>2 DEF Payload
<1> QED
  BY <1>1, <1>2 DEF SendsUnderWay

\* The steps of the chain, the settlements and a restart keep the types.
LEMMA OutsideTypes ==
  ASSUME TypeOK,
         \/ Mine \/ (\E n \in DOMAIN pool : Evict(n)) \/ (\E c \in Mortal : Turn(c))
         \/ Settle \/ Rest \/ Crash \/ UNCHANGED vars
  PROVE  TypeOK'
<1> USE DEF registryVars, clickVars, sentVars, NotBroadcast
<1>1. CASE Mine
  <2>1. /\ DOMAIN pool' \subseteq Nat /\ pool' \in [DOMAIN pool' -> Payload]
    BY <1>1, MineTypes, DropTypes DEF Mine
  <2> QED
    BY <1>1, <2>1, MineTypes DEF TypeOK, Mine
<1>2. ASSUME NEW n \in DOMAIN pool, Evict(n) PROVE TypeOK'
  BY <1>2, DropTypes, TroubleTypes DEF TypeOK, Evict
<1>3. ASSUME NEW c \in Mortal, Turn(c) PROVE TypeOK'
  BY <1>3, TroubleTypes DEF TypeOK, Turn
<1>4. CASE Settle
  <2>1. PICK n \in Nat : Broadcast(n, Settlement)
    BY <1>4, NonceTypes DEF Settle
  <2>2. Settlement \in Payload
    BY DEF Payload
  <2> QED
    BY <1>4, <2>1, <2>2, BroadcastTypes, TroubleTypes DEF TypeOK, Settle
<1>5. CASE Rest \/ UNCHANGED vars
  BY <1>5 DEF TypeOK, Rest, vars
<1>6. CASE Crash
  <2>1. /\ mined' = mined /\ DOMAIN pool' \subseteq Nat /\ pool' \in [DOMAIN pool' -> Payload]
        /\ displaced' \subseteq Payload
    <3>1. CASE UNCHANGED <<mined, pool, displaced>>
      BY <3>1 DEF TypeOK
    <3>2. ASSUME NEW send \in SendsUnderWay, Broadcast(send[1], send[2])
          PROVE  /\ mined' = mined
                 /\ DOMAIN pool' \subseteq Nat /\ pool' \in [DOMAIN pool' -> Payload]
                 /\ displaced' \subseteq Payload
      BY <3>2, SendTypes, BroadcastTypes
    <3> QED
      BY <1>6, <3>1, <3>2 DEF Crash
  <2>2. drain' \in Flushes /\ drain'.pc = "idle" /\ drain'.batch = <<>> /\ pending' \in Seq(Click)
    BY <1>6 DEF Crash, Idle, Flushes
  <2>3. click' \in [Click -> LeftAs \cup {"new", "open"}]
    BY <1>6 DEF Crash, TypeOK, LeftAs
  <2>4. withdraw' \in [Withdrawal -> Withdraws]
    <3>1. [pc |-> "lost", nonce |-> 0] \in Withdraws
      BY DEF Withdraws
    <3> QED
      BY <1>6, <3>1 DEF Crash, TypeOK
  <2> QED
    BY <1>6, <2>1, <2>2, <2>3, <2>4, TroubleTypes DEF TypeOK, Crash
<1> QED
  BY <1>1, <1>2, <1>3, <1>4, <1>5, <1>6

\* Every step keeps the types.
LEMMA TypeStep == TypeOK /\ [Next]_vars => TypeOK'
  BY BatcherTypes, WithdrawTypes, OutsideTypes DEF Next

\* Every variable keeps its type, and a flush that runs has a click in hand.
THEOREM TypeCorrect == Spec => []TypeOK
  BY InitTypes, TypeStep, PTL DEF Spec

-----------------------------------------------------------------------------
(* Every click is in one place                                             *)

\* The property in terms of counts.
LEMMA PlaceCounts ==
  ASSUME TypeOK
  PROVE  /\ ClickInOnePlace <=>
              \A c \in Click : Count(pending, c) + Count(drain.batch, c)
                                 = IF click[c] = "open" THEN 1 ELSE 0
         /\ \A c : Count(pending, c) \in Nat /\ Count(drain.batch, c) \in Nat
  BY DrainTypes, CountType DEF ClickInOnePlace, Count

\* The click in hand has not left, and is not in the queue.
LEMMA CurrentOpen ==
  ASSUME TypeOK, ClickInOnePlace, drain.pc # "idle"
  PROVE  /\ Current \in Click /\ click[Current] = "open"
         /\ Count(pending, Current) = 0 /\ Count(drain.batch, Current) = 1
<1>1. Current \in Click /\ Current \in ToSet(drain.batch) /\ drain.batch \in Seq(Click)
  BY DrainTypes DEF ToSet, Current
<1>2. Count(drain.batch, Current) # 0
  BY <1>1, CountType
<1> QED
  BY <1>1, <1>2, PlaceCounts

\* Leaving empties the click's place.
LEMMA LeavePlaces ==
  ASSUME TypeOK, TypeOK', ClickInOnePlace, drain.pc # "idle", NEW how \in LeftAs, Leave(how)
  PROVE  ClickInOnePlace'
<1> SUFFICES ASSUME NEW c \in Click
             PROVE  Count(pending', c) + Count(drain'.batch, c)
                      = IF click'[c] = "open" THEN 1 ELSE 0
  BY DrainTypes, CountType DEF ClickInOnePlace, Count
<1>1. Count(drain.batch, c) = Count(drain'.batch, c) + IF Current = c THEN 1 ELSE 0
  BY NextClickEffect DEF Leave
<1>2. pending' = pending /\ click' = [click EXCEPT ![Current] = how] /\ how # "open"
  BY DEF Leave, LeftAs
<1>3. Count(pending, c) + Count(drain.batch, c) = IF click[c] = "open" THEN 1 ELSE 0
  BY PlaceCounts
<1>4. Count(drain'.batch, c) \in Nat /\ drain'.batch \in Seq(Click)
  BY CountType DEF TypeOK, Flushes
<1>5. CASE Current = c
  <2>1. click'[c] = how
    BY <1>2, <1>5 DEF TypeOK
  <2> QED
    BY <1>1, <1>2, <1>4, <1>5, <2>1, CurrentOpen
<1>6. CASE Current # c
  <2>1. click'[c] = click[c]
    BY <1>2, <1>6 DEF TypeOK
  <2> QED
    BY <1>1, <1>2, <1>3, <1>4, <1>6, <2>1
<1> QED
  BY <1>5, <1>6

\* Queuing again moves the click from the batch to the queue's end.
LEMMA RequeuePlaces ==
  ASSUME TypeOK, TypeOK', ClickInOnePlace, drain.pc # "idle", Requeue
  PROVE  ClickInOnePlace'
<1> SUFFICES ASSUME NEW c \in Click
             PROVE  Count(pending', c) + Count(drain'.batch, c)
                      = IF click'[c] = "open" THEN 1 ELSE 0
  BY DrainTypes, CountType DEF ClickInOnePlace, Count
<1>1. Count(drain.batch, c) = Count(drain'.batch, c) + IF Current = c THEN 1 ELSE 0
  BY NextClickEffect DEF Requeue
<1>2. Count(pending', c) = Count(pending, c) + IF Current = c THEN 1 ELSE 0
  BY DrainTypes, CountAppend DEF Requeue
<1>3. Count(pending, c) + Count(drain.batch, c) = IF click[c] = "open" THEN 1 ELSE 0
  BY PlaceCounts
<1>4. Count(drain'.batch, c) \in Nat /\ Count(pending, c) \in Nat /\ click' = click
  <2>1. drain'.batch \in Seq(Click) /\ pending \in Seq(Click)
    BY DEF TypeOK, Flushes
  <2> QED
    BY <2>1, CountType DEF Requeue
<1> QED
  BY <1>1, <1>2, <1>3, <1>4

\* Every step keeps each click in its one place.
LEMMA PlaceStep ==
  ASSUME TypeOK, TypeOK', ClickInOnePlace, [Next]_vars
  PROVE  ClickInOnePlace'
<1> USE DEF clickVars
<1>1. ASSUME NEW c \in Click, Enqueue(c) PROVE ClickInOnePlace'
  <2> SUFFICES ASSUME NEW d \in Click
               PROVE  Count(pending', d) + Count(drain'.batch, d)
                        = IF click'[d] = "open" THEN 1 ELSE 0
    BY DrainTypes, CountType DEF ClickInOnePlace, Count
  <2> DEFINE queue == Append(pending, c)
  <2>1. /\ queue \in Seq(Click)
        /\ Count(queue, d) = Count(pending, d) + IF c = d THEN 1 ELSE 0
    BY DrainTypes, CountAppend
  <2>2. Count(pending', d) + Count(drain'.batch, d) = Count(queue, d) + Count(drain.batch, d)
    <3>1. CASE Flush(queue)
      BY <2>1, <3>1, FlushEffect
    <3>2. CASE pending' = queue /\ UNCHANGED drain
      BY <3>2
    <3> QED
      BY <1>1, <3>1, <3>2 DEF Enqueue
  <2>3. click[c] = "new" /\ click'[d] = IF c = d THEN "open" ELSE click[d]
    BY <1>1 DEF Enqueue, TypeOK
  <2>4. Count(pending, d) + Count(drain.batch, d) = IF click[d] = "open" THEN 1 ELSE 0
    BY PlaceCounts
  <2>5. Count(pending, d) \in Nat /\ Count(drain.batch, d) \in Nat
    BY PlaceCounts
  <2> HIDE DEF queue
  <2> QED
    BY <2>1, <2>2, <2>3, <2>4, <2>5
<1>2. CASE Tick
  <2>1. click' = click
        /\ \A c : Count(pending', c) + Count(drain'.batch, c)
                    = Count(pending, c) + Count(drain.batch, c)
    BY <1>2, DrainTypes, FlushEffect DEF Tick
  <2> QED
    BY <2>1 DEF ClickInOnePlace, Count
<1>3. ASSUME NEW pc, NEW n, Go(pc, n) PROVE ClickInOnePlace'
  <2>1. drain'.batch = drain.batch /\ pending' = pending /\ click' = click
    BY <1>3, DrainTypes DEF Go, Flushes
  <2> QED
    BY <2>1 DEF ClickInOnePlace
<1>4. CASE DrainStep
  <2>1. drain.pc # "idle"
    BY <1>4 DEF DrainStep, ReadNonce, Estimate, SendTaken, SendRefused, CallFails, ReplyLost,
                ReceiptRead, NonceAdvanced, Timeout, At
  <2>2. (\E pc, n : Go(pc, n)) \/ Requeue \/ \E how \in LeftAs : Leave(how)
    BY <1>4 DEF DrainStep, ReadNonce, Estimate, SendTaken, SendRefused, CallFails, ReplyLost,
                ReceiptRead, NonceAdvanced, Timeout, LeftAs
  <2> QED
    BY <1>3, <2>1, <2>2, RequeuePlaces, LeavePlaces
<1>5. CASE UNCHANGED clickVars
  BY <1>5 DEF ClickInOnePlace
<1>6. CASE Crash
  <2>1. pending' = <<>> /\ drain'.batch = <<>>
        /\ \A c \in Click : click'[c] # "open"
    BY <1>6 DEF Crash, Idle
  <2>2. \A c : Count(pending', c) = 0 /\ Count(drain'.batch, c) = 0
    BY <2>1, CountEmpty
  <2> QED
    BY <2>1, <2>2 DEF ClickInOnePlace, Count
<1>7. ASSUME NEW w \in Withdrawal, WithdrawStep(w) PROVE UNCHANGED clickVars
  BY <1>7 DEF WithdrawStep, Preflight, WithdrawNonce, WithdrawTaken, WithdrawRefused,
              WithdrawFails, WithdrawReplyLost, Answer
<1>8. CASE \/ Mine \/ (\E n \in DOMAIN pool : Evict(n)) \/ (\E c \in Mortal : Turn(c))
           \/ Settle \/ Rest \/ UNCHANGED vars
  BY <1>5, <1>8 DEF Mine, Evict, Turn, Settle, Rest, vars
<1> QED
  BY <1>1, <1>2, <1>4, <1>5, <1>6, <1>7, <1>8 DEF Next

\* At the start no click has been accepted.
LEMMA InitPlace == Init => ClickInOnePlace
<1> SUFFICES ASSUME Init, NEW c \in Click
             PROVE  Count(pending, c) + Count(drain.batch, c)
                      = IF click[c] = "open" THEN 1 ELSE 0
  BY DEF ClickInOnePlace, Count
<1>1. pending = <<>> /\ drain.batch = <<>> /\ click[c] = "new"
  BY DEF Init, Idle
<1> QED
  BY <1>1, CountEmpty

(***************************************************************************)
(* No click is lost or doubled between splice and push (clicks.mjs:61-74), *)
(* whatever fails and whenever a flush is started: one that was accepted   *)
(* and has not left is exactly once in the queue or in the batch.          *)
(***************************************************************************)
THEOREM ClickStaysInOnePlace == Spec => []ClickInOnePlace
<1>1. Init => TypeOK /\ ClickInOnePlace
  BY InitTypes, InitPlace
<1>2. TypeOK /\ ClickInOnePlace /\ [Next]_vars => (TypeOK /\ ClickInOnePlace)'
  BY TypeStep, PlaceStep
<1> QED
  BY <1>1, <1>2, PTL DEF Spec

-----------------------------------------------------------------------------
(* What the chain carries                                                  *)

(***************************************************************************)
(* The chain: the mempool holds no transaction of a nonce already mined,   *)
(* and the registry knows the session of every click it did not refuse.    *)
(***************************************************************************)
PoolAhead == \A n \in DOMAIN pool : n >= Latest

MinedRecorded ==
  \A i \in DOMAIN mined :
    mined[i].payload \in Click /\ mined[i].ok => Duplicate(mined[i].payload)

(***************************************************************************)
(* What submitWithdraw has not sent yet, the chain does not carry.         *)
(***************************************************************************)
NotSentYet ==
  \A w \in Withdrawal : withdraw[w].pc \in {"none", "nonce", "send"} => Carried(w) = {}

(***************************************************************************)
(* While confirmTx waits, the transaction of the click in hand is carried  *)
(* under the nonce it was sent with, or was dropped or replaced.           *)
(***************************************************************************)
Confirming(c) == At("confirm") /\ Current = c

ConfirmKnows ==
  \A c \in Click : Confirming(c) => drain.nonce \in Carried(c) \/ c \in displaced

(***************************************************************************)
(* A click whose sends were all answered and not reverted is carried       *)
(* once at most, and not before the one send that can be waited for.       *)
(***************************************************************************)
SentOnce ==
  \A c \in Click :
    \/ c \in unacked \/ Reverted(c)
    \/ /\ \A m, n \in Carried(c) : m = n
       /\ click[c] \in {"new", "open"} /\ ~Confirming(c) => Carried(c) = {}

\* What is so of a payload that a step does not send: the chain carries it
\* as before, or it was dropped or replaced.
Stays(p) ==
  /\ Carried(p)' \subseteq Carried(p)
  /\ p \in displaced' \/ Carried(p)' = Carried(p)

\* What only grows.
Grows ==
  /\ recorded \subseteq recorded' /\ displaced \subseteq displaced' /\ unacked \subseteq unacked'
  /\ \A p : Reverted(p) => Reverted(p)'

\* Nothing sent, dropped or mined.
LEMMA QuietStays ==
  ASSUME UNCHANGED <<mined, pool>>
  PROVE  /\ \A p : Stays(p) /\ (Reverted(p) => Reverted(p)')
         /\ PoolAhead => PoolAhead'
  BY DEF Stays, Carried, Reverted, Latest, PoolAhead

\* A broadcast adds one transaction, perhaps in the place of another.
LEMMA BroadcastStays ==
  ASSUME TypeOK, NEW n \in Nat, NEW p \in Payload, Broadcast(n, p)
  PROVE  /\ \A q : q # p => Stays(q)
         /\ \A q : Reverted(q) => Reverted(q)'
         /\ n \in Carried(p)' /\ Carried(p)' \subseteq Carried(p) \cup {n}
         /\ PoolAhead => PoolAhead'
<1>1. /\ DOMAIN pool' = DOMAIN pool \cup {n}
      /\ pool'[n] = p /\ \A m \in DOMAIN pool \ {n} : pool'[m] = pool[m]
      /\ n \in DOMAIN pool => pool[n] \in displaced'
      /\ mined' = mined /\ n >= Latest /\ Latest' = Latest
  BY BroadcastTypes DEF Latest
<1>2. ASSUME NEW q, q # p PROVE Stays(q)
  <2>1. Carried(q)' \subseteq Carried(q)
    BY <1>1, <1>2 DEF Carried
  <2>2. ASSUME q \notin displaced' PROVE Carried(q) \subseteq Carried(q)'
    BY <1>1, <1>2, <2>2 DEF Carried
  <2> QED
    BY <2>1, <2>2 DEF Stays
<1>3. n \in Carried(p)' /\ Carried(p)' \subseteq Carried(p) \cup {n}
  BY <1>1 DEF Carried
<1> QED
  BY <1>1, <1>2, <1>3 DEF Reverted, PoolAhead

\* A block moves a transaction from the mempool to the chain.
LEMMA MineStays ==
  ASSUME TypeOK, PoolAhead, MinedRecorded, Mine
  PROVE  /\ \A p : Stays(p) /\ (Reverted(p) => Reverted(p)')
         /\ PoolAhead' /\ MinedRecorded'
<1> DEFINE k == Latest
<1>0. pool' = Restrict(pool, DOMAIN pool \ {k})
  BY DEF Mine
<1>1. /\ k \in DOMAIN pool /\ k \in Nat /\ Latest' = k + 1
      /\ \A i \in 1 .. k : mined'[i] = mined[i]
      /\ mined'[k + 1].payload = pool[k]
      /\ mined'[k + 1].ok = Succeeds(pool[k])
      /\ DOMAIN mined = 1 .. k /\ DOMAIN mined' = 1 .. k + 1
      /\ Succeeds(pool[k]) /\ pool[k] \in Click => SessionOf[pool[k]] \in recorded'
      /\ recorded \subseteq recorded'
  BY MineTypes DEF Latest
<1>2. /\ DOMAIN pool' = DOMAIN pool \ {k} /\ DOMAIN pool \subseteq Nat
      /\ \A m \in DOMAIN pool' : pool'[m] = pool[m]
  BY <1>0, <1>1, DropTypes
<1>3. \A n \in DOMAIN pool : n >= k
  BY DEF PoolAhead
<1>4. Latest = k
  OBVIOUS
<1> HIDE DEF k
<1>5. ASSUME NEW p PROVE Carried(p)' = Carried(p)
  <2>1. \A n \in 0 .. k - 1 : mined'[n + 1] = mined[n + 1]
    BY <1>1
  <2>2. Carried(p)' = {n \in 0 .. k : mined'[n + 1].payload = p}
                        \cup {n \in DOMAIN pool' : pool'[n] = p}
    BY <1>1 DEF Carried
  <2>3. Carried(p) = {n \in 0 .. k - 1 : mined[n + 1].payload = p}
                       \cup {n \in DOMAIN pool : pool[n] = p}
    BY <1>4 DEF Carried
  <2>4. \A n \in 0 .. k : n \in 0 .. k - 1 \/ n = k
    BY <1>1
  <2>5. Carried(p)' \subseteq Carried(p)
    BY <1>1, <1>2, <2>1, <2>2, <2>3, <2>4
  <2>6. Carried(p) \subseteq Carried(p)'
    BY <1>1, <1>2, <2>1, <2>2, <2>3
  <2> QED
    BY <2>5, <2>6
<1>6. ASSUME NEW p, Reverted(p) PROVE Reverted(p)'
  BY <1>1, <1>6 DEF Reverted
<1>7. PoolAhead'
  BY <1>1, <1>2, <1>3 DEF PoolAhead
<1>8. MinedRecorded'
  <2> SUFFICES ASSUME NEW i \in 1 .. k + 1, mined'[i].payload \in Click, mined'[i].ok
               PROVE  SessionOf[mined'[i].payload] \in recorded'
    BY <1>1 DEF MinedRecorded, Duplicate
  <2>1. CASE i = k + 1
    BY <1>1, <2>1
  <2>2. CASE i # k + 1
    <3>1. i \in 1 .. k /\ mined'[i] = mined[i]
      BY <1>1, <2>2
    <3> QED
      BY <1>1, <3>1 DEF MinedRecorded, Duplicate
  <2> QED
    BY <2>1, <2>2
<1> QED
  BY <1>5, <1>6, <1>7, <1>8 DEF Stays

\* The mempool drops a transaction.
LEMMA EvictStays ==
  ASSUME TypeOK, NEW n \in DOMAIN pool, Evict(n)
  PROVE  /\ \A p : Stays(p) /\ (Reverted(p) => Reverted(p)')
         /\ PoolAhead => PoolAhead'
<1>1. /\ DOMAIN pool' = DOMAIN pool \ {n}
      /\ \A m \in DOMAIN pool' : pool'[m] = pool[m]
      /\ pool[n] \in displaced' /\ mined' = mined /\ Latest' = Latest
  BY DropTypes DEF Evict, Latest
<1>2. ASSUME NEW p PROVE Stays(p)
  <2>1. Carried(p)' \subseteq Carried(p)
    BY <1>1 DEF Carried
  <2>2. ASSUME p # pool[n] PROVE Carried(p) \subseteq Carried(p)'
    BY <1>1, <2>2 DEF Carried
  <2> QED
    BY <1>1, <2>1, <2>2 DEF Stays
<1> QED
  BY <1>1, <1>2 DEF Reverted, PoolAhead

WalletInv ==
  /\ TypeOK
  /\ ClickInOnePlace
  /\ PoolAhead
  /\ MinedRecorded
  /\ NotSentYet
  /\ AnswerMatchesChain
  /\ ConfirmKnows
  /\ LeavesRecorded
  /\ SentOnce

\* Nothing is known, sent or answered at the start.
LEMMA InitInv == Init => WalletInv
<1> SUFFICES ASSUME Init PROVE WalletInv
  OBVIOUS
<1>1. TypeOK /\ ClickInOnePlace
  BY InitTypes, InitPlace
<1>2. /\ mined = <<>> /\ Latest = 0 /\ DOMAIN mined = {} /\ DOMAIN pool = {} /\ drain.pc = "idle"
      /\ \A w \in Withdrawal : withdraw[w].pc = "none"
      /\ \A c \in Click : click[c] = "new"
  BY DEF Init, Latest, Idle
<1>3. \A p : Carried(p) = {}
  BY <1>2 DEF Carried
<1> QED
  BY <1>1, <1>2, <1>3
     DEF WalletInv, PoolAhead, MinedRecorded, NotSentYet, AnswerMatchesChain, ConfirmKnows,
         Confirming, At, LeavesRecorded, LeftAs, SentOnce

-----------------------------------------------------------------------------
(* The chain's part of the invariant                                       *)

\* Whatever is sent, dropped or mined, the chain's facts stand.
LEMMA ChainStep ==
  ASSUME WalletInv, [Next]_vars
  PROVE  PoolAhead' /\ MinedRecorded' /\ Grows
<1> USE DEF WalletInv, registryVars, sentVars, NotBroadcast
<1>1. ASSUME UNCHANGED mined, recorded \subseteq recorded' PROVE MinedRecorded'
  BY <1>1 DEF MinedRecorded, Duplicate
<1>2. ASSUME UNCHANGED <<mined, pool>>, recorded \subseteq recorded',
             displaced \subseteq displaced', unacked \subseteq unacked'
      PROVE  PoolAhead' /\ MinedRecorded' /\ Grows
  BY <1>1, <1>2, QuietStays DEF Grows
<1>3. ASSUME NEW n \in Nat, NEW p \in Payload, Broadcast(n, p), recorded \subseteq recorded',
             unacked \subseteq unacked'
      PROVE  PoolAhead' /\ MinedRecorded' /\ Grows
  BY <1>1, <1>3, BroadcastStays, BroadcastTypes DEF Grows
<1>4. ASSUME (\E c \in Click : Enqueue(c)) \/ Tick \/ DrainStep
      PROVE  PoolAhead' /\ MinedRecorded' /\ Grows
  <2>1. CASE (\E c \in Click : Enqueue(c)) \/ Tick
    BY <1>2, <2>1 DEF Enqueue, Tick
  <2>2. CASE SendTaken \/ ReplyLost
    <3>1. drain.nonce \in Nat /\ Current \in Payload
      BY <2>2, DrainTypes DEF SendTaken, ReplyLost, At, Payload
    <3> QED
      BY <1>3, <2>2, <3>1 DEF SendTaken, ReplyLost, Go, Requeue
  <2>3. CASE DrainStep /\ ~SendTaken /\ ~ReplyLost
    <3>1. NotBroadcast /\ UNCHANGED registryVars
      BY <2>3 DEF DrainStep, ReadNonce, Estimate, SendRefused, CallFails, ReceiptRead,
                  NonceAdvanced, Timeout, Go, Leave, Requeue
    <3> QED
      BY <1>2, <3>1
  <2> QED
    BY <1>4, <2>1, <2>2, <2>3
<1>5. ASSUME NEW w \in Withdrawal, WithdrawStep(w)
      PROVE  PoolAhead' /\ MinedRecorded' /\ Grows
  <2>1. CASE WithdrawTaken(w) \/ WithdrawReplyLost(w)
    <3>1. withdraw[w].nonce \in Nat /\ w \in Payload
      BY DEF TypeOK, Withdraws, Payload
    <3> QED
      BY <1>3, <2>1, <3>1 DEF WithdrawTaken, WithdrawReplyLost, Answer
  <2>2. CASE Preflight(w) \/ WithdrawNonce(w) \/ WithdrawRefused(w) \/ WithdrawFails(w)
    BY <1>2, <2>2 DEF Preflight, WithdrawNonce, WithdrawRefused, WithdrawFails, Answer
  <2> QED
    BY <1>5, <2>1, <2>2 DEF WithdrawStep
<1>6. ASSUME Mine PROVE PoolAhead' /\ MinedRecorded' /\ Grows
  BY <1>6, MineStays, MineTypes DEF Mine, Grows
<1>7. ASSUME NEW n \in DOMAIN pool, Evict(n) PROVE PoolAhead' /\ MinedRecorded' /\ Grows
  <2>1. UNCHANGED <<mined, recorded, unacked>> /\ displaced \subseteq displaced'
    BY <1>7 DEF Evict
  <2> QED
    BY <1>1, <1>7, <2>1, EvictStays DEF Grows
<1>8. ASSUME Settle PROVE PoolAhead' /\ MinedRecorded' /\ Grows
  <2>1. PICK n \in Nat : Broadcast(n, Settlement)
    BY <1>8, NonceTypes DEF Settle
  <2>2. Settlement \in Payload
    BY DEF Payload
  <2> QED
    BY <1>3, <1>8, <2>1, <2>2 DEF Settle
<1>9. ASSUME Crash PROVE PoolAhead' /\ MinedRecorded' /\ Grows
  <2>1. CASE UNCHANGED <<mined, pool, displaced>>
    BY <1>2, <1>9, <2>1 DEF Crash
  <2>2. CASE \E send \in SendsUnderWay : Broadcast(send[1], send[2])
    BY <1>3, <1>9, <2>2, SendTypes DEF Crash
  <2> QED
    BY <1>9, <2>1, <2>2 DEF Crash
<1>10. ASSUME (\E c \in Mortal : Turn(c)) \/ Rest \/ UNCHANGED vars
       PROVE  PoolAhead' /\ MinedRecorded' /\ Grows
  BY <1>2, <1>10 DEF Turn, Rest, vars
<1> QED
  BY <1>4, <1>5, <1>6, <1>7, <1>8, <1>9, <1>10 DEF Next

-----------------------------------------------------------------------------
(* The withdrawals' part of the invariant                                  *)

\* What one step can do to a withdrawal: nothing; move it on before or
\* without its send; send it; send it and lose the reply; forget it.
LEMMA WithdrawMoves ==
  ASSUME WalletInv, [Next]_vars, NEW w \in Withdrawal
  PROVE  \/ withdraw'[w] = withdraw[w] /\ Stays(w)
         \/ /\ withdraw[w].pc \in {"none", "nonce", "send"}
            /\ withdraw'[w].pc \in {"nonce", "send", "refused"}
            /\ Stays(w)
         \/ withdraw'[w].pc = "accepted" /\ Carried(w)' # {}
         \/ withdraw'[w].pc = "refused" /\ w \in unacked'
         \/ withdraw'[w].pc = "lost"
<1> USE DEF WalletInv, registryVars, sentVars, clickVars, NotBroadcast
<1>0. w \in Payload /\ w \notin Click /\ w # Settlement /\ withdraw[w].nonce \in Nat
  BY WalletAssumption DEF Payload, TypeOK, Withdraws
<1>1. ASSUME NEW n \in Nat, NEW p \in Payload \ {w}, Broadcast(n, p) PROVE Stays(w)
  BY <1>1, BroadcastStays
<1>2. ASSUME (\E c \in Click : Enqueue(c)) \/ Tick \/ DrainStep
      PROVE  withdraw' = withdraw /\ Stays(w)
  <2>1. CASE (\E c \in Click : Enqueue(c)) \/ Tick
    BY <2>1, QuietStays DEF Enqueue, Tick
  <2>2. CASE SendTaken \/ ReplyLost
    <3>1. drain.nonce \in Nat /\ Current \in Payload \ {w}
      BY <1>0, <2>2, DrainTypes DEF SendTaken, ReplyLost, At, Payload
    <3> QED
      BY <1>1, <2>2, <3>1 DEF SendTaken, ReplyLost, Go, Requeue
  <2>3. CASE DrainStep /\ ~SendTaken /\ ~ReplyLost
    <3>1. NotBroadcast /\ withdraw' = withdraw
      BY <2>3 DEF DrainStep, ReadNonce, Estimate, SendRefused, CallFails, ReceiptRead,
                  NonceAdvanced, Timeout, Go, Leave, Requeue
    <3> QED
      BY <3>1, QuietStays
  <2> QED
    BY <1>2, <2>1, <2>2, <2>3
<1>3. ASSUME NEW v \in Withdrawal \ {w}, WithdrawStep(v)
      PROVE  withdraw'[w] = withdraw[w] /\ Stays(w)
  <2>1. withdraw'[w] = withdraw[w]
    BY <1>3 DEF WithdrawStep, Preflight, WithdrawNonce, WithdrawTaken, WithdrawRefused,
                WithdrawFails, WithdrawReplyLost, Answer, TypeOK
  <2>2. CASE WithdrawTaken(v) \/ WithdrawReplyLost(v)
    <3>1. withdraw[v].nonce \in Nat /\ v \in Payload \ {w}
      BY DEF TypeOK, Withdraws, Payload
    <3> QED
      BY <1>1, <2>1, <2>2, <3>1 DEF WithdrawTaken, WithdrawReplyLost
  <2>3. CASE Preflight(v) \/ WithdrawNonce(v) \/ WithdrawRefused(v) \/ WithdrawFails(v)
    BY <2>1, <2>3, QuietStays DEF Preflight, WithdrawNonce, WithdrawRefused, WithdrawFails
  <2> QED
    BY <1>3, <2>2, <2>3 DEF WithdrawStep
<1>4. CASE WithdrawTaken(w)
  BY <1>0, <1>4, AnswerTypes, BroadcastStays DEF WithdrawTaken, Replies
<1>5. CASE WithdrawReplyLost(w)
  BY <1>5, AnswerTypes DEF WithdrawReplyLost, Replies
<1>6. CASE Preflight(w) \/ WithdrawNonce(w) \/ WithdrawRefused(w) \/ WithdrawFails(w)
  <2>1. /\ withdraw[w].pc \in {"none", "nonce", "send"}
        /\ withdraw'[w].pc \in {"nonce", "send", "refused"}
        /\ NotBroadcast
    BY <1>6 DEF Preflight, WithdrawNonce, WithdrawRefused, WithdrawFails, Answer, TypeOK
  <2> QED
    BY <2>1, QuietStays
<1>7. CASE Mine \/ (\E n \in DOMAIN pool : Evict(n))
  BY <1>7, MineStays, EvictStays DEF Mine, Evict
<1>8. CASE Settle
  <2>1. PICK n \in Nat : Broadcast(n, Settlement)
    BY <1>8, NonceTypes DEF Settle
  <2>2. Settlement \in Payload \ {w}
    BY <1>0 DEF Payload
  <2> QED
    BY <1>1, <1>8, <2>1, <2>2 DEF Settle
<1>9. CASE Crash
  <2>1. withdraw'[w] = IF withdraw[w].pc \in {"nonce", "send"}
                       THEN [pc |-> "lost", nonce |-> 0] ELSE withdraw[w]
    BY <1>9 DEF Crash
  <2>2. CASE UNCHANGED <<mined, pool, displaced>>
    BY <2>1, <2>2, QuietStays
  <2>3. ASSUME NEW send \in SendsUnderWay, Broadcast(send[1], send[2])
        PROVE  withdraw[w].pc = "send" \/ Stays(w)
    <3>1. send[1] \in Nat /\ send[2] \in Payload /\ (send[2] = w => withdraw[w].pc = "send")
      BY <1>0, SendTypes
    <3> QED
      BY <1>1, <2>3, <3>1
  <2> QED
    BY <1>9, <2>1, <2>2, <2>3 DEF Crash
<1>10. CASE (\E c \in Mortal : Turn(c)) \/ Rest \/ UNCHANGED vars
  BY <1>10, QuietStays DEF Turn, Rest, vars
<1> QED
  BY <1>2, <1>3, <1>4, <1>5, <1>6, <1>7, <1>8, <1>9, <1>10 DEF Next, WithdrawStep

\* What a user is told stays true.
LEMMA AnswerStep ==
  ASSUME WalletInv, [Next]_vars
  PROVE  NotSentYet' /\ AnswerMatchesChain'
<1> USE DEF WalletInv
<1>1. Grows
  BY ChainStep
<1>2. ASSUME NEW w \in Withdrawal
      PROVE  /\ withdraw'[w].pc \in {"none", "nonce", "send"} => Carried(w)' = {}
             /\ withdraw'[w].pc = "accepted" => Carried(w)' # {} \/ w \in displaced'
             /\ withdraw'[w].pc = "refused" => Carried(w)' = {} \/ w \in unacked'
  <2>1. CASE withdraw'[w] = withdraw[w] /\ Stays(w)
    BY <1>1, <2>1 DEF NotSentYet, AnswerMatchesChain, Stays, Grows
  <2>2. CASE /\ withdraw[w].pc \in {"none", "nonce", "send"}
             /\ withdraw'[w].pc \in {"nonce", "send", "refused"}
             /\ Stays(w)
    BY <2>2 DEF NotSentYet, Stays
  <2>3. CASE \/ withdraw'[w].pc = "accepted" /\ Carried(w)' # {}
             \/ withdraw'[w].pc = "refused" /\ w \in unacked'
             \/ withdraw'[w].pc = "lost"
    BY <2>3
  <2> QED
    BY <2>1, <2>2, <2>3, WithdrawMoves
<1> QED
  BY <1>2 DEF NotSentYet, AnswerMatchesChain

-----------------------------------------------------------------------------
(* The clicks' part of the invariant                                       *)

\* The cases of one step for a click: nothing it notices; ...
Undisturbed(c) ==
  /\ Stays(c)
  /\ \/ click'[c] = click[c]
     \/ click[c] = "new" /\ click'[c] = "open"
  /\ Confirming(c)' <=> Confirming(c)
  /\ Confirming(c) => drain'.nonce = drain.nonce

\* ... it is sent, once, and waited for; ...
Sent(c) ==
  /\ ~Confirming(c) /\ click[c] = "open" /\ click' = click
  /\ Confirming(c)'
  /\ drain'.nonce \in Carried(c)' /\ Carried(c)' \subseteq Carried(c) \cup {drain'.nonce}

\* ... it is queued again, before it was sent or because that was reverted,
\* or it was sent and the reply is lost; ...
QueuedAgain(c) ==
  /\ click' = click /\ click[c] = "open" /\ ~Confirming(c)'
  /\ \/ Stays(c) /\ ~Confirming(c)
     \/ Reverted(c)
     \/ c \in unacked'

\* ... it leaves the batcher; ...
Leaves(c) ==
  /\ Stays(c) /\ ~Confirming(c)'
  /\ \/ click'[c] = "duplicate" /\ Duplicate(c)
     \/ /\ click'[c] \in {"confirmed", "advanced"} /\ Confirming(c)
        /\ drain.nonce < Latest
        /\ click'[c] = "confirmed" =>
             mined[drain.nonce + 1].payload = c /\ mined[drain.nonce + 1].ok
     \/ click'[c] = "timeout" /\ Confirming(c)

\* ... or a restart forgets it, perhaps while it is being sent.
Forgotten(c) ==
  /\ click'[c] \notin {"new", "open"} /\ ~Confirming(c)'
  /\ click'[c] = "lost" \/ click'[c] = click[c]
  /\ \/ Stays(c)
     \/ /\ click[c] = "open" /\ click'[c] = "lost" /\ ~Confirming(c)
        /\ \E n : Carried(c)' \subseteq Carried(c) \cup {n}

\* The loop's end of a click: the others in the batch notice nothing.
LEMMA NextClickConfirms ==
  ASSUME TypeOK, drain.pc # "idle", NextClick
  PROVE  \A c : ~Confirming(c)'
  BY NextClickEffect DEF Confirming, At

\* One step is one of these for each click.
LEMMA ClickMoves ==
  ASSUME WalletInv, [Next]_vars, NEW c \in Click
  PROVE  Undisturbed(c) \/ Sent(c) \/ QueuedAgain(c) \/ Leaves(c) \/ Forgotten(c)
<1> USE DEF WalletInv, registryVars, sentVars, clickVars, NotBroadcast
<1>0. c \in Payload /\ c \notin Withdrawal /\ c # Settlement
  BY WalletAssumption DEF Payload
<1>1. ASSUME NEW n \in Nat, NEW p \in Payload \ {c}, Broadcast(n, p) PROVE Stays(c)
  BY <1>1, BroadcastStays
<1>2. ASSUME Stays(c), UNCHANGED clickVars PROVE Undisturbed(c)
  <2>1. drain' = drain /\ click' = click
    BY <1>2
  <2> QED
    BY <1>2, <2>1 DEF Undisturbed, Confirming, At, Current
<1>3. ASSUME NEW d \in Click, Enqueue(d) PROVE Undisturbed(c)
  <2>1. Stays(c)
    BY <1>3, QuietStays DEF Enqueue
  <2>2. \/ click'[c] = click[c]
        \/ click[c] = "new" /\ click'[c] = "open"
    BY <1>3 DEF Enqueue, TypeOK
  <2>3. drain' = drain \/ (drain.pc = "idle" /\ drain'.pc = "nonce")
    BY <1>3 DEF Enqueue, Flush, FlushDue
  <2>4. (Confirming(c)' <=> Confirming(c)) /\ (Confirming(c) => drain'.nonce = drain.nonce)
    BY <2>3 DEF Confirming, At, Current
  <2> QED
    BY <2>1, <2>2, <2>4 DEF Undisturbed
<1>4. CASE Tick
  <2>1. Stays(c) /\ click' = click
    BY <1>4, QuietStays DEF Tick
  <2>2. drain.pc = "idle" /\ drain'.pc = "nonce"
    BY <1>4 DEF Tick, Flush, FlushDue
  <2> QED
    BY <2>1, <2>2 DEF Undisturbed, Confirming, At
<1>5. ASSUME NEW pc \in {"estimate", "send"}, NEW n, drain.pc \in {"nonce", "estimate"},
             Go(pc, n), NotBroadcast
      PROVE  Undisturbed(c)
  <2>1. drain'.pc = pc /\ click' = click
    BY <1>5 DEF Go, TypeOK, Flushes
  <2> QED
    BY <1>5, <2>1, QuietStays DEF Undisturbed, Confirming, At
<1>6. ASSUME drain.pc # "idle", Requeue, NotBroadcast, drain.pc # "confirm" \/ Reverted(Current)
      PROVE  QueuedAgain(c) \/ Undisturbed(c)
  <2>1. click' = click /\ Stays(c) /\ ~Confirming(c)'
    BY <1>6, QuietStays, NextClickConfirms DEF Requeue
  <2>2. CASE c = Current
    BY <1>6, <2>1, <2>2, CurrentOpen DEF QueuedAgain, Confirming, At
  <2>3. CASE c # Current
    BY <2>1, <2>3 DEF Undisturbed, Confirming
  <2> QED
    BY <2>2, <2>3
<1>7. ASSUME drain.pc # "idle", NEW how \in LeftAs, Leave(how), NotBroadcast,
             \/ how = "duplicate" /\ Duplicate(Current)
             \/ /\ how \in {"confirmed", "advanced"} /\ At("confirm")
                /\ drain.nonce < Latest
                /\ how = "confirmed" =>
                     mined[drain.nonce + 1].payload = Current /\ mined[drain.nonce + 1].ok
             \/ how = "timeout" /\ At("confirm")
      PROVE  Leaves(c) \/ Undisturbed(c)
  <2>1. Stays(c) /\ (\A d : ~Confirming(d)') /\ click' = [click EXCEPT ![Current] = how]
    BY <1>7, QuietStays, NextClickConfirms DEF Leave
  <2>2. CASE c = Current
    <3>1. click'[c] = how
      BY <2>1, <2>2 DEF TypeOK
    <3> QED
      BY <1>7, <2>1, <2>2, <3>1 DEF Leaves, Confirming
  <2>3. CASE c # Current
    BY <2>1, <2>3 DEF Undisturbed, Confirming, TypeOK
  <2> QED
    BY <2>2, <2>3
<1>8. CASE SendTaken
  <2>1. drain.nonce \in Nat /\ Current \in Click /\ Current \in Payload /\ drain.pc = "send"
    BY <1>8, DrainTypes DEF SendTaken, At, Payload
  <2>2. /\ drain'.pc = "confirm" /\ drain'.nonce = drain.nonce /\ Current' = Current
        /\ click' = click /\ Broadcast(drain.nonce, Current)
    BY <1>8, <2>1, GoTypes DEF SendTaken, Current
  <2>3. CASE c = Current
    BY <2>1, <2>2, <2>3, BroadcastStays, CurrentOpen DEF Sent, Confirming, At
  <2>4. CASE c # Current
    BY <1>1, <2>1, <2>2, <2>4 DEF Undisturbed, Confirming, At
  <2> QED
    BY <2>3, <2>4
<1>9. CASE ReplyLost
  <2>1. drain.nonce \in Nat /\ Current \in Payload /\ drain.pc = "send"
    BY <1>9, DrainTypes DEF ReplyLost, At, Payload
  <2>2. click' = click /\ ~Confirming(c)' /\ Broadcast(drain.nonce, Current)
        /\ unacked' = unacked \cup {Current}
    BY <1>9, <2>1, NextClickConfirms DEF ReplyLost, Requeue
  <2>3. CASE c = Current
    BY <2>1, <2>2, <2>3, CurrentOpen DEF QueuedAgain
  <2>4. CASE c # Current
    BY <1>1, <2>1, <2>2, <2>4 DEF Undisturbed, Confirming, At
  <2> QED
    BY <2>3, <2>4
<1>10. CASE ReadNonce
  BY <1>5, <1>10 DEF ReadNonce, At
<1>11. CASE Estimate
  <2>1. drain.pc = "estimate" /\ NotBroadcast
    BY <1>11 DEF Estimate, At
  <2>2. CASE Go("send", drain.nonce)
    BY <1>5, <2>1, <2>2
  <2>3. CASE Duplicate(Current) /\ Leave("duplicate")
    BY <1>7, <2>1, <2>3 DEF LeftAs
  <2>4. CASE Requeue
    BY <1>6, <2>1, <2>4
  <2> QED
    BY <1>11, <2>2, <2>3, <2>4 DEF Estimate
<1>12. CASE SendRefused \/ CallFails
  <2>1. Requeue /\ NotBroadcast /\ drain.pc \in {"nonce", "estimate", "send"}
    BY <1>12 DEF SendRefused, CallFails, At
  <2> QED
    BY <1>6, <2>1
<1>13. CASE ReceiptRead
  <2>1. drain.pc = "confirm" /\ drain.nonce < Latest /\ drain.nonce \in Nat /\ Latest \in Nat
        /\ mined[drain.nonce + 1].payload = Current /\ NotBroadcast
    BY <1>13, DrainTypes, NonceTypes DEF ReceiptRead, HasReceipt, At
  <2>2. CASE mined[drain.nonce + 1].ok
    BY <1>7, <1>13, <2>1, <2>2 DEF ReceiptRead, LeftAs, At
  <2>3. CASE ~mined[drain.nonce + 1].ok
    <3>1. drain.nonce + 1 \in DOMAIN mined
      BY <2>1 DEF Latest, TypeOK
    <3>2. Reverted(Current)
      BY <2>1, <2>3, <3>1 DEF Reverted
    <3>3. Requeue
      BY <1>13, <2>3 DEF ReceiptRead
    <3> QED
      BY <1>6, <2>1, <3>2, <3>3
  <2> QED
    BY <2>2, <2>3
<1>14. CASE NonceAdvanced
  <2>1. drain.pc = "confirm" /\ drain.nonce < Latest /\ NotBroadcast /\ Leave("advanced")
    BY <1>14, DrainTypes, NonceTypes DEF NonceAdvanced, At
  <2> QED
    BY <1>7, <2>1 DEF At, LeftAs
<1>15. CASE Timeout
  BY <1>7, <1>15 DEF Timeout, At, LeftAs
<1>16. ASSUME NEW w \in Withdrawal, WithdrawStep(w) PROVE Undisturbed(c)
  <2>1. UNCHANGED clickVars
    BY <1>16 DEF WithdrawStep, Preflight, WithdrawNonce, WithdrawTaken, WithdrawRefused,
                 WithdrawFails, WithdrawReplyLost, Answer
  <2>2. CASE WithdrawTaken(w) \/ WithdrawReplyLost(w)
    <3>1. withdraw[w].nonce \in Nat /\ w \in Payload \ {c}
      BY <1>0 DEF TypeOK, Withdraws, Payload
    <3> QED
      BY <1>1, <1>2, <2>1, <2>2, <3>1 DEF WithdrawTaken, WithdrawReplyLost
  <2>3. CASE Preflight(w) \/ WithdrawNonce(w) \/ WithdrawRefused(w) \/ WithdrawFails(w)
    BY <1>2, <2>1, <2>3, QuietStays DEF Preflight, WithdrawNonce, WithdrawRefused, WithdrawFails
  <2> QED
    BY <1>16, <2>2, <2>3 DEF WithdrawStep
<1>17. CASE Mine \/ \E n \in DOMAIN pool : Evict(n)
  BY <1>2, <1>17, MineStays, EvictStays DEF Mine, Evict
<1>18. CASE Settle
  <2>1. PICK n \in Nat : Broadcast(n, Settlement)
    BY <1>18, NonceTypes DEF Settle
  <2>2. Settlement \in Payload \ {c}
    BY <1>0 DEF Payload
  <2> QED
    BY <1>1, <1>2, <1>18, <2>1, <2>2 DEF Settle
<1>19. CASE (\E d \in Mortal : Turn(d)) \/ Rest \/ UNCHANGED vars
  BY <1>2, <1>19, QuietStays DEF Turn, Rest, vars
<1>20. CASE Crash
  <2>1. click'[c] = IF click[c] = "open" THEN "lost" ELSE click[c]
    BY <1>20 DEF Crash
  <2>2. drain'.pc = "idle"
    BY <1>20 DEF Crash, Idle
  <2>3. CASE UNCHANGED <<mined, pool, displaced>>
    <3>1. Stays(c)
      BY <2>3, QuietStays
    <3> QED
      BY <2>1, <2>2, <3>1, CurrentOpen DEF Undisturbed, Forgotten, Confirming, At
  <2>4. ASSUME NEW send \in SendsUnderWay, Broadcast(send[1], send[2])
        PROVE  Undisturbed(c) \/ Forgotten(c)
    <3>1. send[1] \in Nat /\ send[2] \in Payload
          /\ (send[2] = c => drain.pc = "send" /\ Current = c)
      BY <1>0, SendTypes DEF At
    <3>2. CASE send[2] = c
      <4>1. click[c] = "open" /\ ~Confirming(c) /\ ~Confirming(c)'
        BY <2>2, <3>1, <3>2, CurrentOpen DEF Confirming, At
      <4>2. Carried(c)' \subseteq Carried(c) \cup {send[1]}
        BY <1>0, <2>4, <3>1, <3>2, BroadcastStays
      <4> QED
        BY <2>1, <4>1, <4>2 DEF Forgotten
    <3>3. CASE send[2] # c
      <4>1. Stays(c)
        BY <1>1, <2>4, <3>1, <3>3
      <4> QED
        BY <2>1, <2>2, <4>1, CurrentOpen DEF Undisturbed, Forgotten, Confirming, At
    <3> QED
      BY <3>2, <3>3
  <2> QED
    BY <1>20, <2>3, <2>4 DEF Crash
<1> QED
  BY <1>3, <1>4, <1>8, <1>9, <1>10, <1>11, <1>12, <1>13, <1>14, <1>15, <1>16, <1>17, <1>18,
     <1>19, <1>20 DEF Next, DrainStep

\* What confirmTx relies on: the transaction waited for is where it was sent.
LEMMA ConfirmStep ==
  ASSUME WalletInv, [Next]_vars
  PROVE  ConfirmKnows'
<1> SUFFICES ASSUME NEW c \in Click, Confirming(c)'
             PROVE  drain'.nonce \in Carried(c)' \/ c \in displaced'
  BY DEF ConfirmKnows
<1>1. Grows
  BY ChainStep
<1>2. CASE Undisturbed(c)
  BY <1>1, <1>2 DEF WalletInv, ConfirmKnows, Undisturbed, Stays, Grows
<1>3. CASE Sent(c)
  BY <1>3 DEF Sent
<1>4. CASE QueuedAgain(c) \/ Leaves(c) \/ Forgotten(c)
  BY <1>4 DEF QueuedAgain, Leaves, Forgotten
<1> QED
  BY <1>2, <1>3, <1>4, ClickMoves

\* A nonce that has been used is a mined transaction's: the click's own,
\* which the registry recorded or reverted, unless it was replaced.
LEMMA AdvancedMeansMined ==
  ASSUME WalletInv, NEW c \in Click, Confirming(c), drain.nonce < Latest, c \notin displaced
  PROVE  Duplicate(c) \/ Reverted(c)
<1> USE DEF WalletInv
<1>1. drain.nonce \in Nat /\ Latest \in Nat /\ drain.nonce \in Carried(c)
  BY DrainTypes, NonceTypes DEF ConfirmKnows
<1>2. drain.nonce \notin DOMAIN pool
  BY <1>1 DEF PoolAhead
<1>3. mined[drain.nonce + 1].payload = c
  BY <1>1, <1>2 DEF Carried
<1>4. drain.nonce + 1 \in DOMAIN mined
  BY <1>1 DEF TypeOK, Latest
<1> QED
  BY <1>3, <1>4 DEF MinedRecorded, Reverted

\* What has left the batcher stays recorded, reverted, displaced or carried;
\* what leaves now is one of these.
LEMMA LeavesStep ==
  ASSUME WalletInv, [Next]_vars
  PROVE  LeavesRecorded'
<1> USE DEF WalletInv
<1> SUFFICES ASSUME NEW c \in Click, click'[c] \in LeftAs \ {"lost"}
             PROVE  \/ Duplicate(c)'
                    \/ /\ click'[c] \in {"advanced", "timeout"}
                       /\ c \in displaced' \/ Reverted(c)'
                    \/ click'[c] = "timeout" /\ Carried(c)' # {}
  BY DEF LeavesRecorded
<1>1. /\ c \in displaced => c \in displaced'
      /\ Reverted(c) => Reverted(c)'
      /\ Duplicate(c) => Duplicate(c)'
  BY ChainStep DEF Grows, Duplicate
<1>2. ASSUME Stays(c), click'[c] = click[c]
      PROVE  \/ Duplicate(c)'
             \/ /\ click'[c] \in {"advanced", "timeout"}
                /\ c \in displaced' \/ Reverted(c)'
             \/ click'[c] = "timeout" /\ Carried(c)' # {}
  BY <1>1, <1>2 DEF LeavesRecorded, Stays
<1>3. CASE Undisturbed(c)
  BY <1>2, <1>3 DEF Undisturbed, LeftAs
<1>4. CASE Sent(c)
  BY <1>4 DEF Sent, LeftAs
<1>5. CASE QueuedAgain(c)
  BY <1>5 DEF QueuedAgain, LeftAs
<1>6. CASE Leaves(c)
  <2>1. CASE click'[c] = "duplicate"
    BY <1>1, <1>6, <2>1 DEF Leaves
  <2>2. CASE click'[c] = "confirmed"
    <3>1. /\ Confirming(c) /\ drain.nonce < Latest
          /\ mined[drain.nonce + 1].payload = c /\ mined[drain.nonce + 1].ok
      BY <1>6, <2>2 DEF Leaves
    <3>2. drain.nonce + 1 \in DOMAIN mined
      BY <3>1, DrainTypes, NonceTypes DEF TypeOK, Latest
    <3> QED
      BY <1>1, <3>1, <3>2 DEF MinedRecorded
  <2>3. CASE click'[c] = "advanced"
    BY <1>1, <1>6, <2>3, AdvancedMeansMined DEF Leaves
  <2>4. CASE click'[c] = "timeout"
    BY <1>1, <1>6, <2>4 DEF Leaves, ConfirmKnows, Stays
  <2> QED
    BY <2>1, <2>2, <2>3, <2>4 DEF LeftAs
<1>7. CASE Forgotten(c)
  BY <1>2, <1>7 DEF Forgotten
<1> QED
  BY <1>3, <1>4, <1>5, <1>6, <1>7, ClickMoves

\* A click is sent again only after a send that reverted or lost its reply.
LEMMA SentOnceStep ==
  ASSUME WalletInv, [Next]_vars
  PROVE  SentOnce'
<1> USE DEF WalletInv
<1> SUFFICES ASSUME NEW c \in Click, c \notin unacked', ~Reverted(c)'
             PROVE  /\ \A m, n \in Carried(c)' : m = n
                    /\ click'[c] \in {"new", "open"} /\ ~Confirming(c)' => Carried(c)' = {}
  BY DEF SentOnce
<1>1. c \notin unacked /\ ~Reverted(c)
  BY ChainStep DEF Grows
<1>2. /\ \A m, n \in Carried(c) : m = n
      /\ click[c] \in {"new", "open"} /\ ~Confirming(c) => Carried(c) = {}
  BY <1>1 DEF SentOnce
<1>3. CASE Undisturbed(c)
  BY <1>2, <1>3 DEF Undisturbed, Stays
<1>4. CASE Sent(c)
  BY <1>2, <1>4 DEF Sent
<1>5. CASE QueuedAgain(c)
  BY <1>1, <1>2, <1>5 DEF QueuedAgain, Stays
<1>6. CASE Leaves(c)
  BY <1>2, <1>6 DEF Leaves, Stays
<1>7. CASE Forgotten(c)
  BY <1>2, <1>7 DEF Forgotten, Stays
<1> QED
  BY <1>3, <1>4, <1>5, <1>6, <1>7, ClickMoves

\* Every step keeps the invariant.
LEMMA InvStep == WalletInv /\ [Next]_vars => WalletInv'
<1> SUFFICES ASSUME WalletInv, [Next]_vars PROVE WalletInv'
  OBVIOUS
<1>1. TypeOK'
  BY TypeStep DEF WalletInv
<1>2. ClickInOnePlace'
  BY <1>1, PlaceStep DEF WalletInv
<1> QED
  BY <1>1, <1>2, ChainStep, AnswerStep, ConfirmStep, LeavesStep, SentOnceStep DEF WalletInv

\* The inductive invariant holds in every state of every behaviour.
THEOREM WalletInvariant == Spec => []WalletInv
  BY InitInv, InvStep, PTL DEF Spec

-----------------------------------------------------------------------------
(* The properties                                                          *)

(***************************************************************************)
(* What a user is told of a withdrawal (withdraw.mjs) is what the chain    *)
(* has, whatever the other senders on the wallet did to its nonce.         *)
(***************************************************************************)
THEOREM AnswersMatchTheChain == Spec => []AnswerMatchesChain
  BY WalletInvariant, PTL DEF WalletInv

(***************************************************************************)
(* A click that leaves the batcher is recorded by the registry, though     *)
(* confirmTx takes an advanced nonce and a timeout for success, up to the  *)
(* exceptions LeavesRecorded names.                                        *)
(***************************************************************************)
THEOREM ClicksThatLeaveAreRecorded == Spec => []LeavesRecorded
  BY WalletInvariant, PTL DEF WalletInv

(***************************************************************************)
(* A click goes out in two transactions only when the reply to one was     *)
(* lost or one reverted.                                                   *)
(***************************************************************************)
THEOREM ResentOnlyAfterFailure == Spec => []ResentAfterFailure
<1>1. ASSUME NEW S, \A m, n \in S : m = n PROVE ~(Cardinality(S) > 1)
  <2>1. CASE S = {}
    BY <2>1, FS_EmptySet
  <2>2. CASE S # {}
    <3>1. PICK m \in S : S = {m}
      BY <1>1, <2>2
    <3>2. Cardinality({m}) = 1
      BY FS_Singleton
    <3> QED
      BY <3>1, <3>2
  <2> QED
    BY <2>1, <2>2
<1>2. WalletInv => ResentAfterFailure
  BY <1>1 DEF WalletInv, SentOnce, ResentAfterFailure
<1> QED
  BY <1>2, WalletInvariant, PTL
=============================================================================
