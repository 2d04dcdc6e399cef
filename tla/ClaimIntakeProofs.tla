------------------------- MODULE ClaimIntakeProofs -------------------------
(***************************************************************************)
(* Theorems about ClaimIntake, for any posts, consoles, batch sizes and    *)
(* numbers of restarts.                                                    *)
(*                                                                         *)
(* What the properties share is where a batch can be while its POST is in  *)
(* a given state (Placed), and that an approve call that has been awaiting *)
(* the co-signer still means the entry it looked up (CallsKnow).           *)
(***************************************************************************)
EXTENDS ClaimIntake, CollectionProofs

-----------------------------------------------------------------------------
(* Type correctness                                                        *)

\* What approve has in hand is nothing or one batch.
LEMMA CallTypes ==
  ASSUME TypeOK
  PROVE  /\ approving \in [Console -> Calls]
         /\ NoCall \in Calls
         /\ \A c \in Console : \A r \in approving[c].batch :
              r \in Request /\ approving[c].batch = {r}
<1>1. approving \in [Console -> Calls]
  BY DEF TypeOK
<1>2. NoCall \in Calls
  BY DEF NoCall, Calls
<1>3. ASSUME NEW c \in Console, NEW r \in approving[c].batch
      PROVE  r \in Request /\ approving[c].batch = {r}
  <2>1. approving[c].batch \in {{}} \cup {{q} : q \in Request}
    BY <1>1 DEF Calls
  <2> QED
    BY <2>1
<1> QED
  BY <1>1, <1>2, <1>3

\* What is held are batches of requests, under positive ids; removing an
\* entry leaves the others as they are.
LEMMA HeldTypes ==
  ASSUME TypeOK
  PROVE  /\ Held \subseteq Request
         /\ \A id \in DOMAIN pendingApproval :
              id \in Nat \ {0} /\ pendingApproval[id] \in Request
         /\ \A id : /\ DOMAIN Without(id) = DOMAIN pendingApproval \ {id}
                    /\ \A i \in DOMAIN Without(id) : Without(id)[i] = pendingApproval[i]
                    /\ Without(id) \in [DOMAIN Without(id) -> Request]
  BY DEF TypeOK, Held, Without, Restrict

\* The initial values have their types.
LEMMA InitTypes == Init => TypeOK
<1> SUFFICES ASSUME Init PROVE TypeOK
  OBVIOUS
<1>1. pending \in Seq(Request) /\ group \in Seq(Request) /\ Len(group) = 0
  BY DEF Init
<1>2. approving \in [Console -> Calls]
  BY DEF Init, NoCall, Calls
<1>3. DOMAIN pendingApproval = {} /\ pendingApproval \in [DOMAIN pendingApproval -> Request]
  BY DEF Init, Empty
<1>4. Len(group) <= CLAIM_BATCH_SIZE /\ 0 \in 0 .. MaxRestarts /\ 1 \in Nat \ {0}
  BY <1>1, IntakeAssumption
<1> QED
  BY <1>1, <1>2, <1>3, <1>4, IntakeAssumption DEF Init, TypeOK, PostStates

\* A batch queued by Queue is a request's.
LEMMA QueueTypes ==
  ASSUME TypeOK, NEW r \in Request, Queue(r)
  PROVE  /\ advSigned' \subseteq Request /\ relaySigned' \subseteq Request
         /\ pending' \in Seq(Request) /\ queued' \in [Request -> Nat]
         /\ group' = group /\ closed' = closed
  BY DEF TypeOK, Queue

\* The steps of a POST keep the types.
LEMMA PostTypes ==
  ASSUME TypeOK, NEW r \in Request,
         Refuse(r) \/ Hold(r) \/ PostCosigning(r) \/ PostQueued(r) \/ PostRefused(r)
  PROVE  TypeOK'
<1> USE DEF PostStates
<1>1. CASE Refuse(r) \/ PostRefused(r)
  <2>1. /\ \E s \in PostStates : post' = [post EXCEPT ![r] = s]
        /\ UNCHANGED <<manual, signVars, queueVars, heldVars, consoleVars, historyVars>>
    BY <1>1 DEF Refuse, PostRefused
  <2>2. post' \in [Request -> PostStates]
    BY <2>1 DEF TypeOK
  <2> QED
    BY <2>1, <2>2 DEF TypeOK, signVars, queueVars, heldVars, consoleVars, historyVars
<1>2. CASE Hold(r)
  <2>1. nextId \in Nat \ {0} /\ nextId' = nextId + 1
    BY <1>2 DEF TypeOK, Hold
  <2>2. /\ DOMAIN pendingApproval' \subseteq 1 .. nextId' - 1
        /\ pendingApproval' \in [DOMAIN pendingApproval' -> Request]
    BY <1>2, <2>1 DEF TypeOK, Hold, HoldAs
  <2>3. listed' \subseteq (Nat \ {0}) \X Request
    BY <1>2, <2>1 DEF TypeOK, Hold, HoldAs
  <2>4. /\ post' \in [Request -> PostStates]
        /\ UNCHANGED <<manual, signVars, queueVars, approving, historyVars>>
    BY <1>2 DEF TypeOK, Hold, HoldAs
  <2> QED
    BY <2>1, <2>2, <2>3, <2>4 DEF TypeOK, signVars, queueVars, historyVars
<1>3. CASE PostCosigning(r)
  BY <1>3 DEF TypeOK, PostCosigning, CosignStart, queueVars, heldVars, consoleVars,
              historyVars
<1>4. CASE PostQueued(r)
  BY <1>4, QueueTypes DEF TypeOK, PostQueued, heldVars, consoleVars, historyVars
<1> QED
  BY <1>1, <1>2, <1>3, <1>4

\* The steps of the operator console keep the types.
LEMMA ConsoleTypes ==
  ASSUME TypeOK,
         \/ SetSigningMode
         \/ \E c \in Console : \/ \E id \in DOMAIN pendingApproval : ApproveStart(c, id)
                               \/ ApproveQueued(c) \/ ApproveFails(c)
         \/ \E id \in DOMAIN pendingApproval : Reject(id)
  PROVE  TypeOK'
<1> USE DEF PostStates
<1>1. CASE SetSigningMode
  BY <1>1 DEF TypeOK, SetSigningMode, signVars, queueVars, heldVars, consoleVars,
              historyVars
<1>2. ASSUME NEW c \in Console, NEW id \in DOMAIN pendingApproval, ApproveStart(c, id)
      PROVE  TypeOK'
  <2> DEFINE r == pendingApproval[id]
  <2>1. r \in Request /\ id \in Nat
    BY HeldTypes
  <2>2. approving' \in [Console -> Calls]
    BY <1>2, <2>1, CallTypes DEF ApproveStart, Calls
  <2>3. relaySigned' \subseteq Request /\ overlapped' \subseteq Request /\ mistaken' \in BOOLEAN
    BY <1>2, <2>1 DEF TypeOK, ApproveStart, CosignStart, Decide
  <2> QED
    BY <1>2, <2>2, <2>3 DEF TypeOK, ApproveStart, CosignStart, queueVars, heldVars
<1>3. ASSUME NEW c \in Console, ApproveQueued(c) \/ ApproveFails(c)
      PROVE  TypeOK'
  <2>1. PICK r \in approving[c].batch :
          /\ pendingApproval' = Without(approving[c].id)
          /\ ApproveEnds(c)
          /\ \/ Queue(r) /\ UNCHANGED failed
             \/ failed' = failed \cup {r} /\ UNCHANGED <<signVars, queueVars>>
    BY <1>3 DEF ApproveQueued, ApproveFails
  <2>2. r \in Request
    BY CallTypes
  <2>3. approving' \in [Console -> Calls]
    BY <2>1, CallTypes DEF ApproveEnds
  <2>4. /\ DOMAIN pendingApproval' \subseteq 1 .. nextId' - 1
        /\ pendingApproval' \in [DOMAIN pendingApproval' -> Request]
    BY <2>1, HeldTypes DEF ApproveEnds, TypeOK
  <2> QED
    BY <2>1, <2>2, <2>3, <2>4, QueueTypes
       DEF TypeOK, ApproveEnds, signVars, queueVars
<1>4. ASSUME NEW id \in DOMAIN pendingApproval, Reject(id)
      PROVE  TypeOK'
  <2>1. /\ DOMAIN pendingApproval' \subseteq 1 .. nextId' - 1
        /\ pendingApproval' \in [DOMAIN pendingApproval' -> Request]
    BY <1>4, HeldTypes DEF Reject, TypeOK
  <2>2. declined' \subseteq Request /\ mistaken' \in BOOLEAN
    BY <1>4, HeldTypes DEF Reject, Decide, TypeOK
  <2> QED
    BY <1>4, <2>1, <2>2 DEF TypeOK, Reject, signVars, queueVars, consoleVars
<1> QED
  BY <1>1, <1>2, <1>3, <1>4

\* What the pump does with the queue keeps every batch in it, in the group
\* or among the closed ones.
LEMMA PumpMoves ==
  ASSUME TypeOK, PumpTakes \/ PumpReturns \/ PumpSends
  PROVE  /\ pending' \in Seq(Request)
         /\ group' \in Seq(Request) /\ Len(group') <= CLAIM_BATCH_SIZE
         /\ closed \subseteq closed' /\ closed' \subseteq Request
         /\ ToSet(pending) \cup ToSet(group) \subseteq
              ToSet(pending') \cup ToSet(group') \cup closed'
<1>0. /\ pending \in Seq(Request) /\ group \in Seq(Request) /\ closed \subseteq Request
      /\ Len(group) <= CLAIM_BATCH_SIZE /\ CLAIM_BATCH_SIZE \in Nat
  BY IntakeAssumption DEF TypeOK
<1>1. ToSet(group) \subseteq Request /\ Len(<<>>) = 0 /\ <<>> \in Seq(Request)
  BY <1>0, ToSetType
<1>2. CASE PumpTakes
  <2>1. PICK k \in 1 .. Len(pending) :
          /\ k <= CLAIM_BATCH_SIZE
          /\ group' = SubSeq(pending, 1, k)
          /\ pending' = SubSeq(pending, k + 1, Len(pending))
    BY <1>2 DEF PumpTakes
  <2>2. k \in 0 .. Len(pending)
    OBVIOUS
  <2>3. group' \in Seq(Request) /\ pending' \in Seq(Request) /\ Len(group') = k
    BY <1>0, <2>1, <2>2, SplitAt
  <2>4. ToSet(pending) = ToSet(group') \cup ToSet(pending')
    BY <1>0, <2>1, <2>2, ToSetSplit
  <2> QED
    BY <1>0, <1>2, <2>1, <2>3, <2>4, ToSetEmpty DEF PumpTakes
<1>3. CASE PumpReturns
  <2>1. CASE pending' = group \o pending /\ UNCHANGED closed
    BY <1>0, <1>1, <1>3, <2>1, ToSetConcat DEF PumpReturns
  <2>2. ASSUME NEW kept \in SUBSET ToSet(group),
               NEW back \in BoundedSeq(kept, CLAIM_BATCH_SIZE),
               IsSelection(back, group, kept),
               pending' = pending \o back,
               closed' = closed \cup (ToSet(group) \ kept)
        PROVE  /\ pending' \in Seq(Request)
               /\ closed \subseteq closed' /\ closed' \subseteq Request
               /\ ToSet(pending) \cup ToSet(group) \subseteq ToSet(pending') \cup closed'
    <3>1. back \in Seq(Request)
      BY <1>0, <1>1 DEF BoundedSeq, SeqOf
    <3>2. ToSet(back) = ToSet(group) \cap kept
      BY <2>2, ToSetSelection
    <3>3. ToSet(pending') = ToSet(pending) \cup ToSet(back)
      BY <1>0, <2>2, <3>1, ToSetConcat
    <3> QED
      BY <1>0, <1>1, <2>2, <3>1, <3>2, <3>3
  <2>3. group' = <<>>
    BY <1>3 DEF PumpReturns
  <2>4. CASE \E kept \in SUBSET ToSet(group) :
             \E back \in BoundedSeq(kept, CLAIM_BATCH_SIZE) :
               /\ IsSelection(back, group, kept)
               /\ pending' = pending \o back
               /\ closed' = closed \cup (ToSet(group) \ kept)
    <3>1. /\ pending' \in Seq(Request)
          /\ closed \subseteq closed' /\ closed' \subseteq Request
          /\ ToSet(pending) \cup ToSet(group) \subseteq ToSet(pending') \cup closed'
      BY <2>2, <2>4
    <3> QED
      BY <1>0, <1>1, <2>3, <3>1
  <2> QED
    BY <1>3, <2>1, <2>4 DEF PumpReturns
<1>4. CASE PumpSends
  BY <1>0, <1>1, <1>4 DEF PumpSends
<1> QED
  BY <1>2, <1>3, <1>4

\* The steps of the pump keep the types.
LEMMA PumpTypes ==
  ASSUME TypeOK, PumpTakes \/ PumpReturns \/ PumpSends
  PROVE  TypeOK'
<1>1. PumpUnchanged
  BY DEF PumpTakes, PumpReturns, PumpSends
<1> QED
  BY <1>1, PumpMoves
     DEF TypeOK, PumpUnchanged, signVars, heldVars, consoleVars, historyVars

\* A restart keeps the types.
LEMMA RestartTypes ==
  ASSUME TypeOK, Restart
  PROVE  TypeOK'
<1>1. approving' \in [Console -> Calls]
  BY CallTypes DEF Restart
<1>2. post' \in [Request -> PostStates]
  BY DEF Restart, TypeOK, PostStates
<1>3. pending' \in Seq(Request) /\ group' \in Seq(Request) /\ Len(group') = 0
  BY DEF Restart
<1>4. DOMAIN pendingApproval' = {} /\ pendingApproval' \in [DOMAIN pendingApproval' -> Request]
  BY DEF Restart, Empty
<1>5. restarts' \in 0 .. MaxRestarts
  BY IntakeAssumption DEF Restart, TypeOK
<1> QED
  BY <1>1, <1>2, <1>3, <1>4, <1>5, IntakeAssumption DEF TypeOK, Restart, signVars

\* Every step keeps the types.
LEMMA TypeStep == TypeOK /\ [Next]_vars => TypeOK'
<1> SUFFICES ASSUME TypeOK, [Next]_vars PROVE TypeOK'
  OBVIOUS
<1>1. CASE UNCHANGED vars
  BY <1>1 DEF TypeOK, vars, signVars, queueVars, heldVars, consoleVars, historyVars
<1> QED
  BY <1>1, PostTypes, ConsoleTypes, PumpTypes, RestartTypes DEF Next

\* Every variable keeps its type, and every id held is below the next one.
THEOREM TypeCorrect == Spec => []TypeOK
  BY InitTypes, TypeStep, PTL DEF Spec

-----------------------------------------------------------------------------
(* The inductive invariant                                                 *)

(***************************************************************************)
(* Where a batch is while its POST stands where it does: only a POST that  *)
(* was answered "held" has entries and approve calls, and nothing is       *)
(* queued before the co-signer has answered.                               *)
(***************************************************************************)
Placed ==
  /\ \A r \in Request :
       /\ post[r] = "none" => r \notin relaySigned
       /\ post[r] \in {"none", "cosigning"} => queued[r] = 0
  /\ \A i \in DOMAIN pendingApproval : post[pendingApproval[i]] = "held"
  /\ \A c \in Console : \A r \in approving[c].batch : post[r] = "held"

(***************************************************************************)
(* A batch is held under one id, and an approve call that has been         *)
(* awaiting the co-signer still means that entry: its id is this batch's,  *)
(* or not held any more.                                                   *)
(***************************************************************************)
HeldOnce ==
  \A i, j \in DOMAIN pendingApproval : pendingApproval[i] = pendingApproval[j] => i = j

CallsKnow ==
  \A c \in Console : \A r \in approving[c].batch :
    /\ approving[c].id < nextId
    /\ \A i \in DOMAIN pendingApproval : pendingApproval[i] = r <=> i = approving[c].id

(***************************************************************************)
(* A batch no two approve calls had at once has one way into the queue     *)
(* left, or has used it.                                                   *)
(***************************************************************************)
OneWayIn ==
  \A r \in Request \ overlapped :
    /\ queued[r] \in {0, 1}
    /\ queued[r] = 1 => r \notin Held /\ \A c \in Console : r \notin approving[c].batch
    /\ \A c, d \in Console : r \in approving[c].batch /\ r \in approving[d].batch => c = d

(***************************************************************************)
(* Until the first restart, what the console lists under an id is what is  *)
(* held under it, if anything is.                                          *)
(***************************************************************************)
ListedAsHeld ==
  restarts = 0 =>
    /\ ~mistaken
    /\ \A entry \in listed :
         /\ entry[1] < nextId
         /\ entry[1] \in DOMAIN pendingApproval => pendingApproval[entry[1]] = entry[2]

IntakeInv ==
  /\ TypeOK
  /\ Placed
  /\ HeldOnce
  /\ CallsKnow
  /\ HeldUnsigned
  /\ OneWayIn
  /\ AcceptedAccounted
  /\ ListedAsHeld

\* Nothing is posted, held, queued or listed at the start.
LEMMA InitInv == Init => IntakeInv
<1> SUFFICES ASSUME Init PROVE IntakeInv
  OBVIOUS
<1>1. TypeOK
  BY InitTypes
<1>2. /\ \A r \in Request : post[r] = "none" /\ queued[r] = 0
      /\ DOMAIN pendingApproval = {} /\ Held = {}
      /\ \A c \in Console : approving[c].batch = {}
  BY DEF Init, Empty, NoCall, Held
<1>3. relaySigned = {} /\ listed = {} /\ mistaken = FALSE
  BY DEF Init
<1> QED
  BY <1>1, <1>2, <1>3
     DEF IntakeInv, Placed, HeldOnce, CallsKnow, HeldUnsigned, OneWayIn, AcceptedAccounted,
         ListedAsHeld

\* Steps that only move the POST of a batch that is not held: a refusal, and
\* a call to the co-signer's start.
LEMMA RefusedKeeps ==
  ASSUME IntakeInv, NEW r \in Request, Refuse(r) \/ PostRefused(r) \/ PostCosigning(r)
  PROVE  IntakeInv'
<1> USE DEF IntakeInv
<1>0. TypeOK'
  BY PostTypes
<1>1. /\ post[r] \in {"none", "cosigning"} /\ post' = [post EXCEPT ![r] = post'[r]]
      /\ post'[r] \in {"refused", "cosigning"}
      /\ relaySigned' \subseteq relaySigned \cup {r}
      /\ UNCHANGED <<pending, group, queued, closed, pendingApproval, nextId, approving,
                     listed, declined, failed, overlapped, mistaken, restarts>>
  BY DEF TypeOK, Refuse, PostRefused, PostCosigning, CosignStart, signVars, queueVars,
         heldVars, consoleVars, historyVars
<1>2. Held' = Held /\ InHand' = InHand
  BY <1>1 DEF Held, InHand
<1>3. r \notin Held /\ \A c \in Console : r \notin approving[c].batch
  BY <1>1 DEF Placed, Held
<1>4. Placed'
  BY <1>1, <1>3, CallTypes DEF Placed, TypeOK, Held
<1>5. HeldOnce' /\ CallsKnow'
  BY <1>1 DEF HeldOnce, CallsKnow
<1>6. HeldUnsigned'
  BY <1>1, <1>2, <1>3 DEF HeldUnsigned
<1>7. OneWayIn'
  BY <1>1, <1>2 DEF OneWayIn
<1>8. AcceptedAccounted'
  BY <1>1, <1>2 DEF AcceptedAccounted, TypeOK
<1>9. ListedAsHeld'
  BY <1>1 DEF ListedAsHeld
<1> QED
  BY <1>0, <1>4, <1>5, <1>6, <1>7, <1>8, <1>9

\* A batch held under the next id is held nowhere else, and unsigned.
LEMMA HoldKeeps ==
  ASSUME IntakeInv, NEW r \in Request, Hold(r)
  PROVE  IntakeInv'
<1> USE DEF IntakeInv
<1>0. TypeOK'
  BY PostTypes
<1>1. /\ post[r] = "none" /\ post' = [post EXCEPT ![r] = "held"]
      /\ nextId' = nextId + 1 /\ nextId \in Nat
      /\ nextId \notin DOMAIN pendingApproval
      /\ DOMAIN pendingApproval' = DOMAIN pendingApproval \cup {nextId}
      /\ pendingApproval'[nextId] = r
      /\ \A i \in DOMAIN pendingApproval : pendingApproval'[i] = pendingApproval[i]
      /\ listed' = listed \cup {<<nextId, r>>}
      /\ UNCHANGED <<relaySigned, pending, group, queued, closed, approving, declined,
                     failed, overlapped, mistaken, restarts>>
  BY DEF TypeOK, Hold, HoldAs, signVars, queueVars, historyVars
<1>2. /\ \A i \in DOMAIN pendingApproval : pendingApproval[i] # r
      /\ \A c \in Console : r \notin approving[c].batch
  BY <1>1 DEF Placed
<1>3. Held' = Held \cup {r} /\ InHand' = InHand \cup {r}
  BY <1>1 DEF Held, InHand
<1>4. Placed'
  BY <1>1, CallTypes DEF Placed, TypeOK
<1>5. HeldOnce'
  BY <1>1, <1>2 DEF HeldOnce
<1>6. CallsKnow'
  <2> SUFFICES ASSUME NEW c \in Console, NEW q \in approving[c].batch
               PROVE  /\ approving[c].id < nextId + 1
                      /\ \A i \in DOMAIN pendingApproval' :
                           pendingApproval'[i] = q <=> i = approving[c].id
    BY <1>1 DEF CallsKnow
  <2>1. approving[c].id \in Nat /\ approving[c].id < nextId /\ q # r
    BY <1>2 DEF CallsKnow, TypeOK, Calls
  <2>2. \A i \in DOMAIN pendingApproval : pendingApproval[i] = q <=> i = approving[c].id
    BY DEF CallsKnow
  <2> QED
    BY <1>1, <2>1, <2>2
<1>7. HeldUnsigned'
  BY <1>1, <1>3 DEF HeldUnsigned, Placed
<1>8. OneWayIn'
  BY <1>1, <1>3 DEF OneWayIn, Placed
<1>9. AcceptedAccounted'
  BY <1>1, <1>3 DEF AcceptedAccounted, TypeOK
<1>10. ListedAsHeld'
  <2> SUFFICES ASSUME restarts = 0
               PROVE  /\ ~mistaken'
                      /\ \A entry \in listed' :
                           /\ entry[1] < nextId'
                           /\ entry[1] \in DOMAIN pendingApproval' =>
                                pendingApproval'[entry[1]] = entry[2]
    BY <1>1 DEF ListedAsHeld
  <2>1. ASSUME NEW entry \in listed
        PROVE  /\ entry[1] < nextId' /\ entry[1] # nextId
               /\ entry[1] \in DOMAIN pendingApproval => pendingApproval[entry[1]] = entry[2]
    <3>1. entry[1] \in Nat /\ entry[1] < nextId
      BY DEF ListedAsHeld, TypeOK
    <3> QED
      BY <1>1, <3>1 DEF ListedAsHeld
  <2> QED
    BY <1>1, <2>1 DEF ListedAsHeld
<1> QED
  BY <1>0, <1>4, <1>5, <1>6, <1>7, <1>8, <1>9, <1>10

\* The batch a POST has had co-signed is held nowhere, and queued first now.
LEMMA PostQueuedKeeps ==
  ASSUME IntakeInv, NEW r \in Request, PostQueued(r)
  PROVE  IntakeInv'
<1> USE DEF IntakeInv
<1>0. TypeOK'
  BY PostTypes
<1>1. /\ post[r] = "cosigning" /\ post' = [post EXCEPT ![r] = "queued"]
      /\ pending' = Append(pending, r)
      /\ queued' = [queued EXCEPT ![r] = @ + 1]
      /\ UNCHANGED <<relaySigned, group, closed, pendingApproval, nextId, approving,
                     listed, declined, failed, overlapped, mistaken, restarts>>
  BY DEF TypeOK, PostQueued, Queue, heldVars, consoleVars, historyVars
<1>2. Held' = Held /\ InHand' = InHand \cup {r}
  <2>1. ToSet(pending') = ToSet(pending) \cup {r}
    BY <1>1, ToSetAppend DEF TypeOK
  <2> QED
    BY <1>1, <2>1 DEF Held, InHand
<1>3. r \notin Held /\ (\A c \in Console : r \notin approving[c].batch) /\ queued[r] = 0
  BY <1>1 DEF Placed, Held
<1>4. queued'[r] = 1 /\ \A q \in Request \ {r} : queued'[q] = queued[q]
  BY <1>1, <1>3 DEF TypeOK
<1>5. Placed'
  BY <1>1, <1>3, <1>4, CallTypes DEF Placed, TypeOK, Held
<1>6. HeldOnce' /\ CallsKnow'
  BY <1>1 DEF HeldOnce, CallsKnow
<1>7. HeldUnsigned'
  BY <1>1, <1>2 DEF HeldUnsigned
<1>8. OneWayIn'
  BY <1>1, <1>2, <1>3, <1>4 DEF OneWayIn
<1>9. AcceptedAccounted'
  BY <1>1, <1>2 DEF AcceptedAccounted, TypeOK
<1>10. ListedAsHeld'
  BY <1>1 DEF ListedAsHeld
<1> QED
  BY <1>0, <1>5, <1>6, <1>7, <1>8, <1>9, <1>10

\* An approve call looks an entry up and has it signed: its id is the only
\* one the batch is held under.
LEMMA ApproveStartKeeps ==
  ASSUME IntakeInv, NEW c \in Console, NEW id \in DOMAIN pendingApproval,
         ApproveStart(c, id)
  PROVE  IntakeInv'
<1> USE DEF IntakeInv
<1> DEFINE r == pendingApproval[id]
<1>0. TypeOK'
  BY ConsoleTypes
<1>1. /\ approving[c] = NoCall
      /\ approving'[c] = [id |-> id, batch |-> {r}, asks |-> r \notin advSigned]
      /\ \A d \in Console \ {c} : approving'[d] = approving[d]
      /\ relaySigned' = relaySigned \cup {r}
      /\ overlapped' = overlapped \cup {q \in {r} : \E d \in Console : approving[d].batch = {q}}
      /\ \E entry \in listed :
           entry[1] = id /\ mistaken' = (mistaken \/ entry[2] # pendingApproval[id])
      /\ UNCHANGED <<post, pending, group, queued, closed, pendingApproval, nextId, listed,
                     declined, failed, restarts>>
  BY DEF TypeOK, ApproveStart, CosignStart, Decide, queueVars, heldVars
<1>2. Held' = Held /\ InHand' = InHand /\ r \in Held /\ r \in Request /\ post[r] = "held"
      /\ id < nextId
  <2>1. id \in 1 .. nextId - 1 /\ nextId \in Nat /\ r \in Request
    BY DEF TypeOK
  <2> QED
    BY <1>1, <2>1 DEF Held, InHand, Placed
<1>3. approving[c].batch = {} /\ approving'[c].batch = {r} /\ approving'[c].id = id
  BY <1>1 DEF NoCall
<1>4. Placed'
  BY <1>1, <1>2, <1>3 DEF Placed
<1>5. HeldOnce'
  BY <1>1 DEF HeldOnce
<1>6. CallsKnow'
  BY <1>1, <1>2, <1>3 DEF CallsKnow, HeldOnce
<1>7. HeldUnsigned'
  BY <1>1, <1>2, <1>3 DEF HeldUnsigned
<1>8. OneWayIn'
  <2>1. ASSUME NEW q \in Request \ overlapped', q # r
        PROVE  /\ queued'[q] \in {0, 1}
               /\ queued'[q] = 1 => q \notin Held' /\ \A d \in Console : q \notin approving'[d].batch
               /\ \A d, e \in Console :
                    q \in approving'[d].batch /\ q \in approving'[e].batch => d = e
    <3>1. \A d \in Console : q \in approving'[d].batch <=> q \in approving[d].batch
      BY <1>1, <1>3, <2>1
    <3>2. q \in Request \ overlapped
      BY <1>1
    <3> QED
      BY <1>1, <1>2, <3>1, <3>2 DEF OneWayIn
  <2>2. ASSUME r \notin overlapped'
        PROVE  /\ queued'[r] = 0
               /\ \A d \in Console \ {c} : r \notin approving'[d].batch
    <3>1. r \notin overlapped /\ \A d \in Console : approving[d].batch # {r}
      BY <1>1, <2>2
    <3>2. queued[r] = 0
      BY <1>2, <3>1 DEF OneWayIn
    <3> QED
      BY <1>1, <3>1, <3>2, CallTypes
  <2> QED
    BY <2>1, <2>2 DEF OneWayIn
<1>9. AcceptedAccounted'
  BY <1>1, <1>2 DEF AcceptedAccounted
<1>10. ListedAsHeld'
  BY <1>1 DEF ListedAsHeld
<1> QED
  BY <1>0, <1>4, <1>5, <1>6, <1>7, <1>8, <1>9, <1>10

\* An approve call ends: the entry it looked up goes if it is still held,
\* and with it every place the batch was held in; the batch is queued, or
\* dropped when the co-signer did not sign.
LEMMA ApproveEndsKeeps ==
  ASSUME IntakeInv, NEW c \in Console, ApproveQueued(c) \/ ApproveFails(c)
  PROVE  IntakeInv'
<1> USE DEF IntakeInv
<1>0. TypeOK'
  BY ConsoleTypes
<1>1. PICK r \in approving[c].batch :
        /\ pendingApproval' = Without(approving[c].id)
        /\ approving' = [approving EXCEPT ![c] = NoCall]
        /\ UNCHANGED <<post, relaySigned, group, closed, nextId, listed, declined, overlapped,
                       mistaken, restarts>>
        /\ \/ /\ pending' = Append(pending, r)
              /\ queued' = [queued EXCEPT ![r] = @ + 1]
              /\ failed' = failed
           \/ failed' = failed \cup {r} /\ UNCHANGED <<pending, queued>>
  BY DEF ApproveQueued, ApproveFails, ApproveEnds, Queue, signVars, queueVars
<1>2. r \in Request /\ approving[c].batch = {r} /\ post[r] = "held"
  BY CallTypes DEF Placed
<1>3. /\ approving'[c].batch = {}
      /\ \A d \in Console \ {c} : approving'[d] = approving[d]
      /\ \A d \in Console : approving'[d].batch \subseteq approving[d].batch
  BY <1>1 DEF NoCall, TypeOK
<1>4. /\ DOMAIN pendingApproval' = DOMAIN pendingApproval \ {approving[c].id}
      /\ \A i \in DOMAIN pendingApproval' : pendingApproval'[i] = pendingApproval[i]
  BY <1>1, HeldTypes
<1>5. Held' = Held \ {r}
  BY <1>4 DEF Held, CallsKnow
<1>6. Held \cup InHand \subseteq InHand' \cup {r} /\ (r \in InHand' \/ r \in failed')
  <2>1. ToSet(Append(pending, r)) = ToSet(pending) \cup {r}
    BY <1>2, ToSetAppend DEF TypeOK
  <2> QED
    BY <1>1, <1>5, <2>1 DEF InHand
<1>7. Placed'
  BY <1>1, <1>2, <1>3, <1>4 DEF Placed, TypeOK
<1>8. HeldOnce'
  BY <1>4 DEF HeldOnce
<1>9. CallsKnow'
  <2> SUFFICES ASSUME NEW d \in Console, NEW q \in approving'[d].batch
               PROVE  /\ approving'[d].id < nextId'
                      /\ \A i \in DOMAIN pendingApproval' :
                           pendingApproval'[i] = q <=> i = approving'[d].id
    BY DEF CallsKnow
  <2>1. d # c /\ approving'[d] = approving[d]
    BY <1>3
  <2> QED
    BY <1>1, <1>4, <2>1 DEF CallsKnow
<1>10. HeldUnsigned'
  <2> SUFFICES ASSUME NEW q \in Held' \cap relaySigned'
               PROVE  \E d \in Console : approving'[d].batch = {q}
    BY DEF HeldUnsigned
  <2>1. q # r /\ q \in Held \cap relaySigned
    BY <1>1, <1>5
  <2>2. PICK d \in Console : approving[d].batch = {q}
    BY <2>1 DEF HeldUnsigned
  <2> QED
    BY <1>2, <1>3, <2>1, <2>2
<1>11. OneWayIn'
  <2> SUFFICES ASSUME NEW q \in Request \ overlapped
               PROVE  /\ queued'[q] \in {0, 1}
                      /\ queued'[q] = 1 =>
                           q \notin Held' /\ \A d \in Console : q \notin approving'[d].batch
                      /\ \A d, e \in Console :
                           q \in approving'[d].batch /\ q \in approving'[e].batch => d = e
    BY <1>1 DEF OneWayIn
  <2>1. \A d, e \in Console : q \in approving'[d].batch /\ q \in approving'[e].batch => d = e
    BY <1>3 DEF OneWayIn
  <2>2. CASE q # r
    <3>1. queued'[q] = queued[q]
      BY <1>1, <1>2, <2>2 DEF TypeOK
    <3> QED
      BY <1>3, <1>5, <2>1, <3>1 DEF OneWayIn
  <2>3. CASE q = r
    <3>1. queued[r] = 0 /\ \A d \in Console : r \in approving[d].batch => d = c
      BY <1>2, <2>3 DEF OneWayIn
    <3>2. queued'[r] \in {0, 1}
      BY <1>1, <1>2, <3>1 DEF TypeOK
    <3> QED
      BY <1>3, <1>5, <2>1, <2>3, <3>1, <3>2
  <2> QED
    BY <2>2, <2>3
<1>12. AcceptedAccounted'
  BY <1>1, <1>6 DEF AcceptedAccounted
<1>13. ListedAsHeld'
  BY <1>1, <1>4 DEF ListedAsHeld
<1> QED
  BY <1>0, <1>7, <1>8, <1>9, <1>10, <1>11, <1>12, <1>13

\* A reject removes the entry of the batch the operator declined.
LEMMA RejectKeeps ==
  ASSUME IntakeInv, NEW id \in DOMAIN pendingApproval, Reject(id)
  PROVE  IntakeInv'
<1> USE DEF IntakeInv
<1> DEFINE r == pendingApproval[id]
<1>0. TypeOK'
  BY ConsoleTypes
<1>1. /\ declined' = declined \cup {r}
      /\ pendingApproval' = Without(id)
      /\ \E entry \in listed :
           entry[1] = id /\ mistaken' = (mistaken \/ entry[2] # pendingApproval[id])
      /\ UNCHANGED <<post, relaySigned, pending, group, queued, closed, nextId, approving,
                     listed, failed, overlapped, restarts>>
  BY DEF Reject, Decide, signVars, queueVars, consoleVars
<1>2. /\ DOMAIN pendingApproval' = DOMAIN pendingApproval \ {id}
      /\ \A i \in DOMAIN pendingApproval' : pendingApproval'[i] = pendingApproval[i]
  BY <1>1, HeldTypes
<1>3. Held' \subseteq Held /\ Held \subseteq Held' \cup {r}
  BY <1>2 DEF Held
<1>4. Placed'
  BY <1>1, <1>2 DEF Placed
<1>5. HeldOnce' /\ CallsKnow'
  BY <1>1, <1>2 DEF HeldOnce, CallsKnow
<1>6. HeldUnsigned'
  BY <1>1, <1>3 DEF HeldUnsigned
<1>7. OneWayIn'
  BY <1>1, <1>3 DEF OneWayIn
<1>8. AcceptedAccounted'
  BY <1>1, <1>3 DEF AcceptedAccounted, InHand
<1>9. ListedAsHeld'
  BY <1>1, <1>2 DEF ListedAsHeld
<1> QED
  BY <1>0, <1>4, <1>5, <1>6, <1>7, <1>8, <1>9

\* The pump and the switch of the signing mode touch no POST, entry or call.
LEMMA ElsewhereKeeps ==
  ASSUME IntakeInv, PumpTakes \/ PumpReturns \/ PumpSends \/ SetSigningMode \/ UNCHANGED vars
  PROVE  IntakeInv'
<1> USE DEF IntakeInv
<1>0. TypeOK'
  BY TypeStep DEF Next
<1>1. UNCHANGED <<post, relaySigned, queued, pendingApproval, nextId, approving, listed,
                  declined, failed, overlapped, mistaken, restarts>>
  BY DEF PumpTakes, PumpReturns, PumpSends, PumpUnchanged, SetSigningMode, vars, signVars,
         queueVars, heldVars, consoleVars, historyVars
<1>2. InHand \cup closed \subseteq InHand' \cup closed'
  <2>1. Held' = Held
    BY <1>1 DEF Held
  <2>2. ToSet(pending) \cup ToSet(group) \cup closed
          \subseteq ToSet(pending') \cup ToSet(group') \cup closed'
    <3>1. CASE PumpTakes \/ PumpReturns \/ PumpSends
      BY <3>1, PumpMoves
    <3>2. CASE SetSigningMode \/ UNCHANGED vars
      BY <3>2 DEF SetSigningMode, vars, queueVars
    <3> QED
      BY <3>1, <3>2
  <2> QED
    BY <2>1, <2>2 DEF InHand
<1>3. Placed' /\ HeldOnce' /\ CallsKnow' /\ ListedAsHeld'
  BY <1>1 DEF Placed, HeldOnce, CallsKnow, ListedAsHeld
<1>4. HeldUnsigned' /\ OneWayIn'
  BY <1>1 DEF HeldUnsigned, OneWayIn, Held
<1>5. AcceptedAccounted'
  BY <1>1, <1>2 DEF AcceptedAccounted
<1> QED
  BY <1>0, <1>3, <1>4, <1>5

\* A restart forgets the entries and the calls; a batch that had been taken
\* in but not finished with is lost.
LEMMA RestartKeeps ==
  ASSUME IntakeInv, Restart
  PROVE  IntakeInv'
<1> USE DEF IntakeInv
<1>0. TypeOK'
  BY RestartTypes
<1>1. /\ \A r \in Request :
           post'[r] = IF r \in InHand \/ post[r] = "cosigning" THEN "lost" ELSE post[r]
      /\ DOMAIN pendingApproval' = {}
      /\ \A c \in Console : approving'[c].batch = {}
      /\ restarts' = restarts + 1 /\ restarts \in Nat
      /\ UNCHANGED <<relaySigned, queued, closed, declined, failed, overlapped>>
  BY IntakeAssumption DEF TypeOK, Restart, Empty, NoCall, signVars
<1>2. Held' = {}
  BY <1>1 DEF Held
<1>3. Placed'
  BY <1>1 DEF Placed
<1>4. HeldOnce' /\ CallsKnow' /\ HeldUnsigned'
  BY <1>1, <1>2 DEF HeldOnce, CallsKnow, HeldUnsigned
<1>5. OneWayIn'
  BY <1>1, <1>2 DEF OneWayIn
<1>6. AcceptedAccounted'
  BY <1>1 DEF AcceptedAccounted
<1>7. ListedAsHeld'
  BY <1>1 DEF ListedAsHeld
<1> QED
  BY <1>0, <1>3, <1>4, <1>5, <1>6, <1>7

\* Every step keeps the invariant.
LEMMA InvStep == IntakeInv /\ [Next]_vars => IntakeInv'
  BY RefusedKeeps, HoldKeeps, PostQueuedKeeps, ApproveStartKeeps, ApproveEndsKeeps,
     RejectKeeps, ElsewhereKeeps, RestartKeeps DEF Next

\* The inductive invariant holds in every state of every behaviour.
THEOREM IntakeInvariant == Spec => []IntakeInv
  BY InitInv, InvStep, PTL DEF Spec

-----------------------------------------------------------------------------
(* The properties                                                          *)

(***************************************************************************)
(* A batch waits for the operator unsigned (claims.mjs:113-114): what the  *)
(* relay has signed and still holds, an approve call is at work on.  What  *)
(* makes it so is that an approve call's end removes the only entry of its *)
(* batch (CallsKnow).                                                      *)
(***************************************************************************)
THEOREM HeldStaysUnsigned == Spec => []HeldUnsigned
  BY IntakeInvariant, PTL DEF IntakeInv

(***************************************************************************)
(* Without overlapping approve calls for a batch, whatever posts, rejects, *)
(* failures and restarts come between, the batch is queued at most once.   *)
(***************************************************************************)
THEOREM QueuedAtMostOnce == Spec => []QueuedOnce
<1>1. IntakeInv => QueuedOnce
  BY DEF IntakeInv, OneWayIn, QueuedOnce
<1> QED
  BY <1>1, IntakeInvariant, PTL

(***************************************************************************)
(* Nothing the relay answered 202 to disappears while the process lives.   *)
(***************************************************************************)
THEOREM AcceptedIsAccounted == Spec => []AcceptedAccounted
  BY IntakeInvariant, PTL DEF IntakeInv

(***************************************************************************)
(* Until the first restart an operator's decision, taken from however old  *)
(* a list, reaches the batch that was shown under the id.                  *)
(***************************************************************************)
THEOREM DecisionsReachWhatWasShown == Spec => []DecidedAsShown
<1>1. IntakeInv => DecidedAsShown
  BY IntakeAssumption DEF IntakeInv, ListedAsHeld, DecidedAsShown, TypeOK
<1> QED
  BY <1>1, IntakeInvariant, PTL
=============================================================================
