---------------------------- MODULE ClaimIntake ----------------------------
(***************************************************************************)
(* How a claim batch gets into the relay's submission queue: enqueue,      *)
(* _cosign, approve and reject of relay/src/claims.mjs, as POST /claim     *)
(* (http.mjs:54-61) and the operator console (admin.mjs:68-71) call them.  *)
(*                                                                         *)
(* Every call that co-signs may wait for the advertiser's co-signer, and   *)
(* meanwhile other posts, other console calls and the pump run: a post     *)
(* and a console call each are two steps.  A request is one posted         *)
(* envelope and the batch made of it.                                      *)
(***************************************************************************)
EXTENDS Integers, FiniteSets, SequencesExt, SequencePositions

CONSTANTS
  Request,           \* the POSTs to /claim
  Console,           \* approve calls that can be under way at once
  Presigned,         \* those posted with an advertiser signature
  MAX_QUEUE,         \* posts are turned away from this length of the queue
  CLAIM_BATCH_SIZE,  \* batches the pump takes at once
  MaxRestarts        \* bound: restarts of the relay process

ASSUME IntakeAssumption ==
  /\ Presigned \subseteq Request
  /\ MAX_QUEUE \in Nat \ {0}
  /\ CLAIM_BATCH_SIZE \in Nat \ {0}
  /\ MaxRestarts \in Nat

VARIABLES
  manual,           \* signingModeFor is "manual"
  post,             \* request -> where its POST stands
  relaySigned,      \* the batches the relay has signed
  advSigned,        \* the batches that carry an advertiser signature
  pending,          \* this.pending
  group,            \* what the pump has taken off pending
  pendingApproval,  \* this.pendingApproval: id -> request
  nextId,           \* this._nextId
  approving,        \* console -> the approve call it runs: [id, batch, asks]
  listed,           \* the <<id, request>> pairs the console may still show
  queued,           \* history: request -> times its batch was queued
  closed,           \* history: the batches the pump has finished with
  declined,         \* history: the batches an acknowledged reject removed
  failed,           \* history: the batches a failed approve removed
  overlapped,       \* history: the batches two approve calls had at once
  mistaken,         \* history: a decision reached a batch it was not shown as
  restarts          \* restarts so far

signVars == <<relaySigned, advSigned>>
queueVars == <<pending, group, queued, closed>>
heldVars == <<pendingApproval, nextId>>
consoleVars == <<approving, listed>>
historyVars == <<declined, failed, overlapped, mistaken, restarts>>
vars == <<manual, post, signVars, queueVars, heldVars, consoleVars, historyVars>>

PostStates ==
  {"none",       \* not posted
   "cosigning",  \* the reply waits for _cosign
   "queued",     \* 202 queued
   "held",       \* 202 queued, pendingApproval
   "refused",    \* 400
   "lost"}       \* the process died before the batch was finished with

Calls == [id : Nat, batch : {{}} \cup {{r} : r \in Request}, asks : BOOLEAN]

NoCall == [id |-> 0, batch |-> {}, asks |-> FALSE]

Empty == [i \in {} |-> 0]

-----------------------------------------------------------------------------
(* POST /claim                                                             *)

Full == Len(pending) >= MAX_QUEUE

(***************************************************************************)
(* The checks before anything is awaited: the queue is full, the envelope  *)
(* is malformed, or the operator's policy says no.                         *)
(***************************************************************************)
Refuse(r) ==
  /\ post[r] = "none"
  /\ post' = [post EXCEPT ![r] = "refused"]
  /\ UNCHANGED <<manual, signVars, queueVars, heldVars, consoleVars, historyVars>>

(***************************************************************************)
(* Manual mode: the batch is held un-co-signed under a new id.             *)
(***************************************************************************)
HoldAs(r, id) ==
  /\ post[r] = "none"
  /\ ~Full
  /\ manual
  /\ post' = [post EXCEPT ![r] = "held"]
  /\ pendingApproval' = [i \in DOMAIN pendingApproval \cup {id} |->
                           IF i = id THEN r ELSE pendingApproval[i]]
  /\ listed' = listed \cup {<<id, r>>}
  /\ UNCHANGED <<manual, signVars, queueVars, approving, historyVars>>

HoldSameId(r) ==  \* mutant: the id counter does not move
  HoldAs(r, nextId) /\ UNCHANGED nextId

HoldCounted(r) ==  \* mutant: the id is one more than the entries held
  HoldAs(r, Cardinality(DOMAIN pendingApproval) + 1) /\ nextId' = nextId + 1

Hold(r) == HoldAs(r, nextId) /\ nextId' = nextId + 1

(***************************************************************************)
(* _cosign starts: the relay signs as publisher, and awaits the            *)
(* advertiser's signature unless the batch carries it.                     *)
(***************************************************************************)
CosignStart(r) ==
  /\ relaySigned' = relaySigned \cup {r}
  /\ UNCHANGED advSigned

PostCosigning(r) ==
  /\ post[r] = "none"
  /\ ~Full
  /\ ~manual
  /\ CosignStart(r)
  /\ post' = [post EXCEPT ![r] = "cosigning"]
  /\ UNCHANGED <<manual, queueVars, heldVars, consoleVars, historyVars>>

(***************************************************************************)
(* _cosign returns with both signatures, and the batch is queued.          *)
(***************************************************************************)
Queue(r) ==
  /\ advSigned' = advSigned \cup {r}
  /\ pending' = Append(pending, r)
  /\ queued' = [queued EXCEPT ![r] = @ + 1]
  /\ UNCHANGED <<relaySigned, group, closed>>

PostQueued(r) ==
  /\ post[r] = "cosigning"
  /\ Queue(r)
  /\ post' = [post EXCEPT ![r] = "queued"]
  /\ UNCHANGED <<manual, heldVars, consoleVars, historyVars>>

(***************************************************************************)
(* The advertiser's co-signer declined or could not be reached.            *)
(***************************************************************************)
PostRefused(r) ==
  /\ post[r] = "cosigning"
  /\ r \notin advSigned
  /\ post' = [post EXCEPT ![r] = "refused"]
  /\ UNCHANGED <<manual, signVars, queueVars, heldVars, consoleVars, historyVars>>

-----------------------------------------------------------------------------
(* The operator console                                                    *)

(***************************************************************************)
(* The operator switches the signing mode.                                 *)
(***************************************************************************)
SetSigningMode ==
  /\ manual' = ~manual
  /\ UNCHANGED <<post, signVars, queueVars, heldVars, consoleVars, historyVars>>

(***************************************************************************)
(* The operator decides on a batch the console lists; the list is fetched  *)
(* now and then (admin.mjs:38-42), so it can be older than the entries.    *)
(* (An id that is not held any more is answered "not-found" and changes    *)
(* nothing.)                                                               *)
(***************************************************************************)
Decide(id) ==
  /\ id \in DOMAIN pendingApproval
  /\ \E entry \in listed :
       /\ entry[1] = id
       /\ mistaken' = (mistaken \/ entry[2] # pendingApproval[id])

(***************************************************************************)
(* approve looks the entry up and co-signs its batch.                      *)
(***************************************************************************)
ApproveStart(c, id) ==
  /\ approving[c] = NoCall
  /\ Decide(id)
  /\ LET r == pendingApproval[id] IN
       /\ CosignStart(r)
       /\ approving' = [approving EXCEPT ![c] =
            [id |-> id, batch |-> {r}, asks |-> r \notin advSigned]]
       /\ overlapped' = overlapped \cup
            {q \in {r} : \E d \in Console : approving[d].batch = {q}}
  /\ UNCHANGED <<manual, post, queueVars, heldVars, listed, declined, failed, restarts>>

(***************************************************************************)
(* _cosign returns to approve.  Nothing is looked up again: the entry goes *)
(* if it is still there, and the batch is queued.                          *)
(***************************************************************************)
Without(id) == Restrict(pendingApproval, DOMAIN pendingApproval \ {id})

ApproveEnds(c) ==
  /\ approving' = [approving EXCEPT ![c] = NoCall]
  /\ UNCHANGED <<manual, post, nextId, listed, declined, overlapped, mistaken,
                 restarts>>

ApproveQueuedStays(c) ==  \* mutant: the entry stays in the list
  \E r \in approving[c].batch :
    /\ Queue(r)
    /\ ApproveEnds(c)
    /\ UNCHANGED <<pendingApproval, failed>>

ApproveQueued(c) ==
  \E r \in approving[c].batch :
    /\ Queue(r)
    /\ pendingApproval' = Without(approving[c].id)
    /\ ApproveEnds(c)
    /\ UNCHANGED failed

ApproveFailsStays(c) ==  \* mutant: a failed approve leaves the entry
  \E r \in approving[c].batch :
    /\ approving[c].asks
    /\ failed' = failed \cup {r}
    /\ ApproveEnds(c)
    /\ UNCHANGED <<pendingApproval, signVars, queueVars>>

ApproveFails(c) ==
  \E r \in approving[c].batch :
    /\ approving[c].asks
    /\ failed' = failed \cup {r}
    /\ pendingApproval' = Without(approving[c].id)
    /\ ApproveEnds(c)
    /\ UNCHANGED <<signVars, queueVars>>

Reject(id) ==
  /\ Decide(id)
  /\ declined' = declined \cup {pendingApproval[id]}
  /\ pendingApproval' = Without(id)
  /\ UNCHANGED <<manual, post, signVars, queueVars, nextId, consoleVars, failed,
                 overlapped, restarts>>

-----------------------------------------------------------------------------
(* The pump, as far as it changes the queue (module ClaimSubmitter)        *)

PumpUnchanged ==
  UNCHANGED <<manual, post, signVars, queued, heldVars, consoleVars, historyVars>>

PumpTakes ==
  /\ group = <<>>
  /\ \E k \in 1 .. Len(pending) :
       /\ k <= CLAIM_BATCH_SIZE
       /\ group' = SubSeq(pending, 1, k)
       /\ pending' = SubSeq(pending, k + 1, Len(pending))
  /\ UNCHANGED closed
  /\ PumpUnchanged

(***************************************************************************)
(* A failed send puts the group back at the front; a failed estimate puts  *)
(* the batches with retries left at the end.                               *)
(***************************************************************************)
PumpReturns ==
  /\ group # <<>>
  /\ \/ pending' = group \o pending /\ UNCHANGED closed
     \/ \E kept \in SUBSET ToSet(group) :
        \E back \in BoundedSeq(kept, CLAIM_BATCH_SIZE) :
          /\ IsSelection(back, group, kept)
          /\ pending' = pending \o back
          /\ closed' = closed \cup (ToSet(group) \ kept)
  /\ group' = <<>>
  /\ PumpUnchanged

PumpSends ==
  /\ group # <<>>
  /\ closed' = closed \cup ToSet(group)
  /\ group' = <<>>
  /\ UNCHANGED pending
  /\ PumpUnchanged

-----------------------------------------------------------------------------

(***************************************************************************)
(* The process dies and starts again; the console's page stays open.       *)
(***************************************************************************)
Held == {pendingApproval[i] : i \in DOMAIN pendingApproval}

InHand == ToSet(pending) \cup ToSet(group) \cup Held

Restart ==
  /\ restarts < MaxRestarts
  /\ restarts' = restarts + 1
  /\ post' = [r \in Request |->
       IF r \in InHand \/ post[r] = "cosigning" THEN "lost" ELSE post[r]]
  /\ pending' = <<>>
  /\ group' = <<>>
  /\ pendingApproval' = Empty
  /\ nextId' = 1
  /\ approving' = [c \in Console |-> NoCall]
  /\ UNCHANGED <<manual, signVars, queued, closed, listed, declined, failed,
                 overlapped, mistaken>>

Init ==
  /\ manual \in BOOLEAN
  /\ post = [r \in Request |-> "none"]
  /\ relaySigned = {}
  /\ advSigned = Presigned
  /\ pending = <<>>
  /\ group = <<>>
  /\ pendingApproval = Empty
  /\ nextId = 1
  /\ approving = [c \in Console |-> NoCall]
  /\ listed = {}
  /\ queued = [r \in Request |-> 0]
  /\ closed = {}
  /\ declined = {}
  /\ failed = {}
  /\ overlapped = {}
  /\ mistaken = FALSE
  /\ restarts = 0

Next ==
  \/ \E r \in Request : \/ Refuse(r) \/ Hold(r) \/ PostCosigning(r)
                        \/ PostQueued(r) \/ PostRefused(r)
  \/ SetSigningMode
  \/ \E c \in Console :
       \/ \E id \in DOMAIN pendingApproval : ApproveStart(c, id)
       \/ ApproveQueued(c) \/ ApproveFails(c)
  \/ \E id \in DOMAIN pendingApproval : Reject(id)
  \/ PumpTakes \/ PumpReturns \/ PumpSends
  \/ Restart

Spec == Init /\ [][Next]_vars
-----------------------------------------------------------------------------
(* Properties                                                              *)

(***************************************************************************)
(* The type invariant.  Ids are below the next one.                        *)
(***************************************************************************)
TypeOK ==
  /\ manual \in BOOLEAN
  /\ post \in [Request -> PostStates]
  /\ relaySigned \subseteq Request
  /\ advSigned \subseteq Request
  /\ pending \in Seq(Request)
  /\ group \in Seq(Request) /\ Len(group) <= CLAIM_BATCH_SIZE
  /\ nextId \in Nat \ {0}
  /\ DOMAIN pendingApproval \subseteq 1 .. nextId - 1
  /\ pendingApproval \in [DOMAIN pendingApproval -> Request]
  /\ approving \in [Console -> Calls]
  /\ listed \subseteq (Nat \ {0}) \X Request
  /\ queued \in [Request -> Nat]
  /\ closed \subseteq Request
  /\ declined \subseteq Request
  /\ failed \subseteq Request
  /\ overlapped \subseteq Request
  /\ mistaken \in BOOLEAN
  /\ restarts \in 0 .. MaxRestarts

(***************************************************************************)
(* A batch waits for the operator unsigned (claims.mjs:113-114): when the  *)
(* relay has signed one that is still held, an approve call for it is      *)
(* under way, however many calls overlapped or failed before.              *)
(***************************************************************************)
HeldUnsigned ==
  \A r \in Held \cap relaySigned : \E c \in Console : approving[c].batch = {r}

(***************************************************************************)
(* A batch enters the queue once, and a second time only when two approve  *)
(* calls for it overlapped.                                                *)
(***************************************************************************)
QueuedOnce ==
  \A r \in Request : queued[r] > 1 => r \in overlapped

(***************************************************************************)
(* Nothing the relay answered 202 to disappears: it is held, queued, with  *)
(* the pump or finished with, or the operator's decision removed it.       *)
(***************************************************************************)
AcceptedAccounted ==
  \A r \in Request :
    post[r] \in {"queued", "held"} =>
      r \in InHand \cup closed \cup declined \cup failed

(***************************************************************************)
(* The operator's decision reaches the batch the console showed under that *)
(* id, as long as the relay is not restarted: ids are not used again.      *)
(***************************************************************************)
DecidedAsShown == mistaken => restarts > 0

-----------------------------------------------------------------------------

(***************************************************************************)
(* claims.mjs:113-114 says that a batch is held un-co-signed so that the   *)
(* operator can reject it without the relay ever signing.  (A reject that  *)
(* comes while an approve of the same entry awaits the co-signer is        *)
(* acknowledged, but the relay has signed and queues the batch.)           *)
(***************************************************************************)
RejectedNeverSigned == declined \cap relaySigned = {}
=============================================================================
