----------------------------- MODULE LogIndexer -----------------------------
(***************************************************************************)
(* The event indexer: `run` of indexer/src/index.js, with the log fetching *)
(* of chain.js, the decoding of indexer.js and the SQLite tables of db.js. *)
(*                                                                         *)
(* One loop reads the chain's logs chunk by chunk and keeps a cursor in    *)
(* the database.  Its hazards are what it does when an RPC call fails in   *)
(* the middle of a chunk, and where it goes on after the process dies      *)
(* between any two of its calls and writes.                                *)
(***************************************************************************)
EXTENDS Integers, FiniteSets, SequencesExt

CONSTANTS
  Chain,           \* the watched contracts' logs, in the order of the chain
  Campaign,        \* the campaigns the logs are about
  FirstHead,       \* the chain's head when the indexer first runs
  StartBlocks,     \* the settings of START_BLOCK considered
  BACKFILL_DEPTH,  \* blocks to go back from the head when it is "auto"
  CHUNK_SIZE,      \* blocks asked for at once
  MAX_SPLITS,      \* how often a failing range is split in two (8)
  STAMP_BATCH,     \* blocks whose timestamps are asked for at once (8)
  MaxHead,         \* bound: the chain's length
  MaxFaults,       \* bound: RPC calls that fail
  MaxNulls,        \* bound: blocks the node answers null for
  MaxCrashes       \* bound: crashes of the process

AutoStart == -1
None == -1

Kinds == {"created", "activated", "other", "unknown"}

Position == DOMAIN Chain

(***************************************************************************)
(* Logs come in block order, and a campaign is created once, before it is  *)
(* activated.  (How the contracts emit them; activations can repeat.)      *)
(***************************************************************************)
Creates(p, c) == Chain[p].kind = "created" /\ Chain[p].campaign = c
Activates(p, c) == Chain[p].kind = "activated" /\ Chain[p].campaign = c

ASSUME IndexerAssumption ==
  /\ Chain \in Seq([block : Nat, kind : Kinds, campaign : Campaign])
  /\ \A p, q \in Position : p < q => Chain[p].block <= Chain[q].block
  /\ \A c \in Campaign, p, q \in Position :
       Creates(p, c) => ~(Creates(q, c) /\ p # q) /\ ~(Activates(q, c) /\ q < p)
  /\ StartBlocks \subseteq Nat \cup {AutoStart}
  /\ {FirstHead, BACKFILL_DEPTH, MAX_SPLITS, MaxHead, MaxFaults, MaxNulls,
      MaxCrashes} \subseteq Nat
  /\ {CHUNK_SIZE, STAMP_BATCH} \subseteq Nat \ {0}

VARIABLES
  head,        \* the chain's head
  startBlock,  \* the START_BLOCK the indexer is configured with
  cursor,      \* meta "cursor", None while it is not set
  raw,         \* the logs in raw_events and in their own tables
  campaigns,   \* campaigns table: campaign -> NoRow or activated_block
  stamps,      \* the blocks table: blocks whose timestamp is known
  pc,          \* what the process waits for or does next
  tailing,     \* the backfill is over
  chunk,       \* the chunk in hand and the end of the sweep: [start, end, to]
  asks,        \* the ranges of it still to be asked for, the next one first
  got,         \* the ranges of it that have been answered, in order
  missing,     \* blocks whose timestamps are still to be asked for
  first,       \* history: where the sweep that set the cursor started
  nulls,       \* history: the blocks the node answered null for
  faults,      \* RPC faults so far
  crashes      \* crashes so far

databaseVars == <<cursor, raw, campaigns, stamps>>
processVars == <<pc, tailing, chunk, asks, got, missing>>
historyVars == <<first, nulls, faults, crashes>>
vars == <<head, startBlock, databaseVars, processVars, historyVars>>

NoRow == -2
NotActivated == -1

PCs == {"down", "head", "logs", "stamp", "store", "mark", "sleep"}

NoChunk == [start |-> 0, end |-> 0, to |-> 0]

Fault == faults < MaxFaults /\ faults' = faults + 1

Smaller(a, b) == IF a < b THEN a ELSE b
Larger(a, b) == IF a > b THEN a ELSE b

-----------------------------------------------------------------------------

(***************************************************************************)
(* What eth_getLogs answers for the watched addresses: all logs of the     *)
(* range, in order, those of events the indexer does not know included.    *)
(* Logs come in block order, so these are a run of positions.              *)
(***************************************************************************)
Before(block) == Cardinality({p \in Position : Chain[p].block < block})

LogsIn(from, to) ==
  SubSeq([p \in Position |-> p], Before(from) + 1, Before(to + 1))

(***************************************************************************)
(* The logs the answers to some ranges hold, and as a sequence: the        *)
(* answers concatenated.                                                   *)
(***************************************************************************)
Holds(ranges) ==
  {p \in Position : \E i \in DOMAIN ranges :
     Chain[p].block \in ranges[i].from .. ranges[i].to}

Concatenated(ranges) ==
  FoldLeft(LAMBDA logs, range : logs \o LogsIn(range.from, range.to), <<>>, ranges)

Grow ==
  /\ head < MaxHead
  /\ head' = head + 1
  /\ UNCHANGED <<startBlock, databaseVars, processVars, historyVars>>

(***************************************************************************)
(* The loop is between two sweeps, or the process is not running.          *)
(***************************************************************************)
Between(where) ==
  /\ pc' = where
  /\ chunk' = NoChunk
  /\ asks' = <<>>
  /\ got' = <<>>
  /\ missing' = {}

(***************************************************************************)
(* The next chunk of a sweep to block `to` starts at block `from`.         *)
(***************************************************************************)
NextChunk(from, to) ==
  LET end == Smaller(from + CHUNK_SIZE - 1, to)
  IN  /\ pc' = "logs"
      /\ chunk' = [start |-> from, end |-> end, to |-> to]
      /\ asks' = <<[from |-> from, to |-> end, depth |-> 0]>>
      /\ got' = <<>>
      /\ missing' = {}

(***************************************************************************)
(* An error ends the process during the backfill; the tail loop catches it *)
(* and tries again.                                                        *)
(***************************************************************************)
Throw ==
  /\ Between(IF tailing THEN "sleep" ELSE "down")
  /\ UNCHANGED tailing

(***************************************************************************)
(* The process starts, by hand or by its supervisor.  (ensureAddrs, which  *)
(* is awaited before the head, changes nothing: its failing is the head's.)*)
(***************************************************************************)
Boot ==
  /\ pc = "down"
  /\ tailing' = FALSE
  /\ Between("head")
  /\ UNCHANGED <<head, startBlock, databaseVars, historyVars>>

Poll ==
  /\ pc = "sleep"
  /\ Between("head")
  /\ UNCHANGED <<head, startBlock, tailing, databaseVars, historyVars>>

(***************************************************************************)
(* resolveStart, and the start of a sweep of the tail loop.                *)
(***************************************************************************)
ResolveStartUnclamped ==  \* mutant: no Math.max(0, ...)
  IF cursor # None THEN cursor + 1
  ELSE IF startBlock # AutoStart THEN startBlock
  ELSE head - BACKFILL_DEPTH

ResolveStart ==
  IF cursor # None THEN cursor + 1
  ELSE IF startBlock # AutoStart THEN startBlock
  ELSE Larger(0, head - BACKFILL_DEPTH)

TailFromHead == head  \* mutant: the tail starts at the head, not the cursor

TailFrom == (IF cursor # None THEN cursor ELSE head) + 1

HeadRead ==
  /\ pc = "head"
  /\ LET from == IF tailing THEN TailFrom ELSE ResolveStart
     IN  IF from > head
         THEN /\ Between("sleep")
              /\ tailing' = TRUE
              /\ UNCHANGED first
         ELSE /\ NextChunk(from, head)
              /\ first' = IF cursor = None THEN from ELSE first
              /\ UNCHANGED tailing
  /\ UNCHANGED <<head, startBlock, databaseVars, nulls, faults, crashes>>

HeadFails ==
  /\ pc = "head"
  /\ Fault
  /\ Throw
  /\ UNCHANGED <<head, startBlock, databaseVars, first, nulls, crashes>>

(***************************************************************************)
(* getLogsWithRetry.  The recursion is the stack `asks`: the left half is  *)
(* read before the right half is asked for.                                *)
(***************************************************************************)
Missing(ranges) == {Chain[p].block : p \in Holds(ranges)} \ stamps

LogsArrive ==
  /\ pc = "logs"
  /\ got' = Append(got, asks[1])
  /\ asks' = Tail(asks)
  /\ IF Len(asks) > 1
     THEN UNCHANGED <<pc, missing>>
     ELSE /\ missing' = Missing(got')
          /\ pc' = IF Holds(got') = {} THEN "mark"
                   ELSE IF missing' = {} THEN "store" ELSE "stamp"
  /\ UNCHANGED <<head, startBlock, databaseVars, tailing, chunk, historyVars>>

CanSplit(ask) == ask.to > ask.from /\ ask.depth < MAX_SPLITS

HalvesSwapped(ask) ==  \* mutant: the right half is read first
  LET mid == (ask.from + ask.to) \div 2
  IN  <<[from |-> mid + 1, to |-> ask.to, depth |-> ask.depth + 1],
        [from |-> ask.from, to |-> mid, depth |-> ask.depth + 1]>>

Halves(ask) ==
  LET mid == (ask.from + ask.to) \div 2
  IN  <<[from |-> ask.from, to |-> mid, depth |-> ask.depth + 1],
        [from |-> mid + 1, to |-> ask.to, depth |-> ask.depth + 1]>>

LogsFail ==
  /\ pc = "logs"
  /\ Fault
  /\ IF CanSplit(asks[1])
     THEN /\ asks' = Halves(asks[1]) \o Tail(asks)
          /\ UNCHANGED <<pc, tailing, chunk, got, missing>>
     ELSE Throw
  /\ UNCHANGED <<head, startBlock, databaseVars, first, nulls, crashes>>

(***************************************************************************)
(* resolveTimestamps asks for the blocks a slice at a time.  A block the   *)
(* node answers null for is passed over; one failing call fails the slice. *)
(***************************************************************************)
Slice ==
  {n \in missing : Cardinality({m \in missing : m < n}) < STAMP_BATCH}

StampsArrive ==
  /\ pc = "stamp"
  /\ \E absent \in SUBSET Slice :
       /\ Cardinality(nulls \cup absent) <= MaxNulls
       /\ nulls' = nulls \cup absent
       /\ stamps' = stamps \cup (Slice \ absent)
  /\ missing' = missing \ Slice
  /\ pc' = IF missing' = {} THEN "store" ELSE "stamp"
  /\ UNCHANGED <<head, startBlock, cursor, raw, campaigns, tailing, chunk, asks,
                 got, first, faults, crashes>>

StampsFailGoOn ==  \* mutant: a failing slice is passed over
  /\ pc = "stamp"
  /\ Fault
  /\ missing' = missing \ Slice
  /\ pc' = IF missing' = {} THEN "store" ELSE "stamp"
  /\ UNCHANGED <<head, startBlock, databaseVars, tailing, chunk, asks, got,
                 first, nulls, crashes>>

StampsFail ==
  /\ pc = "stamp"
  /\ Fault
  /\ Throw
  /\ UNCHANGED <<head, startBlock, databaseVars, first, nulls, crashes>>

(***************************************************************************)
(* processLogs stores the chunk's logs in one transaction, one after the   *)
(* other: a campaign's row is inserted when it is created and not there,   *)
(* and updated by the first activation.                                    *)
(***************************************************************************)
Known(p) == Chain[p].kind # "unknown"

StoreCampaignAlways(table, p) ==  \* mutant: every activation is stored
  LET c == Chain[p].campaign
  IN  IF Creates(p, c) /\ table[c] = NoRow
        THEN [table EXCEPT ![c] = NotActivated]
      ELSE IF Activates(p, c) /\ table[c] # NoRow
        THEN [table EXCEPT ![c] = Chain[p].block]
      ELSE table

StoreCampaign(table, p) ==
  LET c == Chain[p].campaign
  IN  IF Creates(p, c) /\ table[c] = NoRow
        THEN [table EXCEPT ![c] = NotActivated]
      ELSE IF Activates(p, c) /\ table[c] = NotActivated
        THEN [table EXCEPT ![c] = Chain[p].block]
      ELSE table

Store ==
  /\ pc = "store"
  /\ raw' = raw \cup {p \in Holds(got) : Known(p)}
  /\ \E logs \in {Concatenated(got)} :
       campaigns' = FoldLeft(StoreCampaign, campaigns, logs)
  /\ pc' = "mark"
  /\ UNCHANGED <<head, startBlock, cursor, stamps, tailing, chunk, asks, got,
                 missing, historyVars>>

(***************************************************************************)
(* The cursor is set, in a transaction of its own, and the sweep goes on.  *)
(***************************************************************************)
CursorAtSweepEnd == chunk.to  \* mutant: the sweep's end, not the chunk's

CursorAt == chunk.end

Mark ==
  /\ pc = "mark"
  /\ cursor' = CursorAt
  /\ IF chunk.end < chunk.to
     THEN /\ NextChunk(chunk.end + 1, chunk.to)
          /\ UNCHANGED tailing
     ELSE /\ Between("sleep")
          /\ tailing' = TRUE
  /\ UNCHANGED <<head, startBlock, raw, campaigns, stamps, historyVars>>

(***************************************************************************)
(* The process dies.  Of a slice of timestamps that was being written,     *)
(* each a transaction of its own, some may be stored.                      *)
(***************************************************************************)
Crash ==
  /\ pc # "down"
  /\ crashes < MaxCrashes
  /\ crashes' = crashes + 1
  /\ Between("down")
  /\ tailing' = FALSE
  /\ \E some \in SUBSET Slice : stamps' = stamps \cup some
  /\ UNCHANGED <<head, startBlock, cursor, raw, campaigns, first, nulls, faults>>
-----------------------------------------------------------------------------

Init ==
  /\ head = FirstHead
  /\ startBlock \in StartBlocks
  /\ cursor = None
  /\ raw = {}
  /\ campaigns = [c \in Campaign |-> NoRow]
  /\ stamps = {}
  /\ pc = "down"
  /\ tailing = FALSE
  /\ chunk = NoChunk
  /\ asks = <<>>
  /\ got = <<>>
  /\ missing = {}
  /\ first = None
  /\ nulls = {}
  /\ faults = 0
  /\ crashes = 0

(***************************************************************************)
(* What the process does when nothing goes wrong.                          *)
(***************************************************************************)
Run ==
  \/ Boot \/ Poll
  \/ HeadRead \/ LogsArrive \/ StampsArrive
  \/ Store \/ Mark

Next ==
  \/ Run
  \/ HeadFails \/ LogsFail \/ StampsFail
  \/ Grow
  \/ Crash

Spec == Init /\ [][Next]_vars

(***************************************************************************)
(* The process goes on as long as its calls return, its timer fires and    *)
(* its supervisor (deploy/) restarts it.                                   *)
(***************************************************************************)
FairSpec == Spec /\ WF_vars(Run)
-----------------------------------------------------------------------------
(* Properties                                                              *)

(***************************************************************************)
(* The type invariant.                                                     *)
(***************************************************************************)
Ask == [from : Nat, to : Nat, depth : 0 .. MAX_SPLITS]

TypeOK ==
  /\ head \in Nat
  /\ startBlock \in StartBlocks
  /\ cursor \in Nat \cup {None}
  /\ raw \subseteq Position
  /\ campaigns \in [Campaign -> Nat \cup {NoRow, NotActivated}]
  /\ stamps \subseteq Nat
  /\ pc \in PCs
  /\ tailing \in BOOLEAN
  /\ chunk \in [start : Nat, end : Nat, to : Nat]
  /\ asks \in Seq(Ask)
  /\ got \in Seq(Ask)
  /\ missing \subseteq Nat
  /\ first \in Nat \cup {None}
  /\ nulls \subseteq Nat
  /\ faults \in 0 .. MaxFaults
  /\ crashes \in 0 .. MaxCrashes

(***************************************************************************)
(* The splitting of failing ranges loses and repeats nothing: when a chunk *)
(* is about to be stored, its logs are those of its blocks, in chain order *)
(* (chain.js:24-37).                                                       *)
(***************************************************************************)
ChunkRead ==
  pc \in {"stamp", "store", "mark"} =>
    Concatenated(got) = LogsIn(chunk.start, chunk.end)

(***************************************************************************)
(* The cursor tells the truth: every known event from the block the sweep  *)
(* started at up to the cursor is stored, whatever failed and whenever the *)
(* process died; and what is stored beyond it is at most one chunk, which  *)
(* is read again (index.js:27-30, README.md:91 of the indexer).            *)
(***************************************************************************)
InScope(p) == first # None /\ Chain[p].block >= first

IndexedExactly ==
  /\ \A p \in Position :
       Known(p) /\ InScope(p) /\ Chain[p].block <= cursor => p \in raw
  /\ \A p \in raw :
       Known(p) /\ (cursor # None => Chain[p].block <= cursor + CHUNK_SIZE)

(***************************************************************************)
(* The campaigns table has every campaign created in the blocks indexed,   *)
(* with the block of its first activation, however often a chunk was       *)
(* stored and in whatever pieces it was read (db.js:172).                  *)
(***************************************************************************)
Activations(c) == {p \in Position : Activates(p, c)}

FirstActivation(c) ==
  Chain[CHOOSE p \in Activations(c) : \A q \in Activations(c) : p <= q].block

CampaignsExact ==
  \A c \in Campaign, p \in Position :
    Creates(p, c) /\ InScope(p) /\ Chain[p].block <= cursor =>
      IF \E q \in Activations(c) : Chain[q].block <= cursor
      THEN campaigns[c] = FirstActivation(c)
      ELSE campaigns[c] \in {NotActivated} \cup {FirstActivation(c) : q \in Activations(c)}

(***************************************************************************)
(* A stored event has its block's timestamp, which the metrics join with   *)
(* (metrics.js:62-65), unless the node answered null for the block.        *)
(***************************************************************************)
StampedUnlessNull ==
  \A p \in raw : Chain[p].block \in stamps \cup nulls

(***************************************************************************)
(* Every known event in a block from the sweep's start on is stored, once  *)
(* the chain has the block, in spite of failing calls and crashes.  (A     *)
(* process that dies before its first chunk is recorded starts at another  *)
(* block when START_BLOCK is "auto".  A START_BLOCK above the head sets no *)
(* cursor, the tail then looks after the head in every round (index.js:54) *)
(* and the sweep never starts.)                                            *)
(***************************************************************************)
EventBlocks == {Chain[p].block : p \in {q \in Position : Known(q)}}

AllIndexed ==
  \A n \in EventBlocks :
    LET passed == first # None /\ n >= first
        events == {p \in Position : Known(p) /\ Chain[p].block = n}
    IN  (passed /\ n <= head) ~> (events \subseteq raw \/ ~passed)
=============================================================================
