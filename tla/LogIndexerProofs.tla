-------------------------- MODULE LogIndexerProofs --------------------------
(***************************************************************************)
(* Theorems about LogIndexer, for every chain and every value of its       *)
(* constants: the cursor tells the truth, stored events have their         *)
(* timestamps, splitting failing ranges loses and repeats nothing, and the *)
(* campaigns table is exact.                                               *)
(*                                                                         *)
(* The invariant follows the chunk in hand through the loop: each of its   *)
(* blocks is in a range already answered or in one still to be asked for,  *)
(* until all of them are answered and then stored.  The answered ranges    *)
(* follow one another, so that their logs are a stretch of the chain, and  *)
(* storing stretches that leave out none is as good as storing all once.   *)
(***************************************************************************)
EXTENDS LogIndexer, CollectionProofs

Busy == pc \in {"logs", "stamp", "store", "mark"}

(***************************************************************************)
(* Types, as far as the proofs need them.                                  *)
(***************************************************************************)
Typed ==
  /\ head \in Nat
  /\ startBlock \in StartBlocks
  /\ cursor \in Nat \cup {None}
  /\ raw \subseteq Position
  /\ pc \in PCs
  /\ tailing \in BOOLEAN
  /\ chunk \in [start : Nat, end : Nat, to : Nat]
  /\ asks \in Seq(Ask)
  /\ pc = "logs" => asks # <<>>
  /\ got \in Seq(Ask)
  /\ first \in Nat \cup {None}

(***************************************************************************)
(* A range that lies in the chunk, and the blocks some ranges cover.       *)
(***************************************************************************)
Inside(range) == chunk.start <= range.from /\ range.to <= chunk.end

Covers(ranges, b) == \E i \in DOMAIN ranges : b \in ranges[i].from .. ranges[i].to

(***************************************************************************)
(* The chunk in hand: where it lies, and what is known of its blocks.      *)
(***************************************************************************)
ChunkPlaced ==
  Busy =>
    /\ first # None
    /\ chunk.start = IF cursor = None THEN first ELSE cursor + 1
    /\ chunk.start <= chunk.end
    /\ chunk.end < chunk.start + CHUNK_SIZE
    /\ chunk.end <= chunk.to
    /\ \A i \in DOMAIN asks : Inside(asks[i])
    /\ \A i \in DOMAIN got : Inside(got[i])

ChunkCovered ==
  \A b \in chunk.start .. chunk.end :
    /\ pc = "logs" => Covers(got, b) \/ Covers(asks, b)
    /\ pc \in {"stamp", "store", "mark"} => Covers(got, b)

ChunkStored ==
  pc = "mark" =>
    \A p \in Position :
      Known(p) /\ Chain[p].block \in chunk.start .. chunk.end => p \in raw

(***************************************************************************)
(* Where the sweeps start: never further back than the one before, as long *)
(* as the cursor is not set.                                               *)
(***************************************************************************)
StartPlaced ==
  /\ first # None =>
       first <= IF startBlock = AutoStart THEN Larger(0, head - BACKFILL_DEPTH)
                ELSE startBlock
  /\ cursor # None => first # None /\ first <= cursor
  /\ cursor = None => \A p \in raw : first # None /\ Chain[p].block < first + CHUNK_SIZE

CursorInv ==
  Typed /\ ChunkPlaced /\ ChunkCovered /\ ChunkStored /\ StartPlaced /\ IndexedExactly

(***************************************************************************)
(* What is known of the timestamps of the chunk's logs.                    *)
(***************************************************************************)
StampInv ==
  /\ pc = "stamp" =>
       \A p \in Holds(got) : Chain[p].block \in stamps \cup nulls \cup missing
  /\ pc = "store" =>
       \A p \in Holds(got) : Chain[p].block \in stamps \cup nulls
  /\ StampedUnlessNull
-----------------------------------------------------------------------------
(* Facts about the operators                                               *)

LEMMA BlocksAreNumbers ==
  /\ \A p \in Position : Chain[p].block \in Nat
  /\ StartBlocks \subseteq Nat \cup {AutoStart}
  /\ FirstHead \in Nat /\ BACKFILL_DEPTH \in Nat
  /\ MAX_SPLITS \in Nat
  /\ CHUNK_SIZE \in Nat /\ CHUNK_SIZE > 0
<1> DEFINE Log == [block : Nat, kind : Kinds, campaign : Campaign]
<1>0. Chain \in Seq(Log)
  BY IndexerAssumption
<1> HIDE DEF Log
<1>1. \A p \in DOMAIN Chain : Chain[p] \in Log
  BY <1>0
<1>2. \A p \in Position : Chain[p].block \in Nat
  BY <1>1 DEF Position, Log
<1>3. /\ BACKFILL_DEPTH \in Nat /\ FirstHead \in Nat /\ MAX_SPLITS \in Nat
      /\ CHUNK_SIZE \in Nat \ {0} /\ StartBlocks \subseteq Nat \cup {AutoStart}
  BY IndexerAssumption
<1> QED
  BY <1>2, <1>3

\* The two halves of a range are ranges, and cover what it covers.
LEMMA HalvesSplit ==
  ASSUME NEW ask \in Ask, CanSplit(ask)
  PROVE  /\ Halves(ask) \in Seq(Ask) /\ Len(Halves(ask)) = 2
         /\ DOMAIN Halves(ask) = {1, 2}
         /\ Halves(ask)[1] \in Ask /\ Halves(ask)[2] \in Ask
         /\ \A i \in {1, 2} : /\ ask.from <= Halves(ask)[i].from
                             /\ Halves(ask)[i].to <= ask.to
         /\ \A b \in ask.from .. ask.to : Covers(Halves(ask), b)
<1> DEFINE mid == (ask.from + ask.to) \div 2
           left == [from |-> ask.from, to |-> mid, depth |-> ask.depth + 1]
           right == [from |-> mid + 1, to |-> ask.to, depth |-> ask.depth + 1]
<1>1. /\ ask.from \in Nat /\ ask.to \in Nat /\ ask.depth \in Nat
      /\ ask.depth + 1 \in 0 .. MAX_SPLITS /\ ask.from < ask.to
  BY BlocksAreNumbers DEF Ask, CanSplit
<1>2. mid \in Nat /\ ask.from <= mid /\ mid < ask.to
  BY <1>1
<1>3. left \in Ask /\ right \in Ask
  BY <1>1, <1>2 DEF Ask
<1>4. Halves(ask) = <<left, right>>
  BY DEF Halves
<1>5. \A b \in ask.from .. ask.to : b \in left.from .. left.to \/ b \in right.from .. right.to
  BY <1>1, <1>2
<1> HIDE DEF left, right
<1>6. /\ Halves(ask) \in Seq(Ask) /\ Len(Halves(ask)) = 2
      /\ Halves(ask)[1] = left /\ Halves(ask)[2] = right
      /\ DOMAIN Halves(ask) = {1, 2}
  BY <1>3, <1>4
<1>7. /\ ask.from <= left.from /\ left.to <= ask.to
      /\ ask.from <= right.from /\ right.to <= ask.to
  BY <1>1, <1>2 DEF left, right
<1> QED
  BY <1>3, <1>5, <1>6, <1>7 DEF Covers

\* The ranges of a stack whose first range is replaced by two.
LEMMA StackSplit ==
  ASSUME NEW h \in Seq(Ask), NEW s \in Seq(Ask), s # <<>>, Len(h) > 0
  PROVE  LET t == h \o Tail(s)
         IN  /\ t \in Seq(Ask) /\ t # <<>>
             /\ \A i \in DOMAIN t : \/ \E j \in DOMAIN h : t[i] = h[j]
                                   \/ \E j \in DOMAIN s : t[i] = s[j]
             /\ \A b : Covers(h, b) => Covers(t, b)
             /\ \A b : Covers(s, b) /\ b \notin s[1].from .. s[1].to => Covers(t, b)
<1> DEFINE t == h \o Tail(s)
<1>1. /\ Tail(s) \in Seq(Ask) /\ Len(Tail(s)) = Len(s) - 1 /\ Len(s) > 0
      /\ \A i \in 1 .. Len(s) - 1 : Tail(s)[i] = s[i + 1]
  OBVIOUS
<1>2. /\ t \in Seq(Ask) /\ Len(t) = Len(h) + Len(s) - 1
      /\ \A i \in 1 .. Len(h) : t[i] = h[i]
      /\ \A i \in 1 .. Len(s) - 1 : t[Len(h) + i] = s[i + 1]
  BY <1>1
<1>3. DOMAIN t = 1 .. Len(t) /\ DOMAIN h = 1 .. Len(h) /\ DOMAIN s = 1 .. Len(s)
  BY <1>2
<1> HIDE DEF t
<1>4. t # <<>>
  BY <1>1, <1>2
<1>5. ASSUME NEW i \in DOMAIN t
      PROVE  \/ \E j \in DOMAIN h : t[i] = h[j]
             \/ \E j \in DOMAIN s : t[i] = s[j]
  <2>1. CASE i <= Len(h)
    BY <1>2, <1>3, <2>1
  <2>2. CASE ~(i <= Len(h))
    <3>1. i - Len(h) \in 1 .. Len(s) - 1 /\ Len(h) + (i - Len(h)) = i
      BY <1>2, <1>3, <2>2
    <3>2. t[i] = s[i - Len(h) + 1] /\ i - Len(h) + 1 \in DOMAIN s
      BY <1>2, <1>3, <3>1
    <3> QED
      BY <3>2
  <2> QED
    BY <2>1, <2>2
<1>6. ASSUME NEW b, Covers(h, b) PROVE Covers(t, b)
  BY <1>1, <1>2, <1>3, <1>6 DEF Covers
<1>7. ASSUME NEW b, Covers(s, b), b \notin s[1].from .. s[1].to
      PROVE  Covers(t, b)
  <2>1. PICK j \in DOMAIN s : b \in s[j].from .. s[j].to
    BY <1>7 DEF Covers
  <2>2. j - 1 \in 1 .. Len(s) - 1 /\ (j - 1) + 1 = j
    BY <1>3, <1>7, <2>1
  <2>3. t[Len(h) + (j - 1)] = s[j] /\ Len(h) + (j - 1) \in DOMAIN t
    BY <1>2, <1>3, <2>2
  <2> QED
    BY <2>1, <2>3 DEF Covers
<1> QED
  BY <1>2, <1>4, <1>5, <1>6, <1>7 DEF t
-----------------------------------------------------------------------------
(* Types                                                                   *)

LEMMA TypedInit == Init => Typed
<1>1. Init => head \in Nat
  BY BlocksAreNumbers DEF Init
<1>2. <<>> \in Seq(Ask)
  OBVIOUS
<1>3. Init => /\ startBlock \in StartBlocks /\ cursor = None /\ first = None
              /\ raw = {} /\ pc = "down" /\ tailing = FALSE
              /\ asks = <<>> /\ got = <<>> /\ chunk = NoChunk
  BY DEF Init
<1>4. NoChunk \in [start : Nat, end : Nat, to : Nat] /\ "down" \in PCs
  BY DEF NoChunk, PCs
<1> QED
  BY <1>1, <1>2, <1>3, <1>4 DEF Typed

\* Between two sweeps, and where a chunk begins.
LEMMA BetweenTyped ==
  ASSUME NEW where \in PCs \ {"logs"}, Between(where)
  PROVE  /\ pc' \in PCs /\ pc' # "logs"
         /\ chunk' \in [start : Nat, end : Nat, to : Nat]
         /\ asks' \in Seq(Ask) /\ got' \in Seq(Ask)
BY DEF Between, NoChunk

LEMMA NextChunkTyped ==
  ASSUME NEW from \in Nat, NEW to \in Nat, from <= to, NextChunk(from, to)
  PROVE  /\ pc' = "logs"
         /\ chunk' \in [start : Nat, end : Nat, to : Nat]
         /\ chunk'.start = from /\ chunk'.to = to
         /\ from <= chunk'.end /\ chunk'.end <= to
         /\ chunk'.end < from + CHUNK_SIZE
         /\ asks' = <<[from |-> from, to |-> chunk'.end, depth |-> 0]>>
         /\ asks' \in Seq(Ask) /\ asks' # <<>>
         /\ got' = <<>> /\ got' \in Seq(Ask)
<1> DEFINE end == Smaller(from + CHUNK_SIZE - 1, to)
           ask == [from |-> from, to |-> end, depth |-> 0]
<1>1. end \in Nat /\ from <= end /\ end <= to /\ end < from + CHUNK_SIZE
  BY BlocksAreNumbers DEF Smaller
<1>2. chunk' = [start |-> from, end |-> end, to |-> to]
  BY DEF NextChunk
<1>3. asks' = <<ask>>
  BY DEF NextChunk
<1>4. pc' = "logs" /\ got' = <<>>
  BY DEF NextChunk
<1>5. ask \in Ask
  BY <1>1, BlocksAreNumbers DEF Ask
<1> HIDE DEF end
<1>6. asks' \in Seq(Ask) /\ asks' # <<>> /\ got' \in Seq(Ask)
  BY <1>3, <1>4, <1>5
<1> QED
  BY <1>1, <1>2, <1>3, <1>4, <1>6

\* A sweep starts at a block number that is not after the head.
LEMMA FromTyped ==
  ASSUME Typed
  PROVE  /\ ResolveStart \in Nat /\ TailFrom \in Nat
         /\ cursor # None => ResolveStart = cursor + 1 /\ TailFrom = cursor + 1
         /\ cursor = None => TailFrom > head
BY BlocksAreNumbers DEF Typed, ResolveStart, TailFrom, Larger, None, AutoStart

LEMMA TypedStep ==
  ASSUME Typed, [Next]_vars
  PROVE  Typed'
<1> DEFINE Chunks == [start : Nat, end : Nat, to : Nat]
<1>0. asks \in Seq(Ask) /\ got \in Seq(Ask) /\ chunk \in Chunks
  BY DEF Typed
<1>1. CASE Boot \/ Poll
  <2>1. Between("head")
    BY <1>1 DEF Boot, Poll
  <2>2. "head" \in PCs \ {"logs"}
    BY DEF PCs
  <2>3. /\ pc' \in PCs /\ pc' # "logs" /\ chunk' \in Chunks
        /\ asks' \in Seq(Ask) /\ got' \in Seq(Ask)
    BY <2>1, <2>2, BetweenTyped
  <2> QED
    BY <1>1, <2>3 DEF Boot, Poll, Typed, databaseVars, historyVars
<1>2. ASSUME Throw
      PROVE  /\ pc' \in PCs /\ pc' # "logs" /\ chunk' \in Chunks
             /\ asks' \in Seq(Ask) /\ got' \in Seq(Ask) /\ tailing' = tailing
  <2> DEFINE where == IF tailing THEN "sleep" ELSE "down"
  <2>1. where \in PCs \ {"logs"}
    BY DEF PCs
  <2>2. Between(where) /\ tailing' = tailing
    BY <1>2 DEF Throw
  <2> QED
    BY <2>1, <2>2, BetweenTyped
<1>3. CASE HeadFails \/ StampsFail
  <2>1. Throw
    BY <1>3 DEF HeadFails, StampsFail
  <2>2. UNCHANGED <<head, startBlock, cursor, raw, first>>
    BY <1>3 DEF HeadFails, StampsFail, databaseVars
  <2> QED
    BY <1>2, <2>1, <2>2 DEF Typed
<1>4. CASE HeadRead
  <2> DEFINE from == IF tailing THEN TailFrom ELSE ResolveStart
  <2>1. from \in Nat /\ head \in Nat
    BY FromTyped DEF Typed
  <2>2. UNCHANGED <<head, startBlock, cursor, raw>>
    BY <1>4 DEF HeadRead, databaseVars
  <2>3. CASE from > head
    <3>1. Between("sleep") /\ tailing' = TRUE /\ first' = first
      BY <1>4, <2>3 DEF HeadRead
    <3>2. "sleep" \in PCs \ {"logs"}
      BY DEF PCs
    <3>3. /\ pc' \in PCs /\ pc' # "logs" /\ chunk' \in Chunks
          /\ asks' \in Seq(Ask) /\ got' \in Seq(Ask)
      BY <3>1, <3>2, BetweenTyped
    <3> QED
      BY <2>2, <3>1, <3>3 DEF Typed
  <2>4. CASE ~(from > head)
    <3>1. /\ NextChunk(from, head) /\ tailing' = tailing
          /\ first' = IF cursor = None THEN from ELSE first
      BY <1>4, <2>4 DEF HeadRead
    <3>2. /\ pc' = "logs" /\ chunk' \in Chunks
          /\ asks' \in Seq(Ask) /\ asks' # <<>> /\ got' \in Seq(Ask)
      <4> HIDE DEF from
      <4> QED
        BY <2>1, <2>4, <3>1, NextChunkTyped
    <3>3. first' \in Nat \cup {None}
      BY <2>1, <3>1 DEF Typed
    <3> QED
      BY <2>2, <3>1, <3>2, <3>3 DEF Typed, PCs
  <2> QED
    BY <2>3, <2>4
<1>5. CASE LogsArrive
  <2>1. /\ asks # <<>> /\ got' = Append(got, asks[1]) /\ asks' = Tail(asks)
        /\ UNCHANGED <<head, startBlock, cursor, raw, tailing, chunk, first>>
    BY <1>5 DEF LogsArrive, Typed, databaseVars, historyVars
  <2>2. asks[1] \in Ask /\ got' \in Seq(Ask) /\ asks' \in Seq(Ask)
    BY <1>0, <2>1
  <2>3. CASE Len(asks) > 1
    <3>1. asks' # <<>>
      BY <1>0, <2>1, <2>3
    <3>2. pc' = pc
      BY <1>5, <2>3 DEF LogsArrive
    <3> QED
      BY <2>1, <2>2, <3>1, <3>2 DEF Typed
  <2>4. CASE ~(Len(asks) > 1)
    <3>1. pc' \in {"mark", "store", "stamp"}
      BY <1>5, <2>4 DEF LogsArrive
    <3> QED
      BY <2>1, <2>2, <3>1 DEF Typed, PCs
  <2> QED
    BY <2>3, <2>4
<1>6. CASE LogsFail
  <2>1. asks # <<>> /\ UNCHANGED <<head, startBlock, cursor, raw, first>>
    BY <1>6 DEF LogsFail, Typed, databaseVars
  <2>2. asks[1] \in Ask
    BY <1>0, <2>1
  <2>3. CASE CanSplit(asks[1])
    <3>1. /\ asks' = Halves(asks[1]) \o Tail(asks)
          /\ UNCHANGED <<pc, tailing, chunk, got>>
      BY <1>6, <2>3 DEF LogsFail
    <3>2. Halves(asks[1]) \in Seq(Ask) /\ Len(Halves(asks[1])) > 0
      BY <2>2, <2>3, HalvesSplit
    <3>3. asks' \in Seq(Ask) /\ asks' # <<>>
      BY <1>0, <2>1, <3>1, <3>2, StackSplit
    <3> QED
      BY <2>1, <3>1, <3>3 DEF Typed
  <2>4. CASE ~CanSplit(asks[1])
    BY <1>2, <1>6, <2>1, <2>4 DEF LogsFail, Typed
  <2> QED
    BY <2>3, <2>4
<1>7. CASE StampsArrive
  <2>1. pc' \in {"store", "stamp"}
    BY <1>7 DEF StampsArrive
  <2> QED
    BY <1>7, <2>1 DEF StampsArrive, Typed, PCs
<1>8. CASE Store
  <2>1. raw' \subseteq Position /\ pc' = "mark"
    BY <1>8 DEF Store, Typed, Holds
  <2> QED
    BY <1>8, <2>1 DEF Store, Typed, PCs, historyVars
<1>9. CASE Mark
  <2>1. chunk.end \in Nat /\ chunk.to \in Nat
    BY <1>0
  <2>2. /\ cursor' = chunk.end
        /\ UNCHANGED <<head, startBlock, raw, first>>
    BY <1>9 DEF Mark, CursorAt, historyVars
  <2>3. CASE chunk.end < chunk.to
    <3>1. NextChunk(chunk.end + 1, chunk.to) /\ tailing' = tailing
      BY <1>9, <2>3 DEF Mark
    <3>2. /\ pc' = "logs" /\ chunk' \in Chunks
          /\ asks' \in Seq(Ask) /\ asks' # <<>> /\ got' \in Seq(Ask)
      <4>1. chunk.end + 1 \in Nat /\ chunk.end + 1 <= chunk.to
        BY <2>1, <2>3
      <4> QED
        BY <2>1, <3>1, <4>1, NextChunkTyped
    <3> QED
      BY <2>1, <2>2, <3>1, <3>2 DEF Typed, PCs
  <2>4. CASE ~(chunk.end < chunk.to)
    <3>1. Between("sleep") /\ tailing' = TRUE
      BY <1>9, <2>4 DEF Mark
    <3>2. "sleep" \in PCs \ {"logs"}
      BY DEF PCs
    <3>3. /\ pc' \in PCs /\ pc' # "logs" /\ chunk' \in Chunks
          /\ asks' \in Seq(Ask) /\ got' \in Seq(Ask)
      BY <3>1, <3>2, BetweenTyped
    <3> QED
      BY <2>1, <2>2, <3>1, <3>3 DEF Typed
  <2> QED
    BY <2>3, <2>4
<1>10. CASE Crash
  <2>1. Between("down") /\ tailing' = FALSE
    BY <1>10 DEF Crash
  <2>2. "down" \in PCs \ {"logs"}
    BY DEF PCs
  <2>3. /\ pc' \in PCs /\ pc' # "logs" /\ chunk' \in Chunks
        /\ asks' \in Seq(Ask) /\ got' \in Seq(Ask)
    BY <2>1, <2>2, BetweenTyped
  <2> QED
    BY <1>10, <2>1, <2>3 DEF Crash, Typed
<1>11. CASE Grow \/ UNCHANGED vars
  BY <1>11 DEF Grow, Typed, vars, databaseVars, processVars, historyVars
<1> QED
  BY <1>1, <1>3, <1>4, <1>5, <1>6, <1>7, <1>8, <1>9, <1>10, <1>11
  DEF Next, Run
-----------------------------------------------------------------------------
(* The cursor                                                              *)

\* What is read off the stack is answered.
LEMMA AnswerCovers ==
  ASSUME NEW s \in Seq(Ask), s # <<>>, NEW g \in Seq(Ask)
  PROVE  /\ \A b : Covers(g, b) => Covers(Append(g, s[1]), b)
         /\ \A b : b \in s[1].from .. s[1].to => Covers(Append(g, s[1]), b)
         /\ \A b : Covers(s, b) => \/ b \in s[1].from .. s[1].to
                                 \/ Covers(Tail(s), b)
         /\ Len(s) = 1 => \A b : ~Covers(Tail(s), b)
         /\ \A i \in DOMAIN Append(g, s[1]) :
              \/ Append(g, s[1])[i] = s[1]
              \/ i \in DOMAIN g /\ Append(g, s[1])[i] = g[i]
         /\ \A i \in DOMAIN Tail(s) : i + 1 \in DOMAIN s /\ Tail(s)[i] = s[i + 1]
<1> DEFINE a == s[1]
           h == Append(g, a)
           t == Tail(s)
<1>1. /\ a \in Ask /\ Len(s) > 0 /\ DOMAIN s = 1 .. Len(s)
  OBVIOUS
<1>2. /\ Len(h) = Len(g) + 1 /\ DOMAIN h = 1 .. Len(g) + 1
      /\ DOMAIN g = 1 .. Len(g) /\ Len(g) \in Nat
      /\ h[Len(g) + 1] = a /\ \A i \in 1 .. Len(g) : h[i] = g[i]
  BY <1>1
<1>3. /\ DOMAIN t = 1 .. Len(s) - 1 /\ Len(s) \in Nat
      /\ \A i \in 1 .. Len(s) - 1 : t[i] = s[i + 1]
  BY <1>1
<1> HIDE DEF h, t
<1>4. ASSUME NEW b, Covers(g, b) PROVE Covers(h, b)
  BY <1>2, <1>4 DEF Covers
<1>5. ASSUME NEW b, b \in a.from .. a.to PROVE Covers(h, b)
  BY <1>2, <1>5 DEF Covers
<1>6. ASSUME NEW b, Covers(s, b), b \notin a.from .. a.to PROVE Covers(t, b)
  <2>1. PICK j \in DOMAIN s : b \in s[j].from .. s[j].to
    BY <1>6 DEF Covers
  <2>2. j - 1 \in 1 .. Len(s) - 1 /\ t[j - 1] = s[j]
    BY <1>1, <1>3, <1>6, <2>1
  <2> QED
    BY <1>3, <2>1, <2>2 DEF Covers
<1>7. Len(s) = 1 => \A b : ~Covers(t, b)
  BY <1>3 DEF Covers
<1>8. \A i \in DOMAIN h : h[i] = a \/ (i \in DOMAIN g /\ h[i] = g[i])
  BY <1>2
<1>9. \A i \in DOMAIN t : i + 1 \in DOMAIN s /\ t[i] = s[i + 1]
  BY <1>1, <1>3
<1> QED
  BY <1>4, <1>5, <1>6, <1>7, <1>8, <1>9 DEF h, t

\* A log in a covered block is held.
LEMMA CoveredHeld ==
  ASSUME NEW ranges, NEW p \in Position
  PROVE  p \in Holds(ranges) <=> Covers(ranges, Chain[p].block)
BY DEF Holds, Covers

\* Nothing changes for a process that is between two sweeps.
LEMMA IdleStep ==
  ASSUME CursorInv, pc' \in {"head", "sleep", "down"},
         UNCHANGED <<head, startBlock, cursor, raw, first>>
  PROVE  /\ ChunkPlaced' /\ ChunkCovered' /\ ChunkStored'
         /\ StartPlaced' /\ IndexedExactly'
BY DEF CursorInv, ChunkPlaced, ChunkCovered, ChunkStored, Busy, StartPlaced,
       IndexedExactly, InScope

\* A chunk begins.
LEMMA NextChunkPlaced ==
  ASSUME NEW from \in Nat, NEW to \in Nat, from <= to, NextChunk(from, to),
         first' # None, from = IF cursor' = None THEN first' ELSE cursor' + 1
  PROVE  ChunkPlaced' /\ ChunkCovered' /\ ChunkStored'
<1>1. /\ pc' = "logs"
      /\ chunk'.start = from /\ chunk'.to = to
      /\ from <= chunk'.end /\ chunk'.end <= to
      /\ chunk'.end < from + CHUNK_SIZE
      /\ asks' = <<[from |-> from, to |-> chunk'.end, depth |-> 0]>>
      /\ got' = <<>>
  BY NextChunkTyped
<1>2. /\ DOMAIN asks' = {1} /\ asks'[1].from = from /\ asks'[1].to = chunk'.end
      /\ DOMAIN got' = {}
  BY <1>1
<1>3. ChunkPlaced'
  <2>1. /\ \A i \in DOMAIN asks' : Inside(asks[i])'
        /\ \A i \in DOMAIN got' : Inside(got[i])'
    <3>1. from <= from /\ chunk'.end <= chunk'.end
      BY <1>1, NextChunkTyped
    <3> QED
      BY <1>1, <1>2, <3>1 DEF Inside
  <2> QED
    BY <1>1, <2>1 DEF ChunkPlaced
<1>4. ChunkCovered'
  BY <1>1, <1>2 DEF ChunkCovered, Covers
<1> QED
  BY <1>1, <1>3, <1>4 DEF ChunkStored

LEMMA HeadReadStep ==
  ASSUME CursorInv, HeadRead
  PROVE  /\ ChunkPlaced' /\ ChunkCovered' /\ ChunkStored'
         /\ StartPlaced' /\ IndexedExactly'
<1> DEFINE from == IF tailing THEN TailFrom ELSE ResolveStart
<1>1. /\ from \in Nat /\ head \in Nat
      /\ cursor # None => from = cursor + 1
      /\ cursor = None /\ tailing => from > head
  BY FromTyped DEF CursorInv, Typed
<1>2. UNCHANGED <<head, startBlock, cursor, raw>>
  BY DEF HeadRead, databaseVars
<1>3. CASE from > head
  <2>1. pc' = "sleep" /\ first' = first
    BY <1>3 DEF HeadRead, Between
  <2> QED
    BY <1>2, <2>1, IdleStep
<1>4. CASE ~(from > head)
  <2>1. NextChunk(from, head) /\ first' = IF cursor = None THEN from ELSE first
    BY <1>4 DEF HeadRead
  <2>2. /\ first' # None
        /\ from = IF cursor' = None THEN first' ELSE cursor' + 1
    BY <1>1, <1>2, <2>1 DEF CursorInv, StartPlaced, None
  <2>3. ChunkPlaced' /\ ChunkCovered' /\ ChunkStored'
    <3> HIDE DEF from
    <3> QED
      BY <1>1, <1>4, <2>1, <2>2, NextChunkPlaced
  <2>4. CASE cursor # None
    <3>1. first' = first
      BY <2>1, <2>4
    <3>2. StartPlaced' /\ IndexedExactly'
      BY <1>2, <2>4, <3>1
      DEF CursorInv, StartPlaced, IndexedExactly, InScope
    <3> QED
      BY <2>3, <3>2
  <2>5. CASE cursor = None
    <3>1. /\ first' = from
          /\ from = IF startBlock = AutoStart THEN Larger(0, head - BACKFILL_DEPTH)
                    ELSE startBlock
      BY <1>1, <1>4, <2>1, <2>5 DEF ResolveStart
    <3>2. \A p \in raw : Chain[p].block < from + CHUNK_SIZE
      <4>1. TAKE p \in raw
      <4>2. first # None /\ Chain[p].block < first + CHUNK_SIZE /\ first <= from
        BY <2>5, <3>1 DEF CursorInv, StartPlaced
      <4>3. /\ Chain[p].block \in Nat /\ first \in Nat /\ CHUNK_SIZE \in Nat
            /\ from \in Nat
        BY <1>1, <4>2, BlocksAreNumbers DEF CursorInv, Typed
      <4> HIDE DEF from
      <4> QED
        BY <4>2, <4>3
    <3>3. StartPlaced'
      <4>1. from <= from
        BY <1>1
      <4> QED
        BY <1>2, <2>2, <2>5, <3>1, <3>2, <4>1 DEF StartPlaced
    <3>4. IndexedExactly'
      <4>1. \A p \in Position : ~(Chain[p].block <= None)
        BY BlocksAreNumbers DEF None
      <4> QED
        BY <1>2, <2>5, <4>1 DEF CursorInv, IndexedExactly
    <3> QED
      BY <2>3, <3>3, <3>4
  <2> QED
    BY <2>4, <2>5
<1> QED
  BY <1>3, <1>4

\* An answer arrives.
LEMMA LogsArriveStep ==
  ASSUME CursorInv, LogsArrive
  PROVE  /\ ChunkPlaced' /\ ChunkCovered' /\ ChunkStored'
         /\ StartPlaced' /\ IndexedExactly'
<1>1. /\ pc = "logs" /\ asks \in Seq(Ask) /\ asks # <<>> /\ got \in Seq(Ask)
      /\ got' = Append(got, asks[1]) /\ asks' = Tail(asks)
      /\ UNCHANGED <<head, startBlock, cursor, raw, chunk, first>>
      /\ pc' \in {"logs", "stamp", "store", "mark"}
  <2>1. /\ pc = "logs" /\ asks \in Seq(Ask) /\ asks # <<>> /\ got \in Seq(Ask)
    BY DEF CursorInv, Typed, LogsArrive
  <2>2. /\ got' = Append(got, asks[1]) /\ asks' = Tail(asks)
        /\ UNCHANGED <<head, startBlock, cursor, raw, chunk, first>>
    BY DEF LogsArrive, databaseVars, historyVars
  <2>3. pc' \in {"logs", "stamp", "store", "mark"}
    BY DEF LogsArrive
  <2> QED
    BY <2>1, <2>2, <2>3
<1>2. /\ \A b : Covers(got, b) => Covers(got', b)
      /\ \A b : b \in asks[1].from .. asks[1].to => Covers(got', b)
      /\ \A b : Covers(asks, b) => \/ b \in asks[1].from .. asks[1].to
                                 \/ Covers(asks', b)
      /\ Len(asks) = 1 => \A b : ~Covers(asks', b)
  BY <1>1, AnswerCovers
<1>3. ChunkPlaced'
  <2>1. 1 \in DOMAIN asks
    BY <1>1
  <2>2. /\ \A i \in DOMAIN got' : got'[i] = asks[1] \/ (i \in DOMAIN got /\ got'[i] = got[i])
        /\ \A i \in DOMAIN asks' : i + 1 \in DOMAIN asks /\ asks'[i] = asks[i + 1]
    BY <1>1, AnswerCovers
  <2>3. ChunkPlaced
    BY DEF CursorInv
  <2>4. /\ \A i \in DOMAIN got' : Inside(got[i])'
        /\ \A i \in DOMAIN asks' : Inside(asks[i])'
    BY <1>1, <2>1, <2>2, <2>3 DEF ChunkPlaced, Busy, Inside
  <2> QED
    BY <1>1, <2>3, <2>4 DEF ChunkPlaced, Busy
<1>4. \A b \in chunk.start .. chunk.end : Covers(got', b) \/ Covers(asks', b)
  BY <1>1, <1>2 DEF CursorInv, ChunkCovered
<1>5. pc' # "logs" => Len(asks) = 1
  <2>1. SUFFICES ASSUME pc' # "logs" PROVE Len(asks) = 1
    OBVIOUS
  <2>2. ~(Len(asks) > 1)
    BY <1>1, <2>1 DEF LogsArrive
  <2>3. PICK n \in Nat : n = Len(asks) /\ n > 0
    BY <1>1
  <2> QED
    BY <2>2, <2>3
<1>6. ChunkCovered'
  BY <1>1, <1>2, <1>4, <1>5 DEF ChunkCovered
<1>7. ChunkStored'
  <2>1. SUFFICES ASSUME pc' = "mark", NEW p \in Position,
                        Chain[p].block \in chunk.start .. chunk.end
                 PROVE  FALSE
    BY <1>1 DEF ChunkStored
  <2>2. Covers(got', Chain[p].block)
    BY <1>2, <1>4, <1>5, <2>1
  <2>3. Holds(got') = {}
    BY <1>1, <2>1 DEF LogsArrive
  <2> QED
    BY <2>2, <2>3, CoveredHeld
<1>8. StartPlaced' /\ IndexedExactly'
  BY <1>1 DEF CursorInv, StartPlaced, IndexedExactly, InScope
<1> QED
  BY <1>3, <1>6, <1>7, <1>8

\* A call for logs fails.
LEMMA LogsFailStep ==
  ASSUME CursorInv, LogsFail
  PROVE  /\ ChunkPlaced' /\ ChunkCovered' /\ ChunkStored'
         /\ StartPlaced' /\ IndexedExactly'
<1>1. /\ pc = "logs" /\ asks \in Seq(Ask) /\ asks # <<>>
      /\ UNCHANGED <<head, startBlock, cursor, raw, first>>
  BY DEF CursorInv, Typed, LogsFail, databaseVars
<1>2. CASE ~CanSplit(asks[1])
  <2>1. pc' \in {"head", "sleep", "down"}
    BY <1>2 DEF LogsFail, Throw, Between
  <2> QED
    BY <1>1, <2>1, IdleStep
<1>3. CASE CanSplit(asks[1])
  <2> DEFINE h == Halves(asks[1])
  <2>1. asks' = h \o Tail(asks) /\ UNCHANGED <<pc, chunk, got>>
    BY <1>3 DEF LogsFail
  <2>2. asks[1] \in Ask /\ 1 \in DOMAIN asks
    BY <1>1
  <2>3. /\ h \in Seq(Ask) /\ Len(h) = 2 /\ DOMAIN h = {1, 2}
        /\ h[1] \in Ask /\ h[2] \in Ask
        /\ \A i \in {1, 2} : asks[1].from <= h[i].from /\ h[i].to <= asks[1].to
        /\ \A b \in asks[1].from .. asks[1].to : Covers(h, b)
    BY <1>3, <2>2, HalvesSplit
  <2> HIDE DEF h
  <2>4. /\ \A i \in DOMAIN asks' : \/ \E j \in DOMAIN h : asks'[i] = h[j]
                                  \/ \E j \in DOMAIN asks : asks'[i] = asks[j]
        /\ \A b : Covers(h, b) => Covers(asks', b)
        /\ \A b : Covers(asks, b) /\ b \notin asks[1].from .. asks[1].to
               => Covers(asks', b)
    <3> DEFINE t == h \o Tail(asks)
    <3>1. /\ \A i \in DOMAIN t : \/ \E j \in DOMAIN h : t[i] = h[j]
                               \/ \E j \in DOMAIN asks : t[i] = asks[j]
          /\ \A b : Covers(h, b) => Covers(t, b)
          /\ \A b : Covers(asks, b) /\ b \notin asks[1].from .. asks[1].to
                 => Covers(t, b)
      <4>1. Len(h) > 0
        BY <2>3
      <4> QED
        BY <1>1, <2>3, <4>1, StackSplit
    <3>2. asks' = t
      BY <2>1
    <3> HIDE DEF t
    <3> QED
      BY <3>1, <3>2
  <2>5. /\ chunk.start <= asks[1].from /\ asks[1].to <= chunk.end
        /\ ChunkPlaced
    BY <1>1, <2>2 DEF CursorInv, ChunkPlaced, Busy, Inside
  <2>6. \A j \in DOMAIN h : chunk.start <= h[j].from /\ h[j].to <= chunk.end
    <3>1. TAKE j \in DOMAIN h
    <3>2. /\ chunk.start \in Nat /\ chunk.end \in Nat
          /\ asks[1].from \in Nat /\ asks[1].to \in Nat
          /\ h[j].from \in Nat /\ h[j].to \in Nat
      <4>1. h[j] \in Ask
        BY <2>3
      <4>2. chunk \in [start : Nat, end : Nat, to : Nat]
        BY DEF CursorInv, Typed
      <4> QED
        BY <2>2, <4>1, <4>2 DEF Ask
    <3>3. asks[1].from <= h[j].from /\ h[j].to <= asks[1].to
      BY <2>3
    <3>4. chunk.start <= asks[1].from /\ asks[1].to <= chunk.end
      BY <2>5
    <3> QED
      BY <3>2, <3>3, <3>4
  <2>7. ChunkPlaced'
    <3>1. \A i \in DOMAIN asks' : Inside(asks[i])'
      BY <1>1, <2>1, <2>4, <2>5, <2>6 DEF ChunkPlaced, Busy, Inside
    <3> QED
      BY <1>1, <2>1, <2>5, <3>1 DEF ChunkPlaced, Busy, Inside
  <2>8. ChunkCovered'
    BY <1>1, <2>1, <2>3, <2>4 DEF CursorInv, ChunkCovered
  <2>9. ChunkStored' /\ StartPlaced' /\ IndexedExactly'
    BY <1>1, <2>1 DEF CursorInv, ChunkStored, StartPlaced, IndexedExactly, InScope
  <2> QED
    BY <2>7, <2>8, <2>9
<1> QED
  BY <1>2, <1>3

\* The chunk is stored.
LEMMA StoreStep ==
  ASSUME CursorInv, Store
  PROVE  /\ ChunkPlaced' /\ ChunkCovered' /\ ChunkStored'
         /\ StartPlaced' /\ IndexedExactly'
<1>1. /\ pc = "store" /\ pc' = "mark"
      /\ raw' = raw \cup {p \in Holds(got) : Known(p)}
      /\ UNCHANGED <<head, startBlock, cursor, chunk, asks, got, first>>
  BY DEF Store, historyVars
<1>2. \A p \in Position : Chain[p].block \in chunk.start .. chunk.end => p \in Holds(got)
  BY <1>1, CoveredHeld DEF CursorInv, ChunkCovered
<1>3. /\ first # None /\ first \in Nat
      /\ chunk.start = IF cursor = None THEN first ELSE cursor + 1
      /\ chunk.end < chunk.start + CHUNK_SIZE
      /\ \A i \in DOMAIN got : got[i].to <= chunk.end
      /\ chunk.start \in Nat /\ chunk.end \in Nat
      /\ cursor # None => cursor \in Nat
  BY <1>1 DEF CursorInv, Typed, ChunkPlaced, Busy, Inside
<1>4. \A p \in Holds(got) : p \in Position /\ Chain[p].block <= chunk.end
  <2>1. TAKE p \in Holds(got)
  <2>2. PICK i \in DOMAIN got : Chain[p].block \in got[i].from .. got[i].to
    BY DEF Holds
  <2>3. p \in Position
    BY DEF Holds
  <2>4. /\ Chain[p].block \in Nat /\ got[i].from \in Nat /\ got[i].to \in Nat
    <3>1. got \in Seq(Ask)
      BY DEF CursorInv, Typed
    <3>2. got[i] \in Ask
      BY <2>2, <3>1
    <3> QED
      BY <2>3, <3>2, BlocksAreNumbers DEF Ask
  <2> QED
    BY <1>3, <2>2, <2>3, <2>4
<1>5. ChunkPlaced' /\ ChunkCovered'
  BY <1>1 DEF CursorInv, ChunkPlaced, ChunkCovered, Busy, Inside
<1>6. ChunkStored'
  BY <1>1, <1>2 DEF ChunkStored
<1>7. StartPlaced'
  <2>1. cursor = None => \A p \in Holds(got) : Chain[p].block < first + CHUNK_SIZE
    BY <1>3, <1>4, BlocksAreNumbers
  <2> QED
    BY <1>1, <1>3, <2>1 DEF CursorInv, StartPlaced
<1>8. IndexedExactly'
  <2>1. cursor # None => \A p \in Holds(got) : Chain[p].block <= cursor + CHUNK_SIZE
    BY <1>3, <1>4, BlocksAreNumbers
  <2> QED
    BY <1>1, <2>1 DEF CursorInv, IndexedExactly, InScope
<1> QED
  BY <1>5, <1>6, <1>7, <1>8

\* The cursor is set.
LEMMA MarkStep ==
  ASSUME CursorInv, Mark
  PROVE  /\ ChunkPlaced' /\ ChunkCovered' /\ ChunkStored'
         /\ StartPlaced' /\ IndexedExactly'
<1>1. /\ pc = "mark" /\ cursor' = chunk.end
      /\ UNCHANGED <<head, startBlock, raw, first>>
  BY DEF Mark, CursorAt, historyVars
<1>2. /\ first # None /\ first \in Nat
      /\ chunk.start = IF cursor = None THEN first ELSE cursor + 1
      /\ chunk.start <= chunk.end
      /\ chunk.start \in Nat /\ chunk.end \in Nat /\ chunk.to \in Nat
      /\ cursor # None => cursor \in Nat /\ first <= cursor
  BY <1>1 DEF CursorInv, Typed, ChunkPlaced, Busy, StartPlaced
<1>3. cursor' # None /\ first <= cursor'
  BY <1>1, <1>2 DEF None
<1>4. StartPlaced'
  BY <1>1, <1>2, <1>3 DEF CursorInv, StartPlaced
<1>5. IndexedExactly'
  <2>1. ASSUME NEW p \in Position, Known(p), InScope(p), Chain[p].block <= cursor'
        PROVE  p \in raw
    <3>1. Chain[p].block \in Nat /\ first <= Chain[p].block
      BY <1>2, <2>1, BlocksAreNumbers DEF InScope
    <3>2. CASE Chain[p].block \in chunk.start .. chunk.end
      BY <1>1, <2>1, <3>2 DEF CursorInv, ChunkStored
    <3>3. CASE Chain[p].block \notin chunk.start .. chunk.end
      <4>1. cursor # None /\ Chain[p].block <= cursor
        BY <1>1, <1>2, <2>1, <3>1, <3>3
      <4> QED
        BY <2>1, <4>1 DEF CursorInv, IndexedExactly
    <3> QED
      BY <3>2, <3>3
  <2>2. \A p \in raw : Known(p) /\ Chain[p].block <= cursor' + CHUNK_SIZE
    <3>1. TAKE p \in raw
    <3>2. p \in Position /\ Chain[p].block \in Nat /\ CHUNK_SIZE \in Nat
      BY BlocksAreNumbers DEF CursorInv, Typed
    <3>3. CASE cursor = None
      BY <1>1, <1>2, <3>2, <3>3 DEF CursorInv, StartPlaced, IndexedExactly
    <3>4. CASE cursor # None
      BY <1>1, <1>2, <3>2, <3>4 DEF CursorInv, IndexedExactly
    <3> QED
      BY <3>3, <3>4
  <2> QED
    BY <1>1, <2>1, <2>2 DEF IndexedExactly, InScope
<1>6. CASE chunk.end < chunk.to
  <2>1. NextChunk(chunk.end + 1, chunk.to)
    BY <1>6 DEF Mark
  <2>2. /\ chunk.end + 1 \in Nat /\ chunk.end + 1 <= chunk.to
        /\ first' # None
        /\ chunk.end + 1 = IF cursor' = None THEN first' ELSE cursor' + 1
    BY <1>1, <1>2, <1>3, <1>6
  <2>3. ChunkPlaced' /\ ChunkCovered' /\ ChunkStored'
    BY <1>2, <2>1, <2>2, NextChunkPlaced
  <2> QED
    BY <1>4, <1>5, <2>3
<1>7. CASE ~(chunk.end < chunk.to)
  <2>1. pc' = "sleep"
    BY <1>7 DEF Mark, Between
  <2>2. ChunkPlaced' /\ ChunkCovered' /\ ChunkStored'
    BY <2>1 DEF ChunkPlaced, ChunkCovered, ChunkStored, Busy
  <2> QED
    BY <1>4, <1>5, <2>2
<1> QED
  BY <1>6, <1>7

LEMMA CursorStep ==
  ASSUME CursorInv, [Next]_vars
  PROVE  CursorInv'
<1>1. Typed'
  BY TypedStep DEF CursorInv
<1>2. SUFFICES /\ ChunkPlaced' /\ ChunkCovered' /\ ChunkStored'
               /\ StartPlaced' /\ IndexedExactly'
  BY <1>1 DEF CursorInv
<1>3. CASE Boot \/ Poll \/ HeadFails \/ StampsFail \/ Crash
  <2>1. /\ pc' \in {"head", "sleep", "down"}
        /\ UNCHANGED <<head, startBlock, cursor, raw, first>>
    BY <1>3 DEF Boot, Poll, HeadFails, StampsFail, Crash, Throw, Between,
                databaseVars, historyVars
  <2> QED
    BY <2>1, IdleStep
<1>4. CASE StampsArrive
  <2>1. /\ pc = "stamp" /\ pc' \in {"store", "stamp"}
        /\ UNCHANGED <<head, startBlock, cursor, raw, chunk, asks, got, first>>
    BY <1>4 DEF StampsArrive
  <2> QED
    BY <2>1 DEF CursorInv, ChunkPlaced, ChunkCovered, ChunkStored, Busy, Inside,
                StartPlaced, IndexedExactly, InScope
<1>5. CASE Grow
  <2>1. /\ head' = head + 1
        /\ UNCHANGED <<startBlock, cursor, raw, pc, chunk, asks, got, first>>
    BY <1>5 DEF Grow, databaseVars, processVars, historyVars
  <2>2. first # None =>
          first <= IF startBlock = AutoStart THEN Larger(0, head' - BACKFILL_DEPTH)
                   ELSE startBlock
    BY <2>1, BlocksAreNumbers DEF CursorInv, StartPlaced, Typed, Larger, None
  <2>3. StartPlaced'
    BY <2>1, <2>2 DEF CursorInv, StartPlaced
  <2> QED
    BY <2>1, <2>3 DEF CursorInv, ChunkPlaced, ChunkCovered, ChunkStored, Busy,
                      Inside, IndexedExactly, InScope
<1>6. CASE UNCHANGED vars
  BY <1>6 DEF vars, databaseVars, processVars, historyVars, CursorInv,
              ChunkPlaced, ChunkCovered, ChunkStored, Busy, Inside, Covers,
              StartPlaced, IndexedExactly, InScope
<1> QED
  BY <1>3, <1>4, <1>5, <1>6, HeadReadStep, LogsArriveStep, LogsFailStep,
     StoreStep, MarkStep DEF Next, Run

LEMMA CursorInit == Init => CursorInv
<1>1. ASSUME Init
      PROVE  /\ cursor = None /\ first = None /\ raw = {} /\ pc = "down"
  BY <1>1 DEF Init
<1>2. \A p \in Position : ~(Chain[p].block <= None)
  BY BlocksAreNumbers DEF None
<1> QED
  BY <1>1, <1>2, TypedInit
  DEF CursorInv, ChunkPlaced, ChunkCovered, ChunkStored, Busy, StartPlaced,
      IndexedExactly

\* Whatever call fails and whenever the process dies, the known events of
\* every block up to the cursor are stored, and those stored beyond it are
\* at most a chunk's: the cursor and the tables need no common transaction.
THEOREM CursorTellsTheTruth == Spec => []IndexedExactly
<1>1. CursorInv /\ [Next]_vars => CursorInv'
  BY CursorStep
<1>2. CursorInv => IndexedExactly
  BY DEF CursorInv
<1> QED
  BY <1>1, <1>2, CursorInit, PTL DEF Spec
-----------------------------------------------------------------------------
(* The timestamps                                                          *)

\* Timestamps are never forgotten, and only Store adds events.
LEMMA StampsKept ==
  ASSUME StampedUnlessNull, raw' = raw, stamps \subseteq stamps', nulls \subseteq nulls'
  PROVE  StampedUnlessNull'
BY DEF StampedUnlessNull

LEMMA StampStep ==
  ASSUME StampInv, [Next]_vars
  PROVE  StampInv'
<1>1. StampedUnlessNull
  BY DEF StampInv
<1>2. CASE Boot \/ Poll \/ HeadRead \/ HeadFails \/ StampsFail \/ Mark \/ Crash
  <2>1. pc' \notin {"stamp", "store"}
    BY <1>2 DEF Boot, Poll, HeadRead, HeadFails, StampsFail, Mark, Crash, Throw,
                Between, NextChunk
  <2>2. raw' = raw /\ stamps \subseteq stamps' /\ nulls' = nulls
    BY <1>2 DEF Boot, Poll, HeadRead, HeadFails, StampsFail, Mark, Crash,
                databaseVars, historyVars
  <2> QED
    BY <1>1, <2>1, <2>2, StampsKept DEF StampInv
<1>3. CASE LogsArrive
  <2>1. UNCHANGED <<raw, stamps, nulls>> /\ pc = "logs"
    BY <1>3 DEF LogsArrive, databaseVars, historyVars
  <2>2. pc' \in {"stamp", "store"} =>
          /\ missing' = {Chain[p].block : p \in Holds(got')} \ stamps
          /\ pc' = "store" => missing' = {}
    BY <1>3 DEF LogsArrive, Missing
  <2>3. pc' \in {"stamp", "store"} =>
          \A p \in Holds(got') : Chain[p].block \in stamps \cup missing'
    BY <2>2
  <2> QED
    BY <1>1, <2>1, <2>2, <2>3, StampsKept DEF StampInv
<1>4. CASE LogsFail
  <2>1. UNCHANGED <<raw, stamps, nulls>> /\ pc' \notin {"stamp", "store"}
    BY <1>4 DEF LogsFail, Throw, Between, databaseVars
  <2> QED
    BY <1>1, <2>1, StampsKept DEF StampInv
<1>5. CASE StampsArrive
  <2>1. PICK absent \in SUBSET Slice :
          nulls' = nulls \cup absent /\ stamps' = stamps \cup (Slice \ absent)
    BY <1>5 DEF StampsArrive
  <2>2. /\ pc = "stamp" /\ raw' = raw /\ got' = got
        /\ missing' = missing \ Slice
        /\ pc' = IF missing' = {} THEN "store" ELSE "stamp"
    BY <1>5 DEF StampsArrive
  <2>3. \A p \in Holds(got) : Chain[p].block \in stamps' \cup nulls' \cup missing'
    <3> HIDE DEF Slice
    <3> QED
      BY <2>1, <2>2 DEF StampInv
  <2>4. StampedUnlessNull'
    BY <1>1, <2>1, <2>2, StampsKept
  <2>5. Holds(got') = Holds(got)
    BY <2>2
  <2> QED
    BY <2>2, <2>3, <2>4, <2>5 DEF StampInv
<1>6. CASE Store
  <2>1. /\ pc = "store" /\ pc' = "mark"
        /\ raw' = raw \cup {p \in Holds(got) : Known(p)}
        /\ UNCHANGED <<stamps, nulls>>
    BY <1>6 DEF Store, historyVars
  <2> QED
    BY <1>1, <2>1 DEF StampInv, StampedUnlessNull
<1>7. CASE Grow \/ UNCHANGED vars
  <2>1. UNCHANGED <<raw, stamps, nulls, pc, got, missing>>
    BY <1>7 DEF Grow, vars, databaseVars, processVars, historyVars
  <2> QED
    BY <1>1, <2>1, StampsKept DEF StampInv, Holds
<1> QED
  BY <1>2, <1>3, <1>4, <1>5, <1>6, <1>7 DEF Next, Run

\* No event is stored before the timestamp of its block, except when the node
\* answered null for the block.
THEOREM EventsAreStamped == Spec => []StampedUnlessNull
<1>1. Init => StampInv
  BY DEF Init, StampInv, StampedUnlessNull
<1>2. StampInv /\ [Next]_vars => StampInv'
  BY StampStep
<1>3. StampInv => StampedUnlessNull
  BY DEF StampInv
<1> QED
  BY <1>1, <1>2, <1>3, PTL DEF Spec
-----------------------------------------------------------------------------
(* The answers, put together                                               *)

\* The positions after a, up to c.
Stretch(a, c) == [i \in 1 .. c - a |-> a + i]

\* Ranges that follow one another, from the first block to the last.
Chained(ranges, from, to) ==
  /\ ranges # <<>>
  /\ ranges[1].from = from
  /\ ranges[Len(ranges)].to = to
  /\ \A i \in DOMAIN ranges : ranges[i].from <= ranges[i].to
  /\ \A i \in 1 .. Len(ranges) - 1 : ranges[i + 1].from = ranges[i].to + 1

\* What has been answered and what is still to be asked for make up the chunk.
ChunkChained ==
  Busy => Chained(IF pc = "logs" THEN got \o asks ELSE got, chunk.start, chunk.end)

ReadInv == CursorInv /\ ChunkChained

\* The logs before a block are the first ones.
LEMMA BeforeCounts ==
  ASSUME NEW b \in Nat
  PROVE  /\ Before(b) \in 0 .. Len(Chain) /\ Len(Chain) \in Nat
         /\ Position = 1 .. Len(Chain)
         /\ \A p \in Position : Chain[p].block < b <=> p <= Before(b)
<1> DEFINE T == {p \in Position : Chain[p].block < b}
<1>1. Position = 1 .. Len(Chain) /\ Len(Chain) \in Nat
  BY IndexerAssumption DEF Position
<1>2. ASSUME NEW i \in T, NEW j \in 1 .. i PROVE j \in T
  <2>1. i \in Position /\ j \in Position /\ i \in Nat /\ j \in Nat
    BY <1>1
  <2>2. Chain[i].block \in Nat /\ Chain[j].block \in Nat /\ Chain[i].block < b
    BY <2>1, BlocksAreNumbers
  <2>3. j < i => Chain[j].block <= Chain[i].block
    BY <2>1, IndexerAssumption
  <2>4. j < i \/ j = i
    BY <2>1
  <2> QED
    BY <2>1, <2>2, <2>3, <2>4
<1>3. T \in SUBSET (1 .. Len(Chain)) /\ \A i \in T : 1 .. i \subseteq T
  BY <1>1, <1>2
<1>4. T = 1 .. Cardinality(T) /\ Cardinality(T) \in 0 .. Len(Chain)
  <2> HIDE DEF T
  <2> QED
    BY <1>1, <1>3, InitialSegment
<1>5. Before(b) = Cardinality(T)
  BY DEF Before
<1>6. \A p \in Position : Chain[p].block < b <=> p \in T
  OBVIOUS
<1> HIDE DEF T
<1> QED
  BY <1>1, <1>4, <1>5, <1>6

LEMMA PositionsFrom1 ==
  /\ Position = 1 .. Len(Chain) /\ Len(Chain) \in Nat
  /\ \A p \in Position : p \in Nat
BY IndexerAssumption DEF Position

LEMMA BeforeNumbers ==
  \A b \in Nat : Before(b) \in Nat /\ \A p \in Position : Chain[p].block < b <=> p <= Before(b)
<1>1. TAKE b \in Nat
<1>2. /\ Before(b) \in 0 .. Len(Chain) /\ Len(Chain) \in Nat
      /\ \A p \in Position : Chain[p].block < b <=> p <= Before(b)
  BY BeforeCounts
<1> QED
  BY <1>2

LEMMA BeforeGrows ==
  ASSUME NEW b \in Nat, NEW c \in Nat, b <= c
  PROVE  Before(b) <= Before(c)
<1>1. /\ Before(b) \in 0 .. Len(Chain) /\ Before(c) \in 0 .. Len(Chain)
      /\ Len(Chain) \in Nat /\ Position = 1 .. Len(Chain)
  BY BeforeCounts
<1>2. CASE Before(b) = 0
  BY <1>1, <1>2
<1>3. CASE Before(b) # 0
  <2> DEFINE p == Before(b)
  <2>1. p \in Position /\ p <= Before(b)
    BY <1>1, <1>3
  <2> HIDE DEF p
  <2>2. Chain[p].block < b /\ Chain[p].block \in Nat
    BY <2>1, BeforeCounts, BlocksAreNumbers
  <2>3. Chain[p].block < c
    BY <2>2
  <2> QED
    BY <2>1, <2>3, BeforeCounts DEF p
<1> QED
  BY <1>2, <1>3

\* The logs of a range are a stretch of positions.
LEMMA LogsInStretch ==
  ASSUME NEW from \in Nat, NEW to \in Nat, from <= to + 1
  PROVE  /\ LogsIn(from, to) = Stretch(Before(from), Before(to + 1))
         /\ LogsIn(from, to) \in Seq(Position)
         /\ Len(LogsIn(from, to)) = Before(to + 1) - Before(from)
<1>1. PICK b \in Nat, n \in Nat : b = Before(from) /\ n = Before(to + 1)
  BY BeforeNumbers
<1> DEFINE s == [p \in Position |-> p]
           m == b + 1
           l == SubSeq(s, m, n)
<1>2. b <= n /\ n <= Len(Chain) /\ Len(Chain) \in Nat /\ Position = 1 .. Len(Chain)
  BY <1>1, BeforeCounts, BeforeGrows
<1>3. m \in Int /\ n \in Int /\ \A i \in m .. n : s[i] \in Position /\ s[i] = i
  BY <1>2
<1>4. LogsIn(from, to) = l
  BY <1>1 DEF LogsIn
<1>5. b = m - 1
  OBVIOUS
<1> HIDE DEF s, m
<1>6. /\ l \in Seq(Position)
      /\ Len(l) = IF m <= n THEN n - m + 1 ELSE 0
      /\ \A i \in 1 .. n - m + 1 : l[i] = s[m + i - 1]
  BY <1>3, SubSeqProperties
<1> HIDE DEF l
<1>7. Len(l) = n - b /\ n - b \in Nat
  BY <1>2, <1>3, <1>5, <1>6
<1>8. ASSUME NEW i \in 1 .. n - b PROVE l[i] = b + i
  <2>1. i \in 1 .. n - m + 1 /\ m + i - 1 \in m .. n /\ m + i - 1 = b + i
    BY <1>3, <1>5, <1>8
  <2> QED
    BY <1>3, <1>6, <2>1
<1>9. l = [i \in 1 .. n - b |-> b + i]
  BY <1>6, <1>7, <1>8
<1> QED
  BY <1>1, <1>4, <1>6, <1>7, <1>9 DEF Stretch

LEMMA StretchesJoin ==
  ASSUME NEW a \in Nat, NEW b \in Nat, NEW c \in Nat, a <= b, b <= c
  PROVE  Stretch(a, b) \o Stretch(b, c) = Stretch(a, c)
<1> DEFINE s == Stretch(a, b)
           t == Stretch(b, c)
           u == Stretch(a, c)
<1>1. /\ s \in Seq(Nat) /\ Len(s) = b - a /\ \A i \in 1 .. b - a : s[i] = a + i
      /\ t \in Seq(Nat) /\ Len(t) = c - b /\ \A i \in 1 .. c - b : t[i] = b + i
      /\ u \in Seq(Nat) /\ Len(u) = c - a /\ \A i \in 1 .. c - a : u[i] = a + i
  BY DEF Stretch
<1> HIDE DEF s, t, u
<1>2. /\ s \o t \in Seq(Nat) /\ Len(s \o t) = Len(s) + Len(t)
      /\ \A i \in 1 .. Len(s) + Len(t) :
           (s \o t)[i] = IF i <= Len(s) THEN s[i] ELSE t[i - Len(s)]
  BY <1>1, ConcatProperties
<1>3. ASSUME NEW i \in 1 .. c - a PROVE (s \o t)[i] = u[i]
  <2>1. CASE i <= b - a
    BY <1>1, <1>2, <1>3, <2>1
  <2>2. CASE ~(i <= b - a)
    <3> DEFINE j == i - (b - a)
    <3>1. j \in 1 .. c - b /\ b + j = a + i /\ i \in 1 .. (b - a) + (c - b)
      BY <1>3, <2>2
    <3>2. (s \o t)[i] = t[j]
      BY <1>1, <1>2, <2>2, <3>1
    <3> HIDE DEF j
    <3>3. t[j] = a + i
      BY <1>1, <3>1
    <3>4. u[i] = a + i
      BY <1>1, <1>3
    <3> QED
      BY <3>2, <3>3, <3>4
  <2> QED
    BY <2>1, <2>2
<1>4. Len(s \o t) = Len(u) /\ Len(u) = c - a
  BY <1>1, <1>2
<1>5. s \o t = u
  BY <1>1, <1>2, <1>3, <1>4, SeqEqual
<1> QED
  BY <1>5 DEF s, t, u

\* The ranges read are put together by a fold.
LEMMA ConcatenationFolds ==
  ASSUME NEW ranges \in Seq(Ask),
         \A i \in DOMAIN ranges :
           LogsIn(ranges[i].from, ranges[i].to) \in Seq(Position)
  PROVE  \E w \in [0 .. Len(ranges) -> Seq(Position)] :
           /\ w[0] = <<>>
           /\ \A i \in 1 .. Len(ranges) :
                w[i] = w[i - 1] \o LogsIn(ranges[i].from, ranges[i].to)
           /\ Concatenated(ranges) = w[Len(ranges)]
<1> DEFINE n == Len(ranges)
           L(i) == LogsIn(ranges[i].from, ranges[i].to)
           A == Seq(Position)
           step == [ai \in A \X (1 .. n) |-> ai[1] \o L(ai[2])]
           Solves(g) == g = [s \in SUBSET DOMAIN ranges |->
                               IF s = {} THEN <<>> ELSE g[s \ {Max(s)}] \o L(Max(s))]
           k == CHOOSE g : Solves(g)
<1>1. DOMAIN ranges = 1 .. n /\ n \in Nat
  OBVIOUS
<1>2. \A i \in 1 .. n : L(i) \in A
  BY <1>1
<1>3. Concatenated(ranges) = k[DOMAIN ranges]
  BY DEF Concatenated, FoldLeft, MapThenFoldSet
<1> HIDE DEF k, L, n
<1>4. ASSUME NEW a \in A, NEW i \in 1 .. n PROVE a \o L(i) \in A
  BY <1>2, ConcatProperties
<1>14. <<>> \in A
  OBVIOUS
<1> HIDE DEF A
<1>15. step \in [A \X (1 .. n) -> A]
  BY <1>4
<1>16. \A a \in A, i \in 1 .. n : step[<<a, i>>] = a \o L(i)
  OBVIOUS
<1>5. step \in [A \X (1 .. n) -> A] /\ \A a \in A, i \in 1 .. n : step[<<a, i>>] = a \o L(i)
  BY <1>15, <1>16
<1> HIDE DEF step
<1>6. PICK h \in [SUBSET (1 .. n) -> A] : FoldsOn(h, 1 .. n, <<>>, step) /\ InSteps(h, n, step)
  <2>1. n \in Nat
    BY <1>1
  <2> QED
    BY <2>1, <1>14, <1>15, FoldInSteps
<1>7. ASSUME NEW s \in SUBSET (1 .. n), s # {}
      PROVE  /\ s \ {Max(s)} \in SUBSET (1 .. n) /\ Max(s) \in 1 .. n
             /\ h[s] = h[s \ {Max(s)}] \o L(Max(s))
  <2>1. Max(s) \in 1 .. n
    BY <1>1, <1>7, MaxIn
  <2>2. h[s \ {Max(s)}] \in A
    BY <1>6
  <2> QED
    BY <1>5, <1>6, <1>7, <2>1, <2>2 DEF FoldsOn
<1>8. Solves(h)
  BY <1>1, <1>6, <1>7 DEF FoldsOn
<1>9. Solves(k)
  <2> HIDE DEF Solves
  <2> QED
    BY <1>8 DEF k
<1>10. k[1 .. n] = h[1 .. n]
  <2>1. k[{}] = h[{}]
    BY <1>6, <1>9 DEF FoldsOn
  <2>2. ASSUME NEW s \in SUBSET (1 .. n), s # {}, k[s \ {Max(s)}] = h[s \ {Max(s)}]
        PROVE  k[s] = h[s]
    <3>1. k[s] = k[s \ {Max(s)}] \o L(Max(s))
      BY <1>1, <1>9, <2>2
    <3> QED
      BY <1>7, <2>2, <3>1
  <2> QED
    BY <1>1, <2>1, <2>2, FoldUnique
<1> DEFINE w == [i \in 0 .. n |-> h[1 .. i]]
<1>11. w \in [0 .. n -> A] /\ w[0] = <<>> /\ w[n] = h[1 .. n]
  <2>1. \A i \in 0 .. n : 1 .. i \in SUBSET (1 .. n)
    BY <1>1
  <2>2. 1 .. 0 = {} /\ 0 \in 0 .. n /\ n \in 0 .. n
    BY <1>1
  <2> QED
    BY <1>6, <2>1, <2>2 DEF FoldsOn
<1>12. ASSUME NEW i \in 1 .. n PROVE w[i] = w[i - 1] \o L(i)
  <2>1. h[1 .. i] = step[<<h[1 .. i - 1], i>>]
    BY <1>6 DEF InSteps
  <2>2. i \in 0 .. n /\ i - 1 \in 0 .. n
    BY <1>1
  <2>3. w[i] = h[1 .. i] /\ w[i - 1] = h[1 .. i - 1] /\ w[i - 1] \in A
    BY <1>11, <2>2
  <2> QED
    BY <1>5, <2>1, <2>3
<1> HIDE DEF w
<1>13. Concatenated(ranges) = w[n]
  BY <1>1, <1>3, <1>10, <1>11
<1> QED
  BY <1>11, <1>12, <1>13 DEF A, L, n

\* The numbers of a range.
LEMMA RangeTyped ==
  ASSUME NEW ranges \in Seq(Ask)
  PROVE  /\ DOMAIN ranges = 1 .. Len(ranges) /\ Len(ranges) \in Nat
         /\ \A i \in DOMAIN ranges : ranges[i].from \in Nat /\ ranges[i].to \in Nat
<1>1. \A i \in DOMAIN ranges : ranges[i] \in Ask
  OBVIOUS
<1>2. \A a \in Ask : a.from \in Nat /\ a.to \in Nat
  BY DEF Ask
<1>3. DOMAIN ranges = 1 .. Len(ranges) /\ Len(ranges) \in Nat
  OBVIOUS
<1> QED
  BY <1>1, <1>2, <1>3

\* The answers to ranges that follow one another are the answer to all of them.
LEMMA ChainedRead ==
  ASSUME NEW ranges \in Seq(Ask), NEW from \in Nat, NEW to \in Nat,
         Chained(ranges, from, to)
  PROVE  Concatenated(ranges) = LogsIn(from, to) /\ from <= to
<1> DEFINE n == Len(ranges)
           f(i) == ranges[i].from
           t(i) == ranges[i].to
           B(b) == Before(b)
<1>1. /\ DOMAIN ranges = 1 .. n /\ n \in Nat
      /\ \A i \in 1 .. n : f(i) \in Nat /\ t(i) \in Nat
  BY RangeTyped
<1>2. /\ n # 0 /\ f(1) = from /\ t(n) = to
      /\ \A i \in 1 .. n : f(i) <= t(i)
      /\ \A i \in 1 .. n - 1 : f(i + 1) = t(i) + 1
  BY <1>1, EmptySeq DEF Chained
<1> HIDE DEF n, f, t
<1>3. \A i \in 1 .. n : /\ LogsIn(f(i), t(i)) = Stretch(B(f(i)), B(t(i) + 1))
                        /\ LogsIn(f(i), t(i)) \in Seq(Position)
  <2>1. TAKE i \in 1 .. n
  <2>2. f(i) \in Nat /\ t(i) \in Nat /\ f(i) <= t(i) + 1
    BY <1>1, <1>2
  <2> QED
    BY <2>2, LogsInStretch
<1>4. PICK w \in [0 .. n -> Seq(Position)] :
        /\ w[0] = <<>>
        /\ \A i \in 1 .. n : w[i] = w[i - 1] \o LogsIn(f(i), t(i))
        /\ Concatenated(ranges) = w[n]
  BY <1>1, <1>3, ConcatenationFolds DEF n, f, t
<1> DEFINE Bad == {i \in 1 .. n : ~ (from <= t(i) /\ w[i] = Stretch(B(from), B(t(i) + 1)))}
<1>5. Bad = {}
  <2> SUFFICES ASSUME Bad # {} PROVE FALSE
    OBVIOUS
  <2>1. PICK x \in Bad : \A y \in Bad : x <= y
    <3>1. Bad \in SUBSET (1 .. n)
      OBVIOUS
    <3> HIDE DEF Bad
    <3> QED
      BY <1>1, <3>1, LeastIn
  <2>2. /\ x \in 1 .. n /\ w[x] = w[x - 1] \o LogsIn(f(x), t(x))
        /\ LogsIn(f(x), t(x)) = Stretch(B(f(x)), B(t(x) + 1))
        /\ LogsIn(f(x), t(x)) \in Seq(Position)
    BY <1>3, <1>4
  <2>6. ~ (from <= t(x) /\ w[x] = Stretch(B(from), B(t(x) + 1)))
    BY <2>1
  <2> HIDE DEF B
  <2>3. f(x) \in Nat /\ t(x) \in Nat /\ f(x) <= t(x)
    BY <1>1, <1>2, <2>2
  <2>4. CASE x = 1
    <3>1. x - 1 = 0
      BY <2>4
    <3>2. w[x] = <<>> \o LogsIn(f(x), t(x))
      BY <1>4, <2>2, <3>1
    <3>3. w[x] = LogsIn(f(x), t(x))
      BY <2>2, <3>2, ConcatEmptySeq
    <3>4. f(x) = from
      BY <1>2, <2>4
    <3> QED
      BY <2>2, <2>3, <2>6, <3>3, <3>4
  <2>5. CASE x # 1
    <3>1. x - 1 \in 1 .. n /\ x - 1 \in 1 .. n - 1 /\ x - 1 \notin Bad
      <4>1. x - 1 \in 1 .. n /\ x - 1 \in 1 .. n - 1 /\ ~ (x <= x - 1)
        BY <1>1, <2>2, <2>5
      <4> HIDE DEF Bad
      <4> QED
        BY <2>1, <4>1
    <3>2. from <= t(x - 1) /\ w[x - 1] = Stretch(B(from), B(t(x - 1) + 1))
      BY <3>1
    <3>3. f(x) = t(x - 1) + 1 /\ t(x - 1) \in Nat
      BY <1>1, <1>2, <2>2, <3>1
    <3>4. /\ B(from) \in Nat /\ B(f(x)) \in Nat /\ B(t(x) + 1) \in Nat
          /\ B(from) <= B(f(x)) /\ B(f(x)) <= B(t(x) + 1)
      <4>1. /\ t(x) + 1 \in Nat /\ from <= f(x) /\ f(x) <= t(x) + 1
        BY <2>3, <3>2, <3>3
      <4> DEFINE e == t(x) + 1
      <4> HIDE DEF e
      <4>2. e \in Nat /\ f(x) <= e
        BY <4>1 DEF e
      <4>3. B(from) \in Nat /\ B(f(x)) \in Nat /\ B(e) \in Nat
        BY <2>3, <4>2, BeforeCounts DEF B
      <4>4. B(from) <= B(f(x)) /\ B(f(x)) <= B(e)
        BY <2>3, <4>1, <4>2, BeforeGrows DEF B
      <4> QED
        BY <4>3, <4>4 DEF e
    <3>5. w[x] = Stretch(B(from), B(t(x) + 1))
      <4>1. w[x] = Stretch(B(from), B(f(x))) \o Stretch(B(f(x)), B(t(x) + 1))
        BY <2>2, <3>2, <3>3
      <4> QED
        BY <3>4, <4>1, StretchesJoin
    <3>6. from <= t(x)
      BY <2>3, <3>2, <3>3
    <3> QED
      BY <2>6, <3>5, <3>6
  <2> QED
    BY <2>4, <2>5
<1>6. n \in 1 .. n
  BY <1>1, <1>2
<1>7. from <= to /\ Concatenated(ranges) = Stretch(B(from), B(to + 1))
  BY <1>2, <1>4, <1>5, <1>6
<1>8. LogsIn(from, to) = Stretch(B(from), B(to + 1))
  BY <1>7, LogsInStretch
<1> QED
  BY <1>7, <1>8
-----------------------------------------------------------------------------
(* The chunk is read in order                                              *)

\* A chunk is one range to begin with.
LEMMA NextChunkChained ==
  ASSUME NEW from \in Nat, NEW to \in Nat, from <= to, NextChunk(from, to)
  PROVE  ChunkChained'
<1> DEFINE ask == [from |-> from, to |-> chunk'.end, depth |-> 0]
<1>1. /\ pc' = "logs" /\ got' = <<>> /\ asks' = <<ask>>
      /\ chunk'.start = from /\ from <= chunk'.end
  BY NextChunkTyped
<1>2. ask.from = from /\ ask.to = chunk'.end
  OBVIOUS
<1> HIDE DEF ask
<1>3. got' \o asks' = <<ask>>
  BY <1>1
<1>4. Chained(<<ask>>, from, chunk'.end)
  BY <1>1, <1>2 DEF Chained
<1> QED
  BY <1>1, <1>3, <1>4 DEF ChunkChained

\* Splitting the first of the ranges still to be asked for keeps the order.
LEMMA SplitChained ==
  ASSUME NEW g \in Seq(Ask), NEW s \in Seq(Ask), s # <<>>, CanSplit(s[1]),
         NEW from, NEW to, Chained(g \o s, from, to)
  PROVE  Chained(g \o (Halves(s[1]) \o Tail(s)), from, to)
<1> DEFINE a == s[1]
           h == Halves(a)
           u == g \o s
           v == g \o (h \o Tail(s))
           n == Len(g)
           m == Len(s)
<1>1. /\ a \in Ask /\ Tail(s) \in Seq(Ask) /\ n \in Nat /\ m \in Nat /\ m > 0
      /\ Len(Tail(s)) = m - 1
      /\ \A i \in 1 .. m - 1 : Tail(s)[i] = s[i + 1]
  OBVIOUS
<1>2. h \in Seq(Ask) /\ Len(h) = 2 /\ h[1] \in Ask /\ h[2] \in Ask
  BY <1>1, HalvesSplit
<1>3. /\ h[1].from = a.from /\ h[1].from <= h[1].to
      /\ h[2].from = h[1].to + 1 /\ h[2].from <= h[2].to /\ h[2].to = a.to
  <2>1. a.from \in Nat /\ a.to \in Nat /\ a.from < a.to
    BY <1>1 DEF CanSplit, Ask
  <2> HIDE DEF a
  <2> QED
    BY <2>1 DEF Halves
<1>4. /\ u \in Seq(Ask) /\ Len(u) = n + m
      /\ \A i \in 1 .. n : u[i] = g[i]
      /\ \A i \in 1 .. m : u[n + i] = s[i]
  OBVIOUS
<1> HIDE DEF h
<1>5. /\ v \in Seq(Ask) /\ Len(v) = n + m + 1
      /\ \A i \in 1 .. n : v[i] = g[i]
      /\ v[n + 1] = h[1] /\ v[n + 2] = h[2]
      /\ \A i \in 1 .. m - 1 : v[n + 2 + i] = s[i + 1]
  <2> DEFINE r == h \o Tail(s)
  <2>1. /\ r \in Seq(Ask) /\ Len(r) = m + 1
        /\ r[1] = h[1] /\ r[2] = h[2]
        /\ \A i \in 1 .. m - 1 : r[2 + i] = s[i + 1]
    <3> DEFINE l == Tail(s)
    <3>1. l \in Seq(Ask) /\ Len(l) = m - 1 /\ \A i \in 1 .. m - 1 : l[i] = s[i + 1]
      BY <1>1
    <3> HIDE DEF l, m
    <3>2. /\ h \o l \in Seq(Ask) /\ Len(h \o l) = m + 1
          /\ (h \o l)[1] = h[1] /\ (h \o l)[2] = h[2]
          /\ \A i \in 1 .. m - 1 : (h \o l)[2 + i] = l[i]
      <4>1. /\ h \o l \in Seq(Ask) /\ Len(h \o l) = Len(h) + Len(l)
            /\ \A i \in 1 .. Len(h) + Len(l) :
                 (h \o l)[i] = IF i <= Len(h) THEN h[i] ELSE l[i - Len(h)]
        BY <1>2, <3>1, ConcatProperties
      <4>2. Len(h) + Len(l) = m + 1 /\ 1 \in 1 .. m + 1 /\ 2 \in 1 .. m + 1
        BY <1>1, <1>2, <3>1
      <4>3. ASSUME NEW i \in 1 .. m - 1 PROVE (h \o l)[2 + i] = l[i]
        <5>1. 2 + i \in 1 .. m + 1 /\ ~ (2 + i <= 2) /\ (2 + i) - 2 = i
          BY <1>1
        <5> DEFINE j == 2 + i
        <5>2. j \in 1 .. Len(h) + Len(l) /\ ~ (j <= Len(h)) /\ j - Len(h) = i
          BY <1>2, <4>2, <5>1
        <5> HIDE DEF j
        <5>3. (h \o l)[j] = l[j - Len(h)]
          BY <4>1, <5>2
        <5>4. (h \o l)[j] = l[i]
          BY <5>2, <5>3
        <5> QED
          BY <5>4 DEF j
      <4>4. Len(h \o l) = m + 1
        BY <4>1, <4>2
      <4>5. (h \o l)[1] = h[1] /\ (h \o l)[2] = h[2]
        BY <1>2, <4>1, <4>2
      <4> QED
        BY <4>1, <4>3, <4>4, <4>5
    <3>3. \A i \in 1 .. m - 1 : (h \o l)[2 + i] = s[i + 1]
      BY <3>1, <3>2
    <3> QED
      BY <3>2, <3>3 DEF l
  <2> HIDE DEF r
  <2>2. /\ g \o r \in Seq(Ask) /\ Len(g \o r) = n + m + 1
        /\ \A i \in 1 .. n : (g \o r)[i] = g[i]
        /\ \A i \in 1 .. m + 1 : (g \o r)[n + i] = r[i]
    BY <2>1
  <2>3. /\ 1 \in 1 .. m + 1 /\ 2 \in 1 .. m + 1
        /\ \A i \in 1 .. m - 1 : 2 + i \in 1 .. m + 1 /\ n + (2 + i) = n + 2 + i
    BY <1>1
  <2> QED
    BY <1>1, <2>1, <2>2, <2>3 DEF r
<1>14. Chained(u, from, to)
  OBVIOUS
<1> HIDE DEF u, v, a
<1>6. /\ \A i \in 1 .. n : v[i] = u[i]
      /\ v[n + 1] = h[1] /\ v[n + 2] = h[2] /\ u[n + 1] = a
      /\ \A i \in n + 3 .. n + m + 1 : v[i] = u[i - 1]
  <2>1. u[n + 1] = a
    BY <1>1, <1>4 DEF a
  <2>2. ASSUME NEW i \in n + 3 .. n + m + 1 PROVE v[i] = u[i - 1]
    <3>1. /\ i - n - 2 \in 1 .. m - 1 /\ n + 2 + (i - n - 2) = i
          /\ i - n - 1 \in 1 .. m /\ n + (i - n - 1) = i - 1
          /\ (i - n - 2) + 1 = i - n - 1
      BY <1>1
    <3>2. v[i] = s[i - n - 1]
      BY <1>5, <3>1
    <3>3. u[i - 1] = s[i - n - 1]
      BY <1>4, <3>1
    <3> QED
      BY <3>2, <3>3
  <2> QED
    BY <1>4, <1>5, <2>1, <2>2
<1>7. /\ u # <<>> /\ u[1].from = from /\ u[n + m].to = to
      /\ \A i \in 1 .. n + m : u[i].from <= u[i].to
      /\ \A i \in 1 .. n + m - 1 : u[i + 1].from = u[i].to + 1
  <2>1. DOMAIN u = 1 .. n + m
    BY <1>4
  <2>2. /\ u # <<>> /\ u[1].from = from /\ u[Len(u)].to = to
        /\ \A i \in DOMAIN u : u[i].from <= u[i].to
        /\ \A i \in 1 .. Len(u) - 1 : u[i + 1].from = u[i].to + 1
    BY <1>14 DEF Chained
  <2>3. Len(u) = n + m
    BY <1>4
  <2> DEFINE k == n + m
  <2> HIDE DEF k
  <2>4. Len(u) = k /\ DOMAIN u = 1 .. k
    BY <2>1, <2>3 DEF k
  <2>5. /\ u # <<>> /\ u[1].from = from /\ u[k].to = to
        /\ \A i \in 1 .. k : u[i].from <= u[i].to
        /\ \A i \in 1 .. k - 1 : u[i + 1].from = u[i].to + 1
    BY <2>2, <2>4
  <2> QED
    BY <2>5 DEF k
<1>8. v # <<>> /\ DOMAIN v = 1 .. n + m + 1
  BY <1>1, <1>5
<1>9. v[1].from = from
  <2>1. CASE n = 0
    BY <1>3, <1>6, <1>7, <2>1
  <2>2. CASE n # 0
    BY <1>1, <1>6, <1>7, <2>2
  <2> QED
    BY <2>1, <2>2
<1>10. v[n + m + 1].to = to
  <2>1. CASE m = 1
    BY <1>3, <1>6, <1>7, <2>1
  <2>2. CASE m # 1
    <3>1. n + m + 1 \in n + 3 .. n + m + 1 /\ (n + m + 1) - 1 = n + m
      BY <1>1, <2>2
    <3> QED
      BY <1>6, <1>7, <3>1
  <2> QED
    BY <2>1, <2>2
<1>11. ASSUME NEW i \in 1 .. n + m + 1 PROVE v[i].from <= v[i].to
  <2>1. CASE i \in 1 .. n
    BY <1>1, <1>6, <1>7, <2>1
  <2>2. CASE i \in {n + 1, n + 2}
    BY <1>3, <1>6, <2>2
  <2>3. CASE i \in n + 3 .. n + m + 1
    <3>1. i - 1 \in 1 .. n + m
      BY <1>1, <2>3
    <3> QED
      BY <1>6, <1>7, <2>3, <3>1
  <2> QED
    BY <1>1, <2>1, <2>2, <2>3
<1>12. ASSUME NEW i \in 1 .. n + m PROVE v[i + 1].from = v[i].to + 1
  <2>1. CASE i + 1 \in 1 .. n
    <3>1. i \in 1 .. n /\ i \in 1 .. n + m - 1
      BY <1>1, <2>1
    <3> QED
      BY <1>6, <1>7, <2>1, <3>1
  <2>2. CASE i = n
    <3>1. n \in 1 .. n + m - 1 /\ n \in 1 .. n
      BY <1>1, <2>2
    <3> QED
      BY <1>3, <1>6, <1>7, <2>2, <3>1
  <2>3. CASE i = n + 1
    <3>1. i + 1 = n + 2
      BY <2>3
    <3> QED
      BY <1>3, <1>6, <2>3, <3>1
  <2>4. CASE i = n + 2
    <3>1. i + 1 \in n + 3 .. n + m + 1 /\ (i + 1) - 1 = (n + 1) + 1
          /\ n + 1 \in 1 .. n + m - 1
      BY <1>1, <2>4
    <3>2. v[i + 1] = u[(n + 1) + 1] /\ u[(n + 1) + 1].from = u[n + 1].to + 1
      <4>1. v[i + 1] = u[(i + 1) - 1]
        BY <1>6, <3>1
      <4> QED
        BY <1>7, <3>1, <4>1
    <3> QED
      BY <1>3, <1>6, <2>4, <3>2
  <2>5. CASE i \in n + 3 .. n + m
    <3>1. /\ i + 1 \in n + 3 .. n + m + 1 /\ i \in n + 3 .. n + m + 1
          /\ (i + 1) - 1 = (i - 1) + 1 /\ i - 1 \in 1 .. n + m - 1
      BY <1>1, <2>5
    <3>2. v[i + 1] = u[(i - 1) + 1] /\ v[i] = u[i - 1]
      <4>1. v[i + 1] = u[(i + 1) - 1] /\ v[i] = u[i - 1]
        BY <1>6, <3>1
      <4> QED
        BY <3>1, <4>1
    <3> QED
      BY <1>7, <3>1, <3>2
  <2> QED
    BY <1>1, <2>1, <2>2, <2>3, <2>4, <2>5
<1>13. Chained(v, from, to)
  <2>1. Len(v) - 1 = n + m
    BY <1>1, <1>5
  <2> QED
    BY <1>5, <1>8, <1>9, <1>10, <1>11, <1>12, <2>1 DEF Chained
<1> QED
  BY <1>13 DEF v, h, a

LEMMA ReadStep ==
  ASSUME ReadInv, [Next]_vars
  PROVE  ReadInv'
<1>1. CursorInv' /\ CursorInv /\ Typed
  BY CursorStep DEF ReadInv, CursorInv
<1>2. /\ asks \in Seq(Ask) /\ got \in Seq(Ask) /\ (pc = "logs" => asks # <<>>)
      /\ head \in Nat /\ chunk.end \in Nat /\ chunk.to \in Nat
  BY <1>1 DEF Typed
<1> SUFFICES ChunkChained'
  BY <1>1 DEF ReadInv
<1>3. CASE Boot \/ Poll \/ HeadFails \/ StampsFail \/ Crash
  <2>1. pc' \in {"head", "sleep", "down"}
    BY <1>3 DEF Boot, Poll, HeadFails, StampsFail, Crash, Throw, Between
  <2> QED
    BY <2>1 DEF ChunkChained, Busy
<1>4. CASE HeadRead
  <2> DEFINE from == IF tailing THEN TailFrom ELSE ResolveStart
  <2>1. from \in Nat
    BY <1>1, FromTyped
  <2>2. CASE from > head
    <3>1. pc' = "sleep"
      BY <1>4, <2>2 DEF HeadRead, Between
    <3> QED
      BY <3>1 DEF ChunkChained, Busy
  <2>3. CASE ~(from > head)
    <3>1. NextChunk(from, head)
      BY <1>4, <2>3 DEF HeadRead
    <3> HIDE DEF from
    <3>2. from <= head
      BY <1>2, <2>1, <2>3
    <3> QED
      BY <1>2, <2>1, <3>1, <3>2, NextChunkChained
  <2> QED
    BY <2>2, <2>3
<1>5. CASE Mark
  <2>1. CASE chunk.end < chunk.to
    <3>1. NextChunk(chunk.end + 1, chunk.to)
      BY <1>5, <2>1 DEF Mark
    <3>2. chunk.end + 1 \in Nat /\ chunk.end + 1 <= chunk.to
      BY <1>2, <2>1
    <3> QED
      BY <1>2, <3>1, <3>2, NextChunkChained
  <2>2. CASE ~(chunk.end < chunk.to)
    <3>1. pc' = "sleep"
      BY <1>5, <2>2 DEF Mark, Between
    <3> QED
      BY <3>1 DEF ChunkChained, Busy
  <2> QED
    BY <2>1, <2>2
<1>6. CASE LogsArrive
  <2>1. /\ pc = "logs" /\ chunk' = chunk
        /\ got' = Append(got, asks[1]) /\ asks' = Tail(asks)
        /\ Chained(got \o asks, chunk.start, chunk.end)
    BY <1>6 DEF LogsArrive, ReadInv, ChunkChained, Busy
  <2> DEFINE a == asks[1]
             r == Tail(asks)
  <2>2. a \in Ask /\ r \in Seq(Ask) /\ <<a>> \in Seq(Ask) /\ asks = <<a>> \o r
    BY <1>2, <2>1
  <2> HIDE DEF a, r
  <2>3. Append(got, a) \o r = got \o asks
    <3>1. Append(got, a) = got \o <<a>>
      BY <1>2, <2>2
    <3>2. (got \o <<a>>) \o r = got \o (<<a>> \o r)
      BY <1>2, <2>2, ConcatAssociative
    <3> QED
      BY <2>2, <3>1, <3>2
  <2>4. got' \o asks' = got \o asks
    BY <2>1, <2>3 DEF a, r
  <2>5. CASE Len(asks) > 1
    <3>1. pc' = "logs"
      BY <1>6, <2>1, <2>5 DEF LogsArrive
    <3> QED
      BY <2>1, <2>4, <3>1 DEF ChunkChained
  <2>6. CASE ~(Len(asks) > 1)
    <3>1. pc' # "logs"
      BY <1>6, <2>6 DEF LogsArrive
    <3>2. asks' = <<>>
      BY <1>2, <2>1, <2>6
    <3>3. got' \in Seq(Ask)
      BY <1>1 DEF CursorInv, Typed
    <3>4. got' = got \o asks
      BY <2>4, <3>2, <3>3, ConcatEmptySeq
    <3> QED
      BY <2>1, <3>1, <3>4 DEF ChunkChained
  <2> QED
    BY <2>5, <2>6
<1>7. CASE LogsFail
  <2>1. CASE CanSplit(asks[1])
    <3>1. /\ pc = "logs" /\ pc' = pc /\ chunk' = chunk /\ got' = got
          /\ asks' = Halves(asks[1]) \o Tail(asks)
          /\ Chained(got \o asks, chunk.start, chunk.end)
      BY <1>7, <2>1 DEF LogsFail, ReadInv, ChunkChained, Busy
    <3>2. Chained(got \o (Halves(asks[1]) \o Tail(asks)), chunk.start, chunk.end)
      BY <1>2, <2>1, <3>1, SplitChained
    <3> QED
      BY <3>1, <3>2 DEF ChunkChained
  <2>2. CASE ~CanSplit(asks[1])
    <3>1. pc' \in {"sleep", "down"}
      BY <1>7, <2>2 DEF LogsFail, Throw, Between
    <3> QED
      BY <3>1 DEF ChunkChained, Busy
  <2> QED
    BY <2>1, <2>2
<1>8. CASE StampsArrive \/ Store
  <2>1. /\ pc \in {"stamp", "store"} /\ pc' \in {"stamp", "store", "mark"}
        /\ chunk' = chunk /\ got' = got
    BY <1>8 DEF StampsArrive, Store
  <2> QED
    BY <2>1 DEF ReadInv, ChunkChained, Busy
<1>9. CASE Grow \/ UNCHANGED vars
  <2>1. UNCHANGED <<pc, chunk, asks, got>>
    BY <1>9 DEF Grow, vars, processVars
  <2> QED
    BY <2>1 DEF ReadInv, ChunkChained, Busy
<1> QED
  BY <1>3, <1>4, <1>5, <1>6, <1>7, <1>8, <1>9 DEF Next, Run

LEMMA ReadInit == Init => ReadInv
<1>1. Init => pc = "down"
  BY DEF Init
<1> QED
  BY <1>1, CursorInit DEF ReadInv, ChunkChained, Busy

\* The answers to a chunk that has been read, put together, are its logs.
LEMMA ChunkIsRead ==
  ASSUME ReadInv, pc \in {"stamp", "store", "mark"}
  PROVE  /\ Concatenated(got) = LogsIn(chunk.start, chunk.end)
         /\ chunk.start \in Nat /\ chunk.end \in Nat /\ chunk.start <= chunk.end
<1>1. got \in Seq(Ask) /\ chunk.start \in Nat /\ chunk.end \in Nat
  BY DEF ReadInv, CursorInv, Typed
<1>2. Chained(got, chunk.start, chunk.end)
  BY DEF ReadInv, ChunkChained, Busy
<1> QED
  BY <1>1, <1>2, ChainedRead

\* However often and however deeply failing ranges were split, the logs of a
\* chunk that is about to be stored are those of its blocks, in chain order.
THEOREM SplitsReadAll == Spec => []ChunkRead
<1>1. ReadInv => ChunkRead
  BY ChunkIsRead DEF ChunkRead
<1>2. ReadInv /\ [Next]_vars => ReadInv'
  BY ReadStep
<1> QED
  BY <1>1, <1>2, ReadInit, PTL DEF Spec
-----------------------------------------------------------------------------
(* The campaigns table                                                     *)

Table == [Campaign -> Nat \cup {NoRow, NotActivated}]

\* The logs' fields, and what is assumed of a campaign's.
LEMMA LogTyped ==
  /\ \A p \in Position : /\ Chain[p].block \in Nat /\ Chain[p].campaign \in Campaign
                         /\ Chain[p].kind \in Kinds
  /\ \A c \in Campaign, p, q \in Position :
       Creates(p, c) => ~(Creates(q, c) /\ p # q) /\ ~(Activates(q, c) /\ q < p)
<1> DEFINE Log == [block : Nat, kind : Kinds, campaign : Campaign]
<1>1. Chain \in Seq(Log)
  BY IndexerAssumption
<1> HIDE DEF Log
<1>2. \A p \in DOMAIN Chain : Chain[p] \in Log
  BY <1>1
<1>3. \A p \in Position : /\ Chain[p].block \in Nat /\ Chain[p].campaign \in Campaign
                          /\ Chain[p].kind \in Kinds
  BY <1>2 DEF Position, Log
<1> QED
  BY <1>3, IndexerAssumption

\* What storing a log does to a campaign's row.
RowAfter(table, p, c) ==
  IF Creates(p, c) /\ table[c] = NoRow THEN NotActivated
  ELSE IF Activates(p, c) /\ table[c] = NotActivated THEN Chain[p].block
  ELSE table[c]

LEMMA StoreCampaignRows ==
  ASSUME NEW table \in Table, NEW p \in Position
  PROVE  /\ StoreCampaign(table, p) \in Table
         /\ \A c \in Campaign : StoreCampaign(table, p)[c] = RowAfter(table, p, c)
<1> DEFINE d == Chain[p].campaign
           t == StoreCampaign(table, p)
<1>1. d \in Campaign /\ Chain[p].block \in Nat
  BY LogTyped
<1>2. \A c \in Campaign : Creates(p, c) \/ Activates(p, c) => c = d
  BY DEF Creates, Activates
<1>3. t = IF Creates(p, d) /\ table[d] = NoRow
            THEN [table EXCEPT ![d] = NotActivated]
          ELSE IF Activates(p, d) /\ table[d] = NotActivated
            THEN [table EXCEPT ![d] = Chain[p].block]
          ELSE table
  BY DEF StoreCampaign
<1> HIDE DEF d, t
<1>4. t \in Table
  BY <1>1, <1>3 DEF Table
<1>5. \A c \in Campaign : t[c] = RowAfter(table, p, c)
  BY <1>1, <1>2, <1>3 DEF Table, RowAfter
<1> QED
  BY <1>4, <1>5 DEF t

\* A chunk's logs are stored by a fold.
LEMMA StoringFolds ==
  ASSUME NEW logs \in Seq(Position), NEW table \in Table
  PROVE  \E w \in [0 .. Len(logs) -> Table] :
           /\ w[0] = table
           /\ \A i \in 1 .. Len(logs) : w[i] = StoreCampaign(w[i - 1], logs[i])
           /\ FoldLeft(StoreCampaign, table, logs) = w[Len(logs)]
<1> DEFINE n == Len(logs)
           step == [ai \in Table \X (1 .. n) |-> StoreCampaign(ai[1], logs[ai[2]])]
           Solves(g) == g = [s \in SUBSET DOMAIN logs |->
                               IF s = {} THEN table
                               ELSE StoreCampaign(g[s \ {Max(s)}], logs[Max(s)])]
           k == CHOOSE g : Solves(g)
<1>1. DOMAIN logs = 1 .. n /\ n \in Nat /\ \A i \in 1 .. n : logs[i] \in Position
  OBVIOUS
<1>2. FoldLeft(StoreCampaign, table, logs) = k[DOMAIN logs]
  BY DEF FoldLeft, MapThenFoldSet
<1> HIDE DEF k, n
<1>3. \A a \in Table, i \in 1 .. n : StoreCampaign(a, logs[i]) \in Table
  BY <1>1, StoreCampaignRows
<1>4. step \in [Table \X (1 .. n) -> Table]
  BY <1>3
<1>5. \A a \in Table, i \in 1 .. n : step[<<a, i>>] = StoreCampaign(a, logs[i])
  OBVIOUS
<1> HIDE DEF step
<1>6. PICK h \in [SUBSET (1 .. n) -> Table] : FoldsOn(h, 1 .. n, table, step) /\ InSteps(h, n, step)
  BY <1>1, <1>4, FoldInSteps
<1>7. ASSUME NEW s \in SUBSET (1 .. n), s # {}
      PROVE  /\ s \ {Max(s)} \in SUBSET (1 .. n) /\ Max(s) \in 1 .. n
             /\ h[s] = StoreCampaign(h[s \ {Max(s)}], logs[Max(s)])
  <2>1. Max(s) \in 1 .. n
    BY <1>1, <1>7, MaxIn
  <2>2. h[s \ {Max(s)}] \in Table
    BY <1>6
  <2> QED
    BY <1>5, <1>6, <1>7, <2>1, <2>2 DEF FoldsOn
<1>8. Solves(h)
  BY <1>1, <1>6, <1>7 DEF FoldsOn
<1>9. Solves(k)
  <2> HIDE DEF Solves
  <2> QED
    BY <1>8 DEF k
<1>10. k[1 .. n] = h[1 .. n]
  <2>1. k[{}] = h[{}]
    BY <1>6, <1>9 DEF FoldsOn
  <2>2. ASSUME NEW s \in SUBSET (1 .. n), s # {}, k[s \ {Max(s)}] = h[s \ {Max(s)}]
        PROVE  k[s] = h[s]
    <3>1. k[s] = StoreCampaign(k[s \ {Max(s)}], logs[Max(s)])
      BY <1>1, <1>9, <2>2
    <3> QED
      BY <1>7, <2>2, <3>1
  <2> QED
    BY <1>1, <2>1, <2>2, FoldUnique
<1> DEFINE w == [i \in 0 .. n |-> h[1 .. i]]
<1>11. w \in [0 .. n -> Table] /\ w[0] = table /\ w[n] = h[1 .. n]
  <2>1. \A i \in 0 .. n : 1 .. i \in SUBSET (1 .. n)
    BY <1>1
  <2>2. 1 .. 0 = {} /\ 0 \in 0 .. n /\ n \in 0 .. n
    BY <1>1
  <2> QED
    BY <1>6, <2>1, <2>2 DEF FoldsOn
<1>12. ASSUME NEW i \in 1 .. n PROVE w[i] = StoreCampaign(w[i - 1], logs[i])
  <2>1. h[1 .. i] = step[<<h[1 .. i - 1], i>>]
    BY <1>6 DEF InSteps
  <2>2. i \in 0 .. n /\ i - 1 \in 0 .. n
    BY <1>1
  <2>3. w[i] = h[1 .. i] /\ w[i - 1] = h[1 .. i - 1] /\ w[i - 1] \in Table
    BY <1>11, <2>2
  <2> QED
    BY <1>5, <2>1, <2>3
<1> HIDE DEF w
<1>13. FoldLeft(StoreCampaign, table, logs) = w[n]
  BY <1>1, <1>2, <1>10, <1>11
<1> QED
  BY <1>11, <1>12, <1>13 DEF n
-----------------------------------------------------------------------------
(* All types                                                               *)

OtherTypes ==
  /\ campaigns \in Table
  /\ stamps \subseteq Nat
  /\ missing \subseteq Nat
  /\ nulls \subseteq Nat
  /\ faults \in 0 .. MaxFaults
  /\ crashes \in 0 .. MaxCrashes

\* The table after a chunk is stored.
LEMMA StoreTyped ==
  ASSUME ReadInv, campaigns \in Table, Store
  PROVE  /\ campaigns' \in Table
         /\ campaigns' = FoldLeft(StoreCampaign, campaigns, LogsIn(chunk.start, chunk.end))
<1> DEFINE logs == LogsIn(chunk.start, chunk.end)
<1>1. campaigns' = FoldLeft(StoreCampaign, campaigns, Concatenated(got)) /\ pc = "store"
  BY DEF Store
<1>2. /\ Concatenated(got) = logs /\ chunk.start \in Nat /\ chunk.end \in Nat
      /\ chunk.start <= chunk.end + 1
  BY <1>1, ChunkIsRead
<1>3. logs \in Seq(Position)
  BY <1>2, LogsInStretch
<1> HIDE DEF logs
<1>4. PICK w \in [0 .. Len(logs) -> Table] :
        FoldLeft(StoreCampaign, campaigns, logs) = w[Len(logs)]
  BY <1>3, StoringFolds
<1>5. Len(logs) \in 0 .. Len(logs)
  BY <1>3
<1> QED
  BY <1>1, <1>2, <1>4, <1>5 DEF logs

LEMMA OtherTypesStep ==
  ASSUME ReadInv, OtherTypes, [Next]_vars
  PROVE  OtherTypes'
<1>1. MaxFaults \in Nat /\ MaxCrashes \in Nat
  BY IndexerAssumption
<1>2. Slice \subseteq missing
  BY DEF Slice
<1>3. Fault => faults' \in 0 .. MaxFaults
  BY <1>1 DEF Fault, OtherTypes
<1>4. CASE Boot \/ Poll \/ HeadRead \/ Mark
  <2>1. UNCHANGED <<campaigns, stamps, nulls, faults, crashes>> /\ missing' = {}
    BY <1>4 DEF Boot, Poll, HeadRead, Mark, Between, NextChunk, databaseVars, historyVars
  <2> QED
    BY <2>1 DEF OtherTypes
<1>5. CASE HeadFails \/ StampsFail \/ LogsFail
  <2>1. /\ UNCHANGED <<campaigns, stamps, nulls, crashes>> /\ Fault
        /\ missing' = {} \/ missing' = missing
    BY <1>5 DEF HeadFails, StampsFail, LogsFail, Throw, Between, databaseVars
  <2> QED
    BY <1>3, <2>1 DEF OtherTypes
<1>6. CASE LogsArrive
  <2>1. /\ UNCHANGED <<campaigns, stamps, nulls, faults, crashes>>
        /\ missing' = missing \/ missing' = Missing(got')
    BY <1>6 DEF LogsArrive, databaseVars, historyVars
  <2>2. Missing(got') \subseteq Nat
    BY LogTyped DEF Missing, Holds
  <2> QED
    BY <2>1, <2>2 DEF OtherTypes
<1>7. CASE StampsArrive
  <2>1. PICK absent \in SUBSET Slice :
          nulls' = nulls \cup absent /\ stamps' = stamps \cup (Slice \ absent)
    BY <1>7 DEF StampsArrive
  <2>2. UNCHANGED <<campaigns, faults, crashes>> /\ missing' = missing \ Slice
    BY <1>7 DEF StampsArrive
  <2> QED
    BY <1>2, <2>1, <2>2 DEF OtherTypes
<1>8. CASE Store
  <2>1. UNCHANGED <<stamps, nulls, missing, faults, crashes>>
    BY <1>8 DEF Store, historyVars
  <2>2. campaigns' \in Table
    BY <1>8, StoreTyped DEF OtherTypes
  <2> QED
    BY <2>1, <2>2 DEF OtherTypes
<1>9. CASE Grow \/ UNCHANGED vars
  BY <1>9 DEF Grow, OtherTypes, vars, databaseVars, processVars, historyVars
<1>10. CASE Crash
  <2>1. PICK some \in SUBSET Slice : stamps' = stamps \cup some
    BY <1>10 DEF Crash
  <2>2. /\ UNCHANGED <<campaigns, nulls, faults>> /\ missing' = {}
        /\ crashes' = crashes + 1 /\ crashes < MaxCrashes
    BY <1>10 DEF Crash, Between
  <2> QED
    BY <1>1, <1>2, <2>1, <2>2 DEF OtherTypes
<1> QED
  BY <1>4, <1>5, <1>6, <1>7, <1>8, <1>9, <1>10 DEF Next, Run

TableTyped == ReadInv /\ OtherTypes

LEMMA TableTypedInit == Init => TableTyped
<1>1. Init => OtherTypes
  BY IndexerAssumption DEF Init, OtherTypes, Table
<1> QED
  BY <1>1, ReadInit DEF TableTyped

LEMMA TableTypedStep == TableTyped /\ [Next]_vars => TableTyped'
  BY ReadStep, OtherTypesStep DEF TableTyped

\* Type correctness; the campaigns table, which is written by a fold over a
\* chunk's logs, included.
THEOREM IndexerTypes == Spec => []TypeOK
<1>1. TableTyped => TypeOK
  BY DEF TableTyped, ReadInv, CursorInv, Typed, OtherTypes, Table, TypeOK
<1> QED
  BY <1>1, TableTypedInit, TableTypedStep, PTL DEF Spec
-----------------------------------------------------------------------------
(* The campaigns table is exact                                            *)

\* c has been activated by one of the first n logs.
ActivatedBy(c, n) == \E q \in Activations(c) : q <= n

(***************************************************************************)
(* The table is what storing the first n logs makes of it, as far as the   *)
(* campaigns go that were created in block f or later.                     *)
(***************************************************************************)
RowUpTo(n, p, c) ==
  IF p > n THEN NoRow
  ELSE IF ActivatedBy(c, n) THEN FirstActivation(c)
  ELSE NotActivated

ExactUpTo(table, n, f) ==
  \A c \in Campaign, p \in Position :
    Creates(p, c) /\ Chain[p].block >= f => table[c] = RowUpTo(n, p, c)

(***************************************************************************)
(* Every log before this block has been stored, from the first on.         *)
(***************************************************************************)
StoredBefore ==
  IF pc = "mark" THEN chunk.end + 1 ELSE IF cursor = None THEN first ELSE cursor + 1

(***************************************************************************)
(* The table may be ahead of the cursor, by a chunk stored and not marked. *)
(***************************************************************************)
TableInv ==
  IF first = None THEN \A c \in Campaign : campaigns[c] = NoRow
  ELSE \E n \in Nat : n >= Before(StoredBefore) /\ ExactUpTo(campaigns, n, first)

\* The first activation is the one before all others.
LEMMA FirstActivationIs ==
  ASSUME NEW c, NEW q \in Activations(c)
  PROVE  /\ FirstActivation(c) \in Nat
         /\ (\A r \in Activations(c) : q <= r) => FirstActivation(c) = Chain[q].block
<1> DEFINE A == Activations(c)
           m == CHOOSE p \in A : \A r \in A : p <= r
<1>1. A \in SUBSET (1 .. Len(Chain)) /\ Len(Chain) \in Nat /\ A # {}
  BY PositionsFrom1 DEF Activations
<1>2. \E p \in A : \A r \in A : p <= r
  <2> HIDE DEF A
  <2> QED
    BY <1>1, LeastIn
<1>3. m \in A /\ \A r \in A : m <= r
  BY <1>2
<1>4. FirstActivation(c) = Chain[m].block
  BY DEF FirstActivation
<1> HIDE DEF m
<1>5. Chain[m].block \in Nat
  BY <1>3, LogTyped DEF Activations
<1>6. (\A r \in A : q <= r) => q = m
  BY <1>1, <1>3
<1> QED
  BY <1>4, <1>5, <1>6

\* Storing the next log, or again one that has been stored, keeps it exact.
LEMMA ExactStep ==
  ASSUME NEW table \in Table, NEW n \in Nat, NEW f \in Nat, NEW p \in Position,
         p <= n + 1, ExactUpTo(table, n, f)
  PROVE  ExactUpTo(StoreCampaign(table, p), Larger(n, p), f)
<1> DEFINE t == StoreCampaign(table, p)
           m == Larger(n, p)
<1>1. \A c \in Campaign : t[c] = RowAfter(table, p, c)
  BY StoreCampaignRows
<1> HIDE DEF t
<1>2. SUFFICES ASSUME NEW c \in Campaign, NEW o \in Position, Creates(o, c),
                      Chain[o].block >= f
               PROVE  t[c] = RowUpTo(m, o, c)
  BY DEF ExactUpTo, t
<1>3. table[c] = IF o > n THEN NoRow
                 ELSE IF ActivatedBy(c, n) THEN FirstActivation(c)
                 ELSE NotActivated
  BY <1>2 DEF ExactUpTo, RowUpTo
<1>4. /\ p \in Nat /\ o \in Nat /\ \A q \in Activations(c) : q \in Nat /\ q \in Position
  BY PositionsFrom1 DEF Activations
<1>5. m = (IF p <= n THEN n ELSE n + 1) /\ (p <= n \/ p = n + 1) /\ m \in Nat
  BY <1>4 DEF Larger
<1>6. /\ \A q \in Activations(c) : o < q
      /\ Creates(p, c) => p = o
      /\ Activates(p, c) <=> p \in Activations(c)
  <2>1. \A q \in Activations(c) : q # o
    BY <1>2 DEF Activations, Activates, Creates
  <2>2. \A q \in Activations(c) : ~(q < o)
    BY <1>2, <1>4, LogTyped DEF Activations
  <2>3. Creates(p, c) => p = o
    BY <1>2, LogTyped
  <2> QED
    BY <1>4, <2>1, <2>2, <2>3 DEF Activations
<1>7. ActivatedBy(c, n) => FirstActivation(c) \in Nat
  BY FirstActivationIs DEF ActivatedBy
<1>8. NoRow # NotActivated /\ NoRow \notin Nat /\ NotActivated \notin Nat
  BY DEF NoRow, NotActivated
<1> HIDE DEF m
<1>9. CASE p <= n
  <2>1. m = n
    BY <1>5, <1>9
  <2>2. t[c] = table[c]
    <3>1. CASE Creates(p, c)
      <4>1. p = o /\ ~(o > n)
        BY <1>4, <1>6, <1>9, <3>1
      <4>2. table[c] # NoRow /\ ~Activates(p, c)
        BY <1>3, <1>7, <1>8, <3>1, <4>1 DEF Creates, Activates
      <4> QED
        BY <1>1, <4>2 DEF RowAfter
    <3>2. CASE ~Creates(p, c) /\ Activates(p, c)
      <4>1. o < p /\ ActivatedBy(c, n)
        BY <1>6, <1>9, <3>2 DEF ActivatedBy
      <4>2. ~(o > n)
        BY <1>4, <1>9, <4>1
      <4>3. table[c] \in Nat
        BY <1>3, <1>7, <4>1, <4>2
      <4> QED
        BY <1>1, <1>8, <3>2, <4>3 DEF RowAfter
    <3>3. CASE ~Creates(p, c) /\ ~Activates(p, c)
      BY <1>1, <3>3 DEF RowAfter
    <3> QED
      BY <3>1, <3>2, <3>3
  <2> QED
    BY <1>3, <2>1, <2>2 DEF RowUpTo
<1>10. CASE p = n + 1
  <2>1. m = n + 1 /\ m = p
    BY <1>4, <1>5, <1>10
  <2>2. ActivatedBy(c, m) <=> ActivatedBy(c, n) \/ Activates(p, c)
    <3>1. \A q \in Activations(c) : q <= m <=> q <= n \/ q = p
      BY <1>4, <2>1
    <3> QED
      BY <1>6, <3>1 DEF ActivatedBy
  <2>3. CASE Creates(p, c)
    <3>1. p = o /\ o > n /\ ~(o > m) /\ ~Activates(p, c)
      BY <1>4, <1>6, <1>10, <2>1, <2>3 DEF Creates, Activates
    <3>2. ~ActivatedBy(c, n)
      BY <1>4, <1>6, <3>1 DEF ActivatedBy
    <3>3. t[c] = NotActivated
      BY <1>1, <1>3, <2>3, <3>1 DEF RowAfter
    <3> QED
      BY <2>2, <3>1, <3>2, <3>3 DEF RowUpTo
  <2>4. CASE ~Creates(p, c) /\ Activates(p, c)
    <3>1. p \in Activations(c) /\ o < p
      BY <1>6, <2>4
    <3>2. ~(o > n) /\ ~(o > m)
      BY <1>4, <1>10, <2>1, <3>1
    <3>3. CASE ActivatedBy(c, n)
      <4>1. t[c] = table[c] /\ table[c] = FirstActivation(c)
        BY <1>1, <1>3, <1>7, <1>8, <2>4, <3>2, <3>3 DEF RowAfter
      <4> QED
        BY <2>2, <3>2, <3>3, <4>1 DEF RowUpTo
    <3>4. CASE ~ActivatedBy(c, n)
      <4>1. t[c] = Chain[p].block
        BY <1>1, <1>3, <2>4, <3>2, <3>4 DEF RowAfter
      <4>2. \A q \in Activations(c) : p <= q
        BY <1>4, <1>10, <3>4 DEF ActivatedBy
      <4>3. FirstActivation(c) = Chain[p].block
        BY <3>1, <4>2, FirstActivationIs
      <4> QED
        BY <2>2, <2>4, <3>2, <4>1, <4>3 DEF RowUpTo
    <3> QED
      BY <3>3, <3>4
  <2>5. CASE ~Creates(p, c) /\ ~Activates(p, c)
    <3>1. t[c] = table[c] /\ p # o
      BY <1>1, <1>2, <2>5 DEF RowAfter
    <3>2. o > m <=> o > n
      BY <1>4, <2>1, <3>1
    <3> QED
      BY <1>3, <2>2, <2>5, <3>1, <3>2 DEF RowUpTo
  <2> QED
    BY <2>3, <2>4, <2>5
<1> QED
  BY <1>5, <1>9, <1>10

\* Storing a stretch of logs that leaves out none keeps it exact.
LEMMA ExactStretch ==
  ASSUME NEW table \in Table, NEW n \in Nat, NEW f \in Nat,
         NEW a \in Nat, NEW b \in 0 .. Len(Chain), a <= b, a <= n,
         ExactUpTo(table, n, f)
  PROVE  \E m \in Nat : /\ m >= b /\ m >= n
                        /\ ExactUpTo(FoldLeft(StoreCampaign, table, Stretch(a, b)), m, f)
<1> DEFINE logs == Stretch(a, b)
           k == b - a
           m(i) == Larger(n, a + i)
           fold == FoldLeft(StoreCampaign, table, logs)
<1>1. /\ k \in Nat /\ Len(logs) = k /\ logs \in Seq(Position)
      /\ \A i \in 1 .. k : logs[i] = a + i /\ a + i \in Position
  <2>1. k \in Nat /\ \A i \in 1 .. k : a + i \in Position
    BY PositionsFrom1
  <2>2. logs = [i \in 1 .. k |-> a + i]
    BY DEF Stretch
  <2> HIDE DEF logs, k
  <2>3. logs \in [1 .. k -> Position]
    BY <2>1, <2>2
  <2> QED
    BY <2>1, <2>2, <2>3
<1>2. /\ \A i \in 0 .. k : m(i) \in Nat /\ m(i) >= n /\ m(i) >= a + i
      /\ m(0) = n
      /\ \A i \in 1 .. k : /\ m(i) = Larger(m(i - 1), a + i)
                           /\ a + i <= m(i - 1) + 1
  BY <1>1 DEF Larger
<1> HIDE DEF logs, k, m
<1>3. PICK w \in [0 .. k -> Table] :
        /\ w[0] = table
        /\ \A i \in 1 .. k : w[i] = StoreCampaign(w[i - 1], logs[i])
        /\ fold = w[k]
  BY <1>1, StoringFolds
<1> HIDE DEF fold
<1> DEFINE Bad == {i \in 1 .. k : ~ ExactUpTo(w[i], m(i), f)}
<1>4. Bad = {}
  <2> SUFFICES ASSUME Bad # {} PROVE FALSE
    OBVIOUS
  <2>1. PICK x \in Bad : \A y \in Bad : x <= y
    <3>1. Bad \in SUBSET (1 .. k)
      OBVIOUS
    <3> HIDE DEF Bad
    <3> QED
      BY <1>1, <3>1, LeastIn
  <2>2. x \in 1 .. k /\ ~ ExactUpTo(w[x], m(x), f)
    BY <2>1
  <2>3. x - 1 \in 0 .. k /\ x - 1 \notin Bad
    <3>1. x - 1 \in 0 .. k /\ ~ (x <= x - 1)
      BY <1>1, <2>2
    <3> HIDE DEF Bad
    <3> QED
      BY <2>1, <3>1
  <2>4. ExactUpTo(w[x - 1], m(x - 1), f)
    <3>1. CASE x = 1
      <4>1. x - 1 = 0
        BY <3>1
      <4> QED
        BY <1>2, <1>3, <4>1
    <3>2. CASE x # 1
      <4>1. x - 1 \in 1 .. k
        BY <1>1, <2>2, <3>2
      <4> QED
        BY <2>3, <4>1
    <3> QED
      BY <3>1, <3>2
  <2>5. w[x] = StoreCampaign(w[x - 1], a + x) /\ w[x - 1] \in Table
    BY <1>1, <1>3, <2>2, <2>3
  <2>6. /\ m(x) = Larger(m(x - 1), a + x) /\ m(x - 1) \in Nat
        /\ a + x \in Position /\ a + x <= m(x - 1) + 1
    BY <1>1, <1>2, <2>2, <2>3
  <2> DEFINE u == w[x - 1]
             l == m(x - 1)
             p == a + x
  <2>7. /\ w[x] = StoreCampaign(u, p) /\ u \in Table /\ ExactUpTo(u, l, f)
        /\ m(x) = Larger(l, p) /\ l \in Nat /\ p \in Position /\ p <= l + 1
    BY <2>4, <2>5, <2>6
  <2> HIDE DEF u, l, p
  <2>8. ExactUpTo(StoreCampaign(u, p), Larger(l, p), f)
    BY <2>7, ExactStep
  <2> QED
    BY <2>2, <2>7, <2>8
<1>5. ExactUpTo(w[k], m(k), f)
  <2>1. CASE k = 0
    BY <1>2, <1>3, <2>1
  <2>2. CASE k # 0
    <3>1. k \in 1 .. k
      BY <1>1, <2>2
    <3> QED
      BY <1>4, <3>1
  <2> QED
    BY <2>1, <2>2
<1>6. k \in 0 .. k /\ a + k = b
  BY <1>1 DEF k
<1>7. m(k) \in Nat /\ m(k) >= n /\ m(k) >= b
  BY <1>2, <1>6
<1>8. ExactUpTo(fold, m(k), f)
  BY <1>3, <1>5
<1> HIDE DEF fold
<1> QED
  BY <1>7, <1>8 DEF fold, logs

\* A sweep that starts further on leaves the table exact for what it covers.
LEMMA ExactFrom ==
  ASSUME NEW table, NEW n \in Nat, NEW f \in Nat, NEW g \in Nat, f <= g,
         ExactUpTo(table, n, f)
  PROVE  \E m \in Nat : m >= Before(g) /\ ExactUpTo(table, m, g)
<1> DEFINE m == Larger(n, Before(g))
<1>1. Before(g) \in Nat /\ m \in Nat /\ m >= n /\ m >= Before(g) /\ (m = n \/ m = Before(g))
  BY BeforeNumbers DEF Larger
<1> HIDE DEF m
<1>2. ASSUME NEW c \in Campaign, NEW p \in Position, Creates(p, c), Chain[p].block >= g
      PROVE  table[c] = RowUpTo(m, p, c)
  <2>1. Chain[p].block >= f /\ Chain[p].block \in Nat /\ p \in Nat
    BY <1>2, BlocksAreNumbers, PositionsFrom1
  <2>2. table[c] = RowUpTo(n, p, c)
    BY <1>2, <2>1 DEF ExactUpTo
  <2>3. ~(p <= Before(g))
    BY <1>2, <2>1, BeforeNumbers
  <2>4. CASE m = n
    BY <2>2, <2>4
  <2>5. CASE m = Before(g)
    <3>1. p > m /\ p > n
      BY <1>1, <2>1, <2>3, <2>5
    <3> QED
      BY <2>2, <3>1 DEF RowUpTo
  <2> QED
    BY <1>1, <2>4, <2>5
<1> QED
  BY <1>1, <1>2 DEF ExactUpTo

\* Where the logs stored end is a block.
LEMMA StoredTyped ==
  ASSUME CursorInv, first # None
  PROVE  /\ StoredBefore \in Nat /\ first \in Nat
         /\ pc = "mark" => StoredBefore = chunk.end + 1
         /\ Busy => /\ chunk.start \in Nat /\ chunk.end \in Nat
                    /\ chunk.start = (IF cursor = None THEN first ELSE cursor + 1)
                    /\ chunk.start <= chunk.end
         /\ (IF cursor = None THEN first ELSE cursor + 1) <= StoredBefore
<1>1. /\ first \in Nat /\ cursor \in Nat \cup {None}
      /\ chunk.start \in Nat /\ chunk.end \in Nat
  BY DEF CursorInv, Typed
<1>2. Busy => /\ chunk.start = (IF cursor = None THEN first ELSE cursor + 1)
              /\ chunk.start <= chunk.end
  BY DEF CursorInv, ChunkPlaced
<1>3. cursor # None => cursor \in Nat
  BY <1>1
<1> QED
  BY <1>1, <1>2, <1>3 DEF StoredBefore, Busy

\* As long as nothing is written, and nothing counts as stored that did not.
LEMMA TableKept ==
  ASSUME CursorInv, CursorInv', TableInv, pc' # "mark",
         UNCHANGED <<campaigns, first, cursor>>
  PROVE  TableInv'
<1>1. CASE first = None
  BY <1>1 DEF TableInv
<1>2. CASE first # None
  <2>1. PICK n \in Nat : n >= Before(StoredBefore) /\ ExactUpTo(campaigns, n, first)
    BY <1>2 DEF TableInv
  <2>2. StoredBefore' = (IF cursor = None THEN first ELSE cursor + 1)
    BY DEF StoredBefore
  <2>3. StoredBefore \in Nat /\ StoredBefore' \in Nat /\ StoredBefore' <= StoredBefore
    <3>1. StoredBefore' \in Nat
      BY <1>2, <2>2 DEF CursorInv, Typed
    <3> QED
      BY <1>2, <2>2, <3>1, StoredTyped
  <2> DEFINE s == StoredBefore
             t == StoredBefore'
  <2>4. s \in Nat /\ t \in Nat /\ t <= s /\ n >= Before(s)
    BY <2>1, <2>3
  <2> HIDE DEF s, t
  <2>5. n >= Before(t)
    <3>1. Before(t) <= Before(s) /\ Before(t) \in Nat /\ Before(s) \in Nat
      BY <2>4, BeforeGrows, BeforeNumbers
    <3> QED
      BY <2>4, <3>1
  <2>6. ExactUpTo(campaigns', n, first')
    BY <2>1
  <2>7. n >= Before(StoredBefore')
    BY <2>5 DEF t
  <2> QED
    BY <1>2, <2>6, <2>7 DEF TableInv
<1> QED
  BY <1>1, <1>2

\* A chunk without logs leaves nothing to store.
LEMMA EmptyChunk ==
  ASSUME CursorInv', TableInv, CursorInv, pc = "logs", LogsArrive, pc' = "mark"
  PROVE  TableInv'
<1>1. /\ Holds(got') = {} /\ chunk' = chunk /\ pc' = "mark"
      /\ campaigns' = campaigns /\ cursor' = cursor /\ first' = first
  BY DEF LogsArrive, databaseVars, historyVars
<1>2. first # None
  BY DEF CursorInv, ChunkPlaced, Busy
<1>3. PICK n \in Nat : n >= Before(StoredBefore) /\ ExactUpTo(campaigns, n, first)
  BY <1>2 DEF TableInv
<1> DEFINE s == chunk.start
           e == chunk.end + 1
<1>4. /\ s \in Nat /\ e \in Nat /\ StoredBefore = s /\ StoredBefore' = e
      /\ chunk.end \in Nat
  BY <1>1, <1>2, StoredTyped DEF StoredBefore, Busy
<1>5. \A p \in Position : ~(Chain[p].block \in chunk.start .. chunk.end)
  <2>1. TAKE p \in Position
  <2>2. ASSUME Chain[p].block \in chunk.start .. chunk.end
        PROVE  Covers(got', Chain[p].block)
    BY <1>1, <2>2 DEF CursorInv, ChunkCovered
  <2>3. Covers(got', Chain[p].block) => p \in Holds(got')
    BY DEF Holds, Covers
  <2> QED
    BY <1>1, <2>2, <2>3
<1>6. \A p \in Position : Chain[p].block < e => Chain[p].block < s
  BY <1>4, <1>5, BlocksAreNumbers
<1> HIDE DEF s, e
<1>7. Before(e) <= Before(s)
  <2>1. Before(e) \in 0 .. Len(Chain) /\ Before(s) \in Nat /\ Len(Chain) \in Nat
    BY <1>4, BeforeCounts, BeforeNumbers
  <2>2. CASE Before(e) = 0
    BY <2>1, <2>2
  <2>3. CASE Before(e) # 0
    <3> DEFINE p == Before(e)
    <3>1. p \in Position /\ p <= Before(e)
      BY <2>1, <2>3, PositionsFrom1
    <3> HIDE DEF p
    <3>2. Chain[p].block < e
      BY <1>4, <3>1, BeforeNumbers
    <3>3. p <= Before(s)
      BY <1>4, <1>6, <3>1, <3>2, BeforeNumbers
    <3> QED
      BY <3>3 DEF p
  <2> QED
    BY <2>2, <2>3
<1>8. n >= Before(e)
  <2>1. n >= Before(s) /\ Before(s) \in Nat /\ Before(e) \in Nat
    BY <1>3, <1>4, BeforeNumbers
  <2> QED
    BY <1>7, <2>1
<1>9. n >= Before(StoredBefore') /\ ExactUpTo(campaigns', n, first')
  BY <1>1, <1>3, <1>4, <1>8
<1> QED
  BY <1>1, <1>2, <1>9 DEF TableInv

\* Storing a chunk.
LEMMA StoreKeepsTable ==
  ASSUME ReadInv, campaigns \in Table, TableInv, Store
  PROVE  TableInv'
<1>1. /\ pc = "store" /\ pc' = "mark" /\ chunk' = chunk /\ cursor' = cursor
      /\ first' = first
  BY DEF Store, historyVars
<1>2. CursorInv /\ first # None
  BY <1>1 DEF ReadInv, CursorInv, ChunkPlaced, Busy
<1>3. PICK n \in Nat : n >= Before(StoredBefore) /\ ExactUpTo(campaigns, n, first)
  BY <1>2 DEF TableInv
<1> DEFINE s == chunk.start
           e == chunk.end + 1
           a == Before(s)
           b == Before(e)
<1>4. /\ s \in Nat /\ e \in Nat /\ s <= e /\ chunk.end \in Nat /\ first \in Nat
      /\ StoredBefore = s /\ StoredBefore' = e
  BY <1>1, <1>2, StoredTyped DEF StoredBefore, Busy
<1>5. LogsIn(s, chunk.end) = Stretch(a, b)
  BY <1>4, LogsInStretch
<1>6. campaigns' = FoldLeft(StoreCampaign, campaigns, Stretch(a, b))
  BY <1>5, StoreTyped
<1> HIDE DEF s, e
<1>7. a \in Nat /\ b \in 0 .. Len(Chain) /\ a <= b
  BY <1>4, BeforeCounts, BeforeNumbers, BeforeGrows
<1>8. a <= n
  BY <1>3, <1>4, <1>7
<1> HIDE DEF a, b
<1>9. PICK m \in Nat : m >= b /\ ExactUpTo(FoldLeft(StoreCampaign, campaigns, Stretch(a, b)), m, first)
  BY <1>3, <1>4, <1>7, <1>8, ExactStretch
<1>10. ExactUpTo(campaigns', m, first')
  BY <1>1, <1>6, <1>9
<1>11. m >= Before(StoredBefore')
  BY <1>4, <1>9 DEF b
<1> QED
  BY <1>1, <1>2, <1>10, <1>11 DEF TableInv

\* The cursor is set where the chunk stored ends.
LEMMA MarkKeepsTable ==
  ASSUME CursorInv, TableInv, Mark
  PROVE  TableInv'
<1>1. /\ pc = "mark" /\ pc' # "mark" /\ cursor' = chunk.end
      /\ first' = first /\ campaigns' = campaigns
  BY DEF Mark, CursorAt, NextChunk, Between, historyVars
<1>2. first # None /\ chunk.end \in Nat
  BY <1>1 DEF CursorInv, ChunkPlaced, Busy, Typed
<1>3. PICK n \in Nat : n >= Before(StoredBefore) /\ ExactUpTo(campaigns, n, first)
  BY <1>2 DEF TableInv
<1>4. StoredBefore = chunk.end + 1 /\ StoredBefore' = chunk.end + 1
  BY <1>1, <1>2 DEF StoredBefore, None
<1> QED
  BY <1>1, <1>2, <1>3, <1>4 DEF TableInv

\* A sweep starts.
LEMMA HeadKeepsTable ==
  ASSUME CursorInv, CursorInv', TableInv, HeadRead
  PROVE  TableInv'
<1> DEFINE from == IF tailing THEN TailFrom ELSE ResolveStart
<1>1. /\ pc' # "mark" /\ cursor' = cursor /\ campaigns' = campaigns
  BY DEF HeadRead, NextChunk, Between, databaseVars
<1>2. \/ first' = first
      \/ cursor = None /\ from <= head /\ first' = from
  <2>1. /\ Typed /\ from \in Nat /\ head \in Nat
    BY FromTyped DEF CursorInv, Typed
  <2>2. IF from > head THEN first' = first
        ELSE first' = IF cursor = None THEN from ELSE first
    BY DEF HeadRead
  <2> HIDE DEF from
  <2> QED
    BY <2>1, <2>2
<1>3. CASE first' = first
  BY <1>1, <1>3, TableKept
<1>4. CASE cursor = None /\ from <= head /\ first' = from
  <2>1. /\ from \in Nat /\ from = ResolveStart /\ first' = from /\ from # None
    BY <1>4, FromTyped DEF CursorInv, Typed, None
  <2>2. StoredBefore' = from
    BY <1>1, <1>4 DEF StoredBefore
  <2>3. \E m \in Nat : m >= Before(from) /\ ExactUpTo(campaigns, m, from)
    <3>1. CASE first = None
      <4> DEFINE m == Before(from)
      <4>1. /\ m \in Nat /\ m >= m
            /\ \A p \in Position : Chain[p].block < from <=> p <= m
        BY <2>1, BeforeNumbers
      <4>2. \A p \in Position : Chain[p].block >= from => p > m
        BY <2>1, <4>1, BlocksAreNumbers, PositionsFrom1
      <4>3. \A c \in Campaign : campaigns[c] = NoRow
        BY <3>1 DEF TableInv
      <4> HIDE DEF m, from
      <4>4. ExactUpTo(campaigns, m, from)
        BY <4>2, <4>3 DEF ExactUpTo, RowUpTo
      <4> QED
        BY <4>1, <4>4 DEF m
    <3>2. CASE first # None
      <4>1. first <= ResolveStart /\ first \in Nat
        BY <1>4, <3>2 DEF CursorInv, Typed, StartPlaced, ResolveStart
      <4>2. PICK n \in Nat : ExactUpTo(campaigns, n, first)
        BY <3>2 DEF TableInv
      <4>3. first <= from
        BY <2>1, <4>1
      <4> HIDE DEF from
      <4> QED
        BY <2>1, <4>1, <4>2, <4>3, ExactFrom
    <3> QED
      BY <3>1, <3>2
  <2> HIDE DEF from
  <2> QED
    BY <1>1, <2>1, <2>2, <2>3 DEF TableInv
<1> QED
  BY <1>2, <1>3, <1>4

LEMMA TableStep ==
  ASSUME TableTyped, TableInv, [Next]_vars
  PROVE  TableInv'
<1>1. ReadInv /\ campaigns \in Table /\ CursorInv
  BY DEF TableTyped, ReadInv, OtherTypes
<1>2. CursorInv'
  <2>1. TableTyped'
    BY TableTypedStep
  <2> QED
    BY <2>1 DEF TableTyped, ReadInv
<1>3. CASE Boot \/ Poll \/ HeadFails \/ LogsFail \/ StampsArrive \/ StampsFail \/ Crash
  <2>1. pc' # "mark" /\ UNCHANGED <<campaigns, first, cursor>>
    BY <1>3 DEF Boot, Poll, HeadFails, LogsFail, StampsArrive, StampsFail, Crash,
                Throw, Between, databaseVars, historyVars
  <2> QED
    BY <1>1, <1>2, <2>1, TableKept
<1>4. CASE HeadRead
  BY <1>1, <1>2, <1>4, HeadKeepsTable
<1>5. CASE LogsArrive
  <2>1. pc = "logs" /\ UNCHANGED <<campaigns, first, cursor>>
    BY <1>5 DEF LogsArrive, databaseVars, historyVars
  <2>2. CASE pc' = "mark"
    BY <1>1, <1>2, <1>5, <2>1, <2>2, EmptyChunk
  <2>3. CASE pc' # "mark"
    BY <1>1, <1>2, <2>1, <2>3, TableKept
  <2> QED
    BY <2>2, <2>3
<1>6. CASE Store
  BY <1>1, <1>6, StoreKeepsTable
<1>7. CASE Mark
  BY <1>1, <1>7, MarkKeepsTable
<1>8. CASE Grow \/ UNCHANGED vars
  <2>1. UNCHANGED <<campaigns, first, cursor, pc, chunk>>
    BY <1>8 DEF Grow, vars, databaseVars, processVars, historyVars
  <2>2. StoredBefore' = StoredBefore
    BY <2>1 DEF StoredBefore
  <2> QED
    BY <2>1, <2>2 DEF TableInv
<1> QED
  BY <1>3, <1>4, <1>5, <1>6, <1>7, <1>8 DEF Next, Run

LEMMA TableExact ==
  ASSUME CursorInv, TableInv
  PROVE  CampaignsExact
<1> SUFFICES ASSUME NEW c \in Campaign, NEW p \in Position, Creates(p, c),
                    InScope(p), Chain[p].block <= cursor
             PROVE  IF \E q \in Activations(c) : Chain[q].block <= cursor
                    THEN campaigns[c] = FirstActivation(c)
                    ELSE campaigns[c] \in {NotActivated}
                           \cup {FirstActivation(c) : q \in Activations(c)}
  BY DEF CampaignsExact
<1>1. first # None /\ Chain[p].block >= first
  BY DEF InScope
<1>2. cursor \in Nat
  <2>1. Chain[p].block \in Nat /\ cursor \in Nat \cup {None}
    BY BlocksAreNumbers DEF CursorInv, Typed
  <2> QED
    BY <2>1 DEF None
<1>3. PICK n \in Nat : n >= Before(StoredBefore) /\ ExactUpTo(campaigns, n, first)
  BY <1>1 DEF TableInv
<1>4. cursor + 1 <= StoredBefore /\ StoredBefore \in Nat /\ cursor + 1 \in Nat
  BY <1>1, <1>2, StoredTyped DEF None
<1> DEFINE b == cursor + 1
<1>5. n >= Before(b) /\ b \in Nat
  <2> DEFINE s == StoredBefore
  <2>1. s \in Nat /\ b \in Nat /\ b <= s /\ n >= Before(s)
    BY <1>3, <1>4
  <2> HIDE DEF s, b
  <2>2. Before(b) <= Before(s) /\ Before(b) \in Nat /\ Before(s) \in Nat
    BY <2>1, BeforeGrows, BeforeNumbers
  <2> QED
    BY <2>1, <2>2
<1>6. \A q \in Position : Chain[q].block <= cursor => q <= n
  <2>1. TAKE q \in Position
  <2>2. HAVE Chain[q].block <= cursor
  <2>3. Chain[q].block < b
    BY <1>2, <2>2, BlocksAreNumbers
  <2> HIDE DEF b
  <2>4. q <= Before(b) /\ Before(b) \in Nat /\ q \in Nat
    BY <1>5, <2>3, BeforeNumbers, PositionsFrom1
  <2> QED
    BY <1>5, <2>4
<1>7. campaigns[c] = IF ActivatedBy(c, n) THEN FirstActivation(c) ELSE NotActivated
  <2>1. campaigns[c] = RowUpTo(n, p, c)
    BY <1>1, <1>3 DEF ExactUpTo
  <2>2. ~(p > n)
    BY <1>6, PositionsFrom1
  <2> QED
    BY <2>1, <2>2 DEF RowUpTo
<1>8. (\E q \in Activations(c) : Chain[q].block <= cursor) => ActivatedBy(c, n)
  BY <1>6 DEF ActivatedBy, Activations
<1>9. ActivatedBy(c, n) =>
        FirstActivation(c) \in {FirstActivation(c) : q \in Activations(c)}
  BY DEF ActivatedBy
<1> QED
  BY <1>7, <1>8, <1>9

\* The campaigns table has every campaign created in the blocks indexed, with
\* the block of its first activation, whatever failed, however a chunk was split
\* and however often it was stored.
THEOREM CampaignsKept == Spec => []CampaignsExact
<1>1. Init => TableTyped /\ TableInv
  <2>1. Init => TableInv
    BY DEF Init, TableInv
  <2> QED
    BY <2>1, TableTypedInit
<1>2. TableTyped /\ TableInv /\ [Next]_vars => (TableTyped /\ TableInv)'
  BY TableTypedStep, TableStep
<1>3. TableTyped /\ TableInv => CampaignsExact
  BY TableExact DEF TableTyped, ReadInv
<1> QED
  BY <1>1, <1>2, <1>3, PTL DEF Spec
=============================================================================
