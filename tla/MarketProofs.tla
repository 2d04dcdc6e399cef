------------------------------ MODULE MarketProofs ---------------------------
(***************************************************************************)
(* Theorems about MarketMetrics and MetricsServer, for every chain, with   *)
(* any days, buckets, epochs and lengths of rankings: the tables conserve  *)
(* value, and the answers add up whatever is committed while they are      *)
(* computed.                                                               *)
(*                                                                         *)
(* What the indexer stores is whole blocks, and all that is in its reach   *)
(* up to one of them; so the sums are those the contracts promise of every *)
(* block and of every prefix of the chain.  The reports group the same     *)
(* rows in different ways: a sum is the sum of the sums by any key, and a  *)
(* number of distinct things no more than the sum of such numbers.         *)
(***************************************************************************)
EXTENDS MetricsServer, LogIndexerProofs

-----------------------------------------------------------------------------
(* Value is conserved                                                      *)

\* The known logs of a block are stored together.
WholeBlocks ==
  \A p, q \in Position :
    p \in raw /\ Chain[q].block = Chain[p].block /\ Known(q) => q \in raw

\* The rows lie before block n, and leave out nothing known from `from` on.
ReachTo(rows, from, n) ==
  /\ \A p \in rows : Chain[p].block < n
  /\ \A p \in Position :
       Known(p) /\ Chain[p].block >= from /\ Chain[p].block < n => p \in rows

\* What is stored reaches to such a block, that where the next chunk starts or
\* a later one.
StoredInv ==
  first # None =>
    \E n \in Nat : /\ n >= IF cursor = None THEN first ELSE cursor + 1
                   /\ ReachTo(raw, first, n)

\* Only storing a chunk changes what is stored, and it stores whole blocks.
LEMMA RawSteps ==
  ASSUME [Next]_vars
  PROVE  raw' = raw \/ (Store /\ raw' = raw \cup {p \in Holds(got) : Known(p)})
  BY DEF Next, Run, Boot, Poll, HeadRead, LogsArrive, StampsArrive, Store, Mark,
         HeadFails, LogsFail, StampsFail, Grow, Crash, vars, databaseVars

LEMMA BlocksStayWhole ==
  ASSUME WholeBlocks, [Next]_vars
  PROVE  WholeBlocks'
<1>1. CASE raw' = raw
  BY <1>1 DEF WholeBlocks
<1>2. CASE raw' = raw \cup {p \in Holds(got) : Known(p)}
  <2>1. \A p, q \in Position : Chain[q].block = Chain[p].block /\ p \in Holds(got)
                               => q \in Holds(got)
    BY DEF Holds
  <2> QED
    BY <1>2, <2>1 DEF WholeBlocks
<1> QED
  BY <1>1, <1>2, RawSteps

\* A sweep starts, or goes on after a chunk.
LEMMA StoredHeadStep ==
  ASSUME CursorInv, StoredInv, HeadRead
  PROVE  StoredInv'
<1> DEFINE from == IF tailing THEN TailFrom ELSE ResolveStart
<1>1. raw' = raw /\ cursor' = cursor
  BY DEF HeadRead, databaseVars
<1>2. \/ first' = first
      \/ cursor = None /\ from <= head /\ first' = from
  <2>1. /\ Typed /\ from \in Nat /\ head \in Nat
    BY FromTyped DEF CursorInv, Typed
  <2>2. IF from > head THEN first' = first
        ELSE first' = IF cursor = None THEN from ELSE first
    BY DEF HeadRead
  <2> HIDE DEF from
  <2> QED
    BY <2>1, <2>2
<1>3. CASE first' = first
  BY <1>1, <1>3 DEF StoredInv, ReachTo
<1>4. CASE cursor = None /\ from <= head /\ first' = from
  <2>1. /\ from \in Nat /\ from = ResolveStart /\ first' = from /\ from # None
    BY <1>4, FromTyped DEF CursorInv, Typed, None
  <2>2. \A p \in Position : Chain[p].block \in Nat
    BY BlocksAreNumbers
  <2>3. raw \subseteq Position
    BY DEF CursorInv, Typed
  <2>4. CASE first = None
    <3>1. raw = {}
      BY <1>4, <2>4 DEF CursorInv, StartPlaced
    <3>2. ReachTo(raw', first', first')
      BY <1>1, <2>1, <2>2, <3>1 DEF ReachTo
    <3> QED
      BY <1>1, <1>4, <2>1, <3>2 DEF StoredInv
  <2>5. CASE first # None
    <3>1. first <= from /\ first \in Nat
      BY <1>4, <2>1, <2>5 DEF CursorInv, Typed, StartPlaced, ResolveStart
    <3>2. PICK n \in Nat : n >= first /\ ReachTo(raw, first, n)
      BY <1>4, <2>5 DEF StoredInv
    <3> DEFINE m == Larger(n, from)
    <3>3. m \in Nat /\ m >= n /\ m >= from /\ (m = n \/ m = from)
      BY <2>1 DEF Larger
    <3> HIDE DEF m, from
    <3>4. ASSUME NEW p \in raw PROVE Chain[p].block < m
      BY <2>2, <2>3, <3>2, <3>3 DEF ReachTo
    <3>5. ASSUME NEW p \in Position, Known(p), Chain[p].block >= from, Chain[p].block < m
          PROVE  p \in raw
      <4>1. Chain[p].block \in Nat /\ Chain[p].block < n /\ Chain[p].block >= first
        BY <2>1, <2>2, <3>1, <3>3, <3>5
      <4> QED
        BY <2>5, <3>2, <3>5, <4>1 DEF ReachTo
    <3>6. ReachTo(raw', first', m)
      BY <1>1, <2>1, <3>4, <3>5 DEF ReachTo
    <3>7. m >= first' /\ cursor' = None
      BY <1>1, <1>4, <2>1, <3>3
    <3> QED
      BY <3>3, <3>6, <3>7 DEF StoredInv
  <2> QED
    BY <2>4, <2>5
<1> QED
  BY <1>2, <1>3, <1>4

\* The answers to a chunk's ranges hold the logs of its blocks.
LEMMA ChunkHeld ==
  ASSUME CursorInv, pc = "store"
  PROVE  Holds(got) = {p \in Position : Chain[p].block \in chunk.start .. chunk.end}
<1>1. /\ chunk.start \in Nat /\ chunk.end \in Nat /\ got \in Seq(Ask)
      /\ \A i \in DOMAIN got : Inside(got[i])
      /\ \A b \in chunk.start .. chunk.end : Covers(got, b)
  BY DEF CursorInv, Typed, ChunkPlaced, ChunkCovered, Busy
<1>2. ASSUME NEW p \in Holds(got)
      PROVE  Chain[p].block \in chunk.start .. chunk.end
  <2>1. PICK i \in DOMAIN got : Chain[p].block \in got[i].from .. got[i].to
    BY <1>2 DEF Holds
  <2>2. got[i] \in Ask /\ Inside(got[i]) /\ p \in Position
    BY <1>1, <1>2, <2>1 DEF Holds
  <2>3. Chain[p].block \in Nat
    BY <2>2, BlocksAreNumbers
  <2>4. /\ got[i].to <= chunk.end /\ chunk.start <= got[i].from
        /\ got[i].to \in Nat /\ got[i].from \in Nat
    BY <2>2 DEF Inside, Ask
  <2> QED
    BY <1>1, <2>1, <2>3, <2>4
<1>3. ASSUME NEW p \in Position, Chain[p].block \in chunk.start .. chunk.end
      PROVE  p \in Holds(got)
  <2>1. Covers(got, Chain[p].block)
    BY <1>1, <1>3
  <2> QED
    BY <2>1 DEF Covers, Holds
<1> QED
  BY <1>2, <1>3 DEF Holds

\* A chunk is stored: what is stored reaches to its end, if it did not before.
LEMMA StoredStoreStep ==
  ASSUME CursorInv, StoredInv, Store
  PROVE  StoredInv'
<1>1. /\ raw' = raw \cup {p \in Holds(got) : Known(p)}
      /\ cursor' = cursor /\ first' = first /\ pc = "store" /\ got \in Seq(Ask)
  BY DEF Store, historyVars, CursorInv, Typed
<1> DEFINE s == IF cursor = None THEN first ELSE cursor + 1
           e == chunk.end + 1
<1>2. /\ first # None /\ chunk.start = s /\ s \in Nat /\ chunk.end \in Nat /\ e \in Nat
      /\ \A i \in DOMAIN got : Inside(got[i])
      /\ \A b \in chunk.start .. chunk.end : Covers(got, b)
  <2>1. chunk.start \in Nat /\ chunk.end \in Nat
    BY DEF CursorInv, Typed
  <2> QED
    BY <1>1, <2>1 DEF CursorInv, ChunkPlaced, ChunkCovered, Busy
<1>3. PICK n \in Nat : n >= s /\ ReachTo(raw, first, n)
  BY <1>2 DEF StoredInv
<1> DEFINE m == Larger(n, e)
<1>4. m \in Nat /\ m >= n /\ m >= e /\ (m = n \/ m = e)
  BY <1>2 DEF Larger
<1>5. \A p \in Position : Chain[p].block \in Nat
  BY BlocksAreNumbers
<1>6. raw \subseteq Position
  BY DEF CursorInv, Typed
<1>7. ASSUME NEW p \in Holds(got) PROVE Chain[p].block < e
  <2>1. p \in Position /\ Chain[p].block \in chunk.start .. chunk.end
    BY <1>1, <1>7, ChunkHeld
  <2> QED
    BY <1>2, <1>5, <2>1
<1>8. ASSUME NEW p \in Position, Chain[p].block >= s, Chain[p].block < e
      PROVE  p \in Holds(got)
  <2>1. Chain[p].block \in chunk.start .. chunk.end
    BY <1>2, <1>5, <1>8
  <2> QED
    BY <1>1, <2>1, ChunkHeld
<1> HIDE DEF m, e, s
<1>9. ASSUME NEW p \in raw' PROVE Chain[p].block < m
  <2>1. CASE p \in raw
    <3>1. Chain[p].block < n /\ Chain[p].block \in Nat
      BY <1>3, <1>5, <1>6, <2>1 DEF ReachTo
    <3> QED
      BY <1>4, <3>1
  <2>2. CASE p \in Holds(got)
    <3>1. Chain[p].block < e /\ Chain[p].block \in Nat
      BY <1>5, <1>7, <2>2 DEF Holds
    <3> QED
      BY <1>2, <1>4, <3>1
  <2> QED
    BY <1>1, <1>9, <2>1, <2>2
<1>10. ASSUME NEW p \in Position, Known(p), Chain[p].block >= first, Chain[p].block < m
       PROVE  p \in raw'
  <2>1. CASE Chain[p].block < n
    BY <1>1, <1>3, <1>10, <2>1 DEF ReachTo
  <2>2. CASE ~(Chain[p].block < n)
    <3>1. Chain[p].block < e /\ Chain[p].block >= s
      BY <1>2, <1>3, <1>4, <1>5, <1>10, <2>2
    <3> QED
      BY <1>1, <1>8, <1>10, <3>1
  <2> QED
    BY <2>1, <2>2
<1>11. ReachTo(raw', first', m)
  BY <1>1, <1>9, <1>10 DEF ReachTo
<1>12. m >= s
  BY <1>2, <1>3, <1>4
<1> QED
  BY <1>1, <1>4, <1>11, <1>12 DEF StoredInv, s

\* The cursor is set: the chunk before it was stored.
LEMMA StoredMarkStep ==
  ASSUME CursorInv, StoredInv, Mark
  PROVE  StoredInv'
<1> DEFINE s == IF cursor = None THEN first ELSE cursor + 1
           e == chunk.end + 1
<1>1. /\ pc = "mark" /\ raw' = raw /\ cursor' = chunk.end /\ first' = first
  BY DEF Mark, CursorAt, historyVars
<1>2. /\ first # None /\ chunk.start = s /\ s \in Nat /\ chunk.end \in Nat /\ e \in Nat
      /\ s < e
      /\ \A p \in Position :
           Known(p) /\ Chain[p].block \in chunk.start .. chunk.end => p \in raw
  <2>1. chunk.start \in Nat /\ chunk.end \in Nat
    BY DEF CursorInv, Typed
  <2> QED
    BY <1>1, <2>1 DEF CursorInv, ChunkPlaced, ChunkStored, Busy
<1>3. PICK n \in Nat : n >= s /\ ReachTo(raw, first, n)
  BY <1>2 DEF StoredInv
<1> DEFINE m == Larger(n, e)
<1>4. m \in Nat /\ m >= n /\ m >= e /\ (m = n \/ m = e)
  BY <1>2 DEF Larger
<1>5. /\ \A p \in Position : Chain[p].block \in Nat
      /\ raw \subseteq Position
  BY BlocksAreNumbers DEF CursorInv, Typed
<1>6. ASSUME NEW p \in Position, Known(p), Chain[p].block >= s, Chain[p].block < e
      PROVE  p \in raw
  BY <1>2, <1>5, <1>6
<1>7. e = cursor' + 1 /\ cursor' # None
  BY <1>1, <1>2 DEF None
<1> HIDE DEF m, e, s
<1>8. ASSUME NEW p \in raw PROVE Chain[p].block < m
  BY <1>3, <1>4, <1>5 DEF ReachTo
<1>9. ASSUME NEW p \in Position, Known(p), Chain[p].block >= first, Chain[p].block < m
      PROVE  p \in raw
  <2>1. CASE Chain[p].block < n
    BY <1>3, <1>9, <2>1 DEF ReachTo
  <2>2. CASE ~(Chain[p].block < n)
    <3>1. Chain[p].block < e /\ Chain[p].block >= s
      BY <1>2, <1>3, <1>4, <1>5, <1>9, <2>2
    <3> QED
      BY <1>6, <1>9, <3>1
  <2> QED
    BY <2>1, <2>2
<1>10. ReachTo(raw', first', m)
  BY <1>1, <1>8, <1>9 DEF ReachTo
<1> QED
  BY <1>4, <1>7, <1>10 DEF StoredInv

LEMMA StoredStep ==
  ASSUME CursorInv, StoredInv, [Next]_vars
  PROVE  StoredInv'
<1>1. CASE UNCHANGED <<raw, first, cursor>>
  BY <1>1 DEF StoredInv, ReachTo
<1>2. CASE ~(UNCHANGED <<raw, first, cursor>>)
  <2>1. HeadRead \/ Store \/ Mark
    BY <1>2 DEF Next, Run, Boot, Poll, LogsArrive, StampsArrive, HeadFails, LogsFail,
                StampsFail, Grow, Crash, vars, databaseVars, historyVars
  <2> QED
    BY <2>1, StoredHeadStep, StoredStoreStep, StoredMarkStep
<1> QED
  BY <1>1, <1>2
-----------------------------------------------------------------------------
(* The sums of the logs                                                    *)

LEMMA PositionsFinite ==
  IsFiniteSet(Position) /\ \A rows \in SUBSET Position : IsFiniteSet(rows)
<1>1. Position = 1 .. Len(Chain) /\ Len(Chain) \in Nat
  BY PositionsFrom1
<1>2. IsFiniteSet(Position)
  BY <1>1, FS_Interval
<1> QED
  BY <1>2, FS_Subset

\* What a log says are numbers, and only those of known events say something.
LEMMA ColumnsTyped ==
  \A p \in Position : /\ Paid[p] \in Nat /\ Amount[p] \in Nat
                      /\ Revenue[p] \in Nat /\ Impressions[p] \in Nat
                      /\ Detail[p].name # "none" => Known(p)
<1> DEFINE Text == Event
<1>1. Detail \in Seq(Text) /\ DOMAIN Detail = Position
  BY MarketAssumption
<1>2. \A p \in Position : Detail[p].name # "none" => Chain[p].kind = "other"
  BY MarketAssumption
<1> HIDE DEF Text
<1>3. \A p \in Position : Detail[p] \in Text
  BY <1>1
<1> SUFFICES ASSUME NEW p \in Position
             PROVE  /\ Paid[p] \in Nat /\ Amount[p] \in Nat
                    /\ Revenue[p] \in Nat /\ Impressions[p] \in Nat
                    /\ Detail[p].name # "none" => Known(p)
  OBVIOUS
<1>4. /\ Detail[p].count \in Nat /\ Detail[p].toPublisher \in Nat
      /\ Detail[p].toUser \in Nat /\ Detail[p].fee \in Nat /\ Detail[p].amount \in Nat
  BY <1>3 DEF Text, Event
<1>5. Detail[p].name # "none" => Known(p)
  BY <1>2 DEF Known
<1> QED
  BY <1>4, <1>5 DEF Paid, Amount, Revenue, Impressions

\* The rows of a block, and two kinds of rows that add up to the same in each.
InBlock(rows, n) == {p \in rows : Chain[p].block = n}

EqualInBlocks(f, R, g, S) ==
  \A n \in {Chain[p].block : p \in Position} :
    SumOn(f, InBlock(R, n)) = SumOn(g, InBlock(S, n))

LEMMA SameByBlock ==
  ASSUME NEW f, NEW g, NEW R \in SUBSET Position, NEW S \in SUBSET Position,
         \A p \in Position : f[p] \in Nat /\ g[p] \in Nat,
         EqualInBlocks(f, R, g, S)
  PROVE  SumOn(f, R) = SumOn(g, S)
<1> DEFINE K == {Chain[p].block : p \in Position}
           key == [p \in Position |-> Chain[p].block]
           part == [n \in K |-> SumOn(f, InBlock(R, n))]
<1>1. IsFiniteSet(K)
  <2>1. key \in Surjection(Position, K)
    BY DEF Surjection
  <2> HIDE DEF key, K
  <2> QED
    BY <2>1, PositionsFinite, FS_Surjection
<1>2. IsFiniteSet(R) /\ IsFiniteSet(S)
  BY PositionsFinite
<1>3. \A n : /\ Keyed(R, key, {n}) = InBlock(R, n)
             /\ Keyed(S, key, {n}) = InBlock(S, n)
  BY DEF Keyed, InBlock
<1>4. Keyed(R, key, K) = R /\ Keyed(S, key, K) = S
  BY DEF Keyed
<1>5. \A n \in K : /\ part[n] = SumOn(f, InBlock(R, n))
                   /\ part[n] = SumOn(g, InBlock(S, n))
  BY DEF EqualInBlocks
<1>6. (\A p \in R : f[p] \in Nat) /\ (\A p \in S : g[p] \in Nat)
  OBVIOUS
<1> HIDE DEF K, key, part
<1>7. Grouped(part, f, R, key, K) /\ Grouped(part, g, S, key, K)
  BY <1>3, <1>5 DEF Grouped
<1>8. SumOn(part, K) = SumOn(f, Keyed(R, key, K))
  BY <1>1, <1>2, <1>6, <1>7, SumByKey
<1>9. SumOn(part, K) = SumOn(g, Keyed(S, key, K))
  BY <1>1, <1>2, <1>6, <1>7, SumByKey
<1> QED
  BY <1>4, <1>8, <1>9

\* The credits match the settlements: a settlement's block is stored whole.
LEMMA CreditsMatch ==
  ASSUME raw \subseteq Position, WholeBlocks
  PROVE  Total(Paid, Rows("ClaimSettled")) = Total(Amount, Rows("SettlementCredited"))
<1> DEFINE R == Rows("ClaimSettled")
           S == Rows("SettlementCredited")
<1>1. R \in SUBSET Position /\ S \in SUBSET Position
  BY DEF Rows
<1>2. \A p \in Position : Paid[p] \in Nat /\ Amount[p] \in Nat
  BY ColumnsTyped
<1>3. ASSUME NEW n \in {Chain[p].block : p \in Position}
      PROVE  SumOn(Paid, InBlock(R, n)) = SumOn(Amount, InBlock(S, n))
  <2>1. CASE \E p \in raw : Chain[p].block = n
    <3>1. \A q \in Position : Detail[q].name # "none" /\ Chain[q].block = n => q \in raw
      BY <2>1, ColumnsTyped DEF WholeBlocks
    <3>2. /\ InBlock(R, n) = {p \in Named("ClaimSettled") : Chain[p].block = n}
          /\ InBlock(S, n) = {p \in Named("SettlementCredited") : Chain[p].block = n}
      BY <3>1 DEF Rows, Named, InBlock
    <3>3. Total(Paid, {p \in Named("ClaimSettled") : Chain[p].block = n})
            = Total(Amount, {p \in Named("SettlementCredited") : Chain[p].block = n})
      BY MarketAssumption
    <3> QED
      BY <3>2, <3>3 DEF Total, SumOn
  <2>2. CASE ~(\E p \in raw : Chain[p].block = n)
    <3>1. InBlock(R, n) = {} /\ InBlock(S, n) = {}
      BY <2>2 DEF Rows, InBlock
    <3> QED
      BY <3>1, SumOfNothing
  <2> QED
    BY <2>1, <2>2
<1>4. EqualInBlocks(Paid, R, Amount, S)
  BY <1>3 DEF EqualInBlocks
<1> HIDE DEF R, S
<1>5. SumOn(Paid, R) = SumOn(Amount, S)
  BY <1>1, <1>2, <1>4, SameByBlock
<1> QED
  BY <1>5 DEF Total, SumOn, R, S

\* What is stored, of credits that were all in reach, covers what left.
LEMMA WithdrawalsCovered ==
  ASSUME CursorInv, StoredInv,
         \A p \in Named("SettlementCredited") : InScope(p)
  PROVE  SumOn(Amount, raw \cap Outgoing) <= SumOn(Amount, Rows("SettlementCredited"))
<1>1. raw \in SUBSET Position /\ \A p \in Position : Amount[p] \in Nat
  BY ColumnsTyped DEF CursorInv, Typed
<1>2. CASE raw = {}
  <2>1. raw \cap Outgoing = {} /\ Rows("SettlementCredited") = {}
    BY <1>2 DEF Rows
  <2> QED
    BY <2>1, SumOfNothing
<1>3. CASE raw # {}
  <2>1. first # None
    BY <1>3 DEF CursorInv, StartPlaced
  <2>2. PICK n \in Nat : ReachTo(raw, first, n)
    BY <2>1 DEF StoredInv
  <2> DEFINE N == Before(n)
             Out == {q \in Outgoing : q <= N}
             In == {q \in Named("SettlementCredited") : q <= N}
  <2>3. N \in 0 .. Len(Chain) /\ \A p \in Position : Chain[p].block < n <=> p <= N
    BY BeforeNumbers, BeforeCounts
  <2>4. N \in Position
    <3>1. PICK p \in raw : TRUE
      BY <1>3
    <3>2. p <= N /\ p \in Nat /\ p >= 1 /\ Position = 1 .. Len(Chain)
      BY <1>1, <2>2, <2>3, <3>1, PositionsFrom1 DEF ReachTo
    <3> HIDE DEF N
    <3> QED
      BY <2>3, <3>2
  <2>5. raw \cap Outgoing \in SUBSET Out
    BY <1>1, <2>2, <2>3 DEF ReachTo
  <2>6. Rows("SettlementCredited") = In
    <3>1. \A p \in Named("SettlementCredited") :
            p \in Position /\ Known(p) /\ Chain[p].block >= first
      BY ColumnsTyped DEF Named, InScope
    <3>2. \A p \in Named("SettlementCredited") : p \in raw <=> p <= N
      BY <1>1, <2>2, <2>3, <3>1 DEF ReachTo
    <3>3. Rows("SettlementCredited") = {p \in Named("SettlementCredited") : p \in raw}
      BY <1>1 DEF Rows, Named
    <3> HIDE DEF N
    <3> QED
      BY <3>2, <3>3
  <2>7. Total(Amount, Out) <= Total(Amount, In)
    BY <2>4, MarketAssumption
  <2>8. Out \in SUBSET Position /\ In \in SUBSET Position
    BY DEF Outgoing, Named
  <2> HIDE DEF Out, In
  <2>9. /\ IsFiniteSet(Out) /\ \A p \in Out : Amount[p] \in Nat
        /\ IsFiniteSet(In) /\ \A p \in In : Amount[p] \in Nat
    BY <1>1, <2>8, PositionsFinite
  <2>10. SumOn(Amount, raw \cap Outgoing) <= SumOn(Amount, Out)
    BY <2>5, <2>9, SumOfMore
  <2>11. /\ SumOn(Amount, Out) \in Nat /\ SumOn(Amount, In) \in Nat
         /\ SumOn(Amount, raw \cap Outgoing) \in Nat
    BY <2>5, <2>9, SumNat, SumsNat
  <2>12. SumOn(Amount, Out) <= SumOn(Amount, In)
    BY <2>7 DEF Total, SumOn
  <2> QED
    BY <2>6, <2>10, <2>11, <2>12
<1> QED
  BY <1>2, <1>3

LEMMA Conserves ==
  ASSUME CursorInv, WholeBlocks, StoredInv
  PROVE  ValueConserved
<1>1. Total(Paid, Rows("ClaimSettled")) = Total(Amount, Rows("SettlementCredited"))
  BY CreditsMatch DEF CursorInv, Typed
<1>2. CreditsInReach =>
        Total(Amount, raw \cap Outgoing) <= Total(Amount, Rows("SettlementCredited"))
  BY WithdrawalsCovered DEF CreditsInReach, Total, SumOn
<1> QED
  BY <1>1, <1>2 DEF ValueConserved

\* No value appears or vanishes in the indexer, on any chain whose contracts
\* credit each settlement in its own transaction and pay out no more than was
\* credited, wherever the sweep started, whatever failed and whenever it died.
THEOREM ValueIsConserved == Spec => []ValueConserved
<1> DEFINE Inv == CursorInv /\ WholeBlocks /\ StoredInv
<1>1. Init => Inv
  <2>1. Init => WholeBlocks /\ StoredInv
    BY DEF Init, WholeBlocks, StoredInv
  <2> QED
    BY <2>1, CursorInit
<1>2. Inv /\ [Next]_vars => Inv'
  BY CursorStep, BlocksStayWhole, StoredStep
<1>3. Inv => ValueConserved
  BY Conserves
<1> HIDE DEF Inv
<1> QED
  BY <1>1, <1>2, <1>3, PTL DEF Spec
-----------------------------------------------------------------------------
(* A campaign has a row when its creation is stored                        *)

RowsRecorded ==
  \A c \in Campaign : campaigns[c] # NoRow <=> \E p \in raw : Creates(p, c)

\* Storing logs adds the rows of those created in them, and removes none.
LEMMA FoldRows ==
  ASSUME NEW logs \in Seq(Position), NEW table \in Table, NEW c \in Campaign
  PROVE  FoldLeft(StoreCampaign, table, logs)[c] # NoRow
           <=> table[c] # NoRow \/ \E i \in 1 .. Len(logs) : Creates(logs[i], c)
<1> DEFINE n == Len(logs)
           HasRow(t, i) == t[c] # NoRow
                             <=> table[c] # NoRow \/ \E j \in 1 .. i : Creates(logs[j], c)
<1>1. PICK w \in [0 .. n -> Table] :
        /\ w[0] = table
        /\ \A i \in 1 .. n : w[i] = StoreCampaign(w[i - 1], logs[i])
        /\ FoldLeft(StoreCampaign, table, logs) = w[n]
  BY StoringFolds
<1>2. n \in Nat /\ \A i \in 1 .. n : logs[i] \in Position
  OBVIOUS
<1> HIDE DEF n
<1>3. ASSUME NEW i \in 1 .. n, HasRow(w[i - 1], i - 1) PROVE HasRow(w[i], i)
  <2>1. i - 1 \in 0 .. n
    BY <1>2
  <2>2. w[i - 1] \in Table /\ w[i] = StoreCampaign(w[i - 1], logs[i]) /\ logs[i] \in Position
    BY <1>1, <1>2, <2>1
  <2>3. w[i][c] = RowAfter(w[i - 1], logs[i], c) /\ Chain[logs[i]].block \in Nat
    <3>1. PICK t \in Table, p \in Position : t = w[i - 1] /\ p = logs[i]
      BY <2>2
    <3>2. StoreCampaign(t, p)[c] = RowAfter(t, p, c)
      BY StoreCampaignRows
    <3>3. Chain[p].block \in Nat
      BY BlocksAreNumbers
    <3> QED
      BY <2>2, <3>1, <3>2, <3>3
  <2>4. w[i][c] # NoRow <=> w[i - 1][c] # NoRow \/ Creates(logs[i], c)
    BY <2>3 DEF RowAfter, NoRow, NotActivated
  <2>5. \A j : j \in 1 .. i <=> j \in 1 .. i - 1 \/ j = i
    BY <1>2
  <2> QED
    BY <1>3, <2>4, <2>5
<1>4. HasRow(w[0], 0)
  BY <1>1
<1> DEFINE Bad == {i \in 1 .. n : ~HasRow(w[i], i)}
<1> HIDE DEF HasRow
<1>5. Bad = {}
  <2> SUFFICES ASSUME Bad # {} PROVE FALSE
    OBVIOUS
  <2>1. PICK x \in Bad : \A y \in Bad : x <= y
    <3>1. Bad \in SUBSET (1 .. n)
      OBVIOUS
    <3> HIDE DEF Bad
    <3> QED
      BY <1>2, <3>1, LeastIn
  <2>2. x \in 1 .. n /\ ~HasRow(w[x], x)
    BY <2>1
  <2>3. x - 1 \notin Bad
    <3>1. ~(x <= x - 1)
      BY <1>2, <2>2
    <3> HIDE DEF Bad
    <3> QED
      BY <2>1, <3>1
  <2>4. x - 1 = 0 \/ x - 1 \in 1 .. n
    BY <1>2, <2>2
  <2>5. HasRow(w[x - 1], x - 1)
    BY <1>4, <2>3, <2>4
  <2> QED
    BY <1>3, <2>2, <2>5
<1>6. HasRow(w[n], n)
  BY <1>2, <1>4, <1>5
<1> QED
  BY <1>1, <1>6 DEF HasRow, n

\* The two tables are written in one transaction.
LEMMA RowsStep ==
  ASSUME TableTyped, RowsRecorded, [Next]_vars
  PROVE  RowsRecorded'
<1>1. CASE UNCHANGED <<raw, campaigns>>
  BY <1>1 DEF RowsRecorded
<1>2. CASE Store
  <2>1. /\ raw' = raw \cup {p \in Holds(got) : Known(p)} /\ pc = "store"
    BY <1>2 DEF Store
  <2>2. ReadInv /\ CursorInv /\ campaigns \in Table
    BY DEF TableTyped, ReadInv, OtherTypes
  <2>3. chunk.start \in Nat /\ chunk.end \in Nat /\ chunk.start <= chunk.end + 1
    BY <2>1, <2>2, ChunkIsRead
  <2> DEFINE a == Before(chunk.start)
             b == Before(chunk.end + 1)
             logs == Stretch(a, b)
  <2>4. campaigns' = FoldLeft(StoreCampaign, campaigns, logs)
    BY <1>2, <2>2, <2>3, StoreTyped, LogsInStretch
  <2>5. logs \in Seq(Position)
    BY <2>3, LogsInStretch
  <2>6. a \in Nat /\ b \in Nat /\ a <= b
        /\ \A p \in Position : /\ Chain[p].block < chunk.start <=> p <= a
                               /\ Chain[p].block < chunk.end + 1 <=> p <= b
    BY <2>3, BeforeNumbers, BeforeGrows
  <2>7. \A p \in Position : p \in Holds(got) <=> p > a /\ p <= b
    <3>1. \A p \in Position : Chain[p].block \in Nat /\ p \in Nat
      BY BlocksAreNumbers, PositionsFrom1
    <3>2. \A p \in Position :
            p \in Holds(got) <=> Chain[p].block \in chunk.start .. chunk.end
      BY <2>1, <2>2, ChunkHeld
    <3>3. \A p \in Position : p \in Holds(got) <=>
             ~(Chain[p].block < chunk.start) /\ Chain[p].block < chunk.end + 1
      BY <2>3, <3>1, <3>2
    <3> HIDE DEF a, b
    <3> QED
      BY <2>6, <3>1, <3>3
  <2> HIDE DEF a, b
  <2>8. /\ Len(logs) \in Nat /\ \A i \in 1 .. Len(logs) : logs[i] \in Position
        /\ \A i \in 1 .. Len(logs) : logs[i] > a /\ logs[i] <= b
        /\ \A p \in Position : p > a /\ p <= b => \E i \in 1 .. Len(logs) : logs[i] = p
    <3>1. logs = [i \in 1 .. b - a |-> a + i]
      BY DEF Stretch
    <3> DEFINE k == b - a
    <3>2. k \in Nat /\ \A i \in 1 .. k : i \in Nat /\ i >= 1 /\ i <= k
      BY <2>6
    <3> HIDE DEF logs
    <3>3. DOMAIN logs = 1 .. k /\ \A i \in 1 .. k : logs[i] = a + i
      BY <3>1
    <3> HIDE DEF k
    <3>4. /\ Len(logs) = k /\ \A i \in 1 .. k : logs[i] \in Position
      BY <2>5, <3>2, <3>3
    <3>5. ASSUME NEW p \in Position, p > a, p <= b
          PROVE  \E i \in 1 .. Len(logs) : logs[i] = p
      <4>1. p - a \in 1 .. k /\ a + (p - a) = p
        BY <2>6, <3>5, PositionsFrom1 DEF k
      <4> QED
        BY <3>3, <3>4, <4>1
    <3>6. \A i \in 1 .. k : logs[i] > a /\ logs[i] <= b
      BY <2>6, <3>2, <3>3 DEF k
    <3> QED
      BY <3>2, <3>4, <3>5, <3>6
  <2>9. ASSUME NEW c \in Campaign
        PROVE  campaigns'[c] # NoRow <=> \E p \in raw' : Creates(p, c)
    <3>1. campaigns'[c] # NoRow
            <=> campaigns[c] # NoRow \/ \E i \in 1 .. Len(logs) : Creates(logs[i], c)
      <4> HIDE DEF logs
      <4> QED
        BY <2>2, <2>4, <2>5, FoldRows
    <3>2. \A p : Creates(p, c) => Known(p)
      BY DEF Creates, Known
    <3>3. (\E i \in 1 .. Len(logs) : Creates(logs[i], c))
            <=> \E p \in Holds(got) : Known(p) /\ Creates(p, c)
      <4>1. \A p \in Holds(got) : p \in Position
        BY DEF Holds
      <4> HIDE DEF logs
      <4> QED
        BY <2>7, <2>8, <3>2, <4>1
    <3>4. campaigns[c] # NoRow <=> \E p \in raw : Creates(p, c)
      BY DEF RowsRecorded
    <3> QED
      BY <2>1, <3>1, <3>3, <3>4
  <2> QED
    BY <2>9 DEF RowsRecorded
<1> QED
  BY <1>1, <1>2 DEF Next, Run, Boot, Poll, HeadRead, LogsArrive, StampsArrive, Mark,
       HeadFails, LogsFail, StampsFail, Grow, Crash, vars, databaseVars

-----------------------------------------------------------------------------
(* The daily figures                                                       *)

\* The users of some days, a user of two days once, are no more than those of
\* each day together.
LEMMA UsersSubadditive ==
  ASSUME NEW S \in SUBSET Position
  PROVE  LET users == [A \in SUBSET S |-> Cardinality(Users(A))]
         IN  Subadditive(users, S) /\ \A A \in SUBSET S : IsFiniteSet(Users(A))
<1> DEFINE users == [A \in SUBSET S |-> Cardinality(Users(A))]
           user == [p \in Position |-> Detail[p].user]
<1>1. \A A \in SUBSET S : IsFiniteSet(Users(A))
  <2>1. TAKE A \in SUBSET S
  <2>2. Users(A) = {user[p] : p \in A}
    BY DEF Users
  <2>3. IsFiniteSet(A)
    BY PositionsFinite
  <2> HIDE DEF user
  <2> QED
    BY <2>2, <2>3, ImageFinite
<1>2. ASSUME NEW A \in SUBSET S PROVE users[A] \in Nat
  BY <1>1, FS_CardinalityType
<1>3. ASSUME NEW A \in SUBSET S, NEW B \in SUBSET S
      PROVE  users[A \cup B] <= users[A] + users[B]
  <2> DEFINE U == Users(A)
             V == Users(B)
  <2>1. users[A \cup B] = Cardinality(U \cup V)
    BY DEF Users
  <2>2. users[A] = Cardinality(U) /\ users[B] = Cardinality(V)
    OBVIOUS
  <2>3. IsFiniteSet(U) /\ IsFiniteSet(V)
    BY <1>1
  <2> HIDE DEF U, V, users
  <2> QED
    BY <2>1, <2>2, <2>3, UnionNoLarger
<1> QED
  BY <1>1, <1>2, <1>3 DEF Subadditive

\* What the daily figures are computed of.
DailyFound ==
  /\ found.dailySettlements \in SUBSET Position
  /\ found.dailyPublishers \in SUBSET Position
  /\ found.dailyClicks \in SUBSET Position
  /\ IsFiniteSet(found.dailyCampaigns)

\* There are finitely many days, and everything found is on one of them.
LEMMA DaysFinite ==
  ASSUME DailyFound
  PROVE  /\ IsFiniteSet(Days(found))
         /\ \A p \in found.dailySettlements \cup found.dailyPublishers
                       \cup found.dailyClicks : DayOf(p) \in Days(found)
         /\ \A c \in found.dailyCampaigns : Day(CreatedIn(c)) \in Days(found)
<1> DEFINE S == found.dailySettlements \cup found.dailyPublishers \cup found.dailyClicks
           C == found.dailyCampaigns
           dayOf == [p \in S |-> DayOf(p)]
           created == [c \in C |-> Day(CreatedIn(c))]
           D == {dayOf[p] : p \in S}
           E == {created[c] : c \in C}
<1>1. Days(found) = D \cup E
  BY DEF Days
<1>2. IsFiniteSet(S) /\ IsFiniteSet(C)
  <2>1. S \in SUBSET Position
    BY DEF DailyFound
  <2> HIDE DEF S
  <2> QED
    BY <2>1, PositionsFinite DEF DailyFound
<1>3. IsFiniteSet(D) /\ IsFiniteSet(E)
  <2> HIDE DEF dayOf, created, S, C
  <2> QED
    BY <1>2, ImageFinite
<1>4. /\ \A p \in S : DayOf(p) \in Days(found)
      /\ \A c \in C : Day(CreatedIn(c)) \in Days(found)
  BY <1>1
<1>5. IsFiniteSet(Days(found))
  <2> HIDE DEF D, E
  <2> QED
    BY <1>1, <1>3, FS_Union
<1> QED
  BY <1>4, <1>5

\* Summed up, or counted, day by day: nothing is missed, and nothing is twice.
LEMMA DailyTotal ==
  ASSUME DailyFound, NEW f, \A p \in Position : f[p] \in Nat,
         NEW S \in SUBSET Position, \A p \in S : DayOf(p) \in Days(found),
         NEW part, \A d \in Days(found) : part[d] = Total(f, {p \in S : DayOf(p) = d})
  PROVE  SumOn(part, Days(found)) = Total(f, S)
<1> DEFINE key == [p \in S |-> DayOf(p)]
           D == Days(found)
<1>1. /\ \A d : Keyed(S, key, {d}) = {p \in S : DayOf(p) = d}
      /\ Keyed(S, key, D) = S
  BY DEF Keyed
<1>2. IsFiniteSet(S) /\ IsFiniteSet(D) /\ \A p \in S : f[p] \in Nat
  BY PositionsFinite, DaysFinite
<1> HIDE DEF key, D
<1>3. Grouped(part, f, S, key, D)
  BY <1>1 DEF Grouped, Total, SumOn, D
<1>4. SumOn(part, D) = SumOn(f, Keyed(S, key, D))
  BY <1>2, <1>3, SumByKey
<1> QED
  BY <1>1, <1>4 DEF Total, SumOn, D

LEMMA DailyNumber ==
  ASSUME DailyFound, NEW S, IsFiniteSet(S),
         NEW day, \A x \in S : day[x] \in Days(found),
         NEW part, \A d \in Days(found) : part[d] = Cardinality(Keyed(S, day, {d}))
  PROVE  SumOn(part, Days(found)) = Cardinality(S)
<1>1. Keyed(S, day, Days(found)) = S
  BY DEF Keyed
<1>2. SumOn(part, Days(found)) = Cardinality(Keyed(S, day, Days(found)))
  BY DaysFinite, CountByKey
<1> QED
  BY <1>1, <1>2

\* A column of the daily figures is a function of the days.
LEMMA ColumnOfDays ==
  ASSUME NEW field
  PROVE  LET part == [d \in Days(found) |-> TimeSeries(found)[d][field]]
         IN  Column(TimeSeries(found), field) = SumOn(part, Days(found))
<1>1. DOMAIN TimeSeries(found) = Days(found)
  BY DEF TimeSeries
<1> QED
  BY <1>1 DEF Column, SumFunction, SumOn

\* The fields of a day.
LEMMA FieldsOfDay ==
  ASSUME NEW d \in Days(found)
  PROVE  LET settle == {p \in found.dailySettlements : DayOf(p) = d}
             row == TimeSeries(found)[d]
         IN  /\ row["settled"] = Total(Paid, settle)
             /\ row["impressions"] = Total(Impressions, settle)
             /\ row["dau"] = Cardinality(Users(settle))
             /\ row["clicks"] = Cardinality({p \in found.dailyClicks : DayOf(p) = d})
             /\ row["newPublishers"]
                  = Cardinality({p \in found.dailyPublishers : DayOf(p) = d})
             /\ row["newCampaigns"]
                  = Cardinality({c \in found.dailyCampaigns : Day(CreatedIn(c)) = d})
  BY DEF TimeSeries

\* The active users of the days are at least the users of all of them.
LEMMA DailyUsers ==
  ASSUME DailyFound
  PROVE  /\ Column(TimeSeries(found), "dau") \in Nat
         /\ Column(TimeSeries(found), "dau") >= Cardinality(Users(found.dailySettlements))
<1> DEFINE S == found.dailySettlements
           D == Days(found)
           users == [A \in SUBSET S |-> Cardinality(Users(A))]
           key == [p \in S |-> DayOf(p)]
           part == [d \in D |-> TimeSeries(found)[d]["dau"]]
<1>1. S \in SUBSET Position /\ IsFiniteSet(D) /\ \A p \in S : DayOf(p) \in D
  BY DaysFinite DEF DailyFound
<1>2. \A d \in D : part[d] = Cardinality(Users({p \in S : DayOf(p) = d}))
  BY FieldsOfDay
<1>3. \A d \in D : /\ Keyed(S, key, {d}) = {p \in S : DayOf(p) = d}
                   /\ Keyed(S, key, {d}) \in SUBSET S
  BY DEF Keyed
<1>4. Keyed(S, key, D) = S
  BY <1>1 DEF Keyed
<1>5. Sized(part, users, S, key, D)
  BY <1>2, <1>3 DEF Sized
<1>6. Subadditive(users, S) /\ \A A \in SUBSET S : IsFiniteSet(Users(A))
  BY <1>1, UsersSubadditive
<1>7. users[S] = Cardinality(Users(S))
  OBVIOUS
<1>8. Column(TimeSeries(found), "dau") = SumOn(part, D)
  BY ColumnOfDays
<1> HIDE DEF users, key, part, S, D
<1>9. SumOn(part, D) \in Nat
  <2>1. \A d \in D : part[d] \in Nat
    BY <1>3, <1>5, <1>6 DEF Sized, Subadditive
  <2> QED
    BY <1>1, <2>1, SumNat
<1>10. Cardinality(Users(S)) <= SumOn(part, D)
  <2>1. CASE D = {}
    <3>1. Users(S) = {}
      BY <1>1, <2>1 DEF Users
    <3>2. Cardinality(Users(S)) = 0
      BY <3>1, FS_EmptySet
    <3> QED
      BY <1>9, <3>2
  <2>2. CASE D # {}
    <3>1. users[Keyed(S, key, D)] <= SumOn(part, D)
      BY <1>1, <1>5, <1>6, <2>2, SumCovers
    <3> QED
      BY <1>4, <1>7, <3>1
  <2> QED
    BY <2>1, <2>2
<1>11. Cardinality(Users(S)) \in Nat
  <2>1. IsFiniteSet(Users(S))
    BY <1>6
  <2> QED
    BY <2>1, FS_CardinalityType
<1> QED
  BY <1>8, <1>9, <1>10, <1>11 DEF S

\* The columns of the daily figures are the totals of what was found.
LEMMA DailyColumns ==
  ASSUME DailyFound
  PROVE  /\ Column(TimeSeries(found), "settled") = Total(Paid, found.dailySettlements)
         /\ Column(TimeSeries(found), "impressions")
              = Total(Impressions, found.dailySettlements)
         /\ Column(TimeSeries(found), "clicks") = Cardinality(found.dailyClicks)
         /\ Column(TimeSeries(found), "newPublishers") = Cardinality(found.dailyPublishers)
         /\ Column(TimeSeries(found), "newCampaigns") = Cardinality(found.dailyCampaigns)
<1> DEFINE column(field) == [d \in Days(found) |-> TimeSeries(found)[d][field]]
           settle == found.dailySettlements
           pubs == found.dailyPublishers
           clicks == found.dailyClicks
           camps == found.dailyCampaigns
           dayOf == [p \in Position |-> DayOf(p)]
           created == [c \in camps |-> Day(CreatedIn(c))]
<1>1. /\ \A p \in Position : Paid[p] \in Nat /\ Impressions[p] \in Nat
      /\ settle \in SUBSET Position /\ pubs \in SUBSET Position /\ clicks \in SUBSET Position
      /\ IsFiniteSet(pubs) /\ IsFiniteSet(clicks) /\ IsFiniteSet(camps)
  BY ColumnsTyped, PositionsFinite DEF DailyFound
<1>2. /\ \A p \in settle : DayOf(p) \in Days(found)
      /\ \A p \in pubs : dayOf[p] \in Days(found)
      /\ \A p \in clicks : dayOf[p] \in Days(found)
      /\ \A c \in camps : created[c] \in Days(found)
  BY <1>1, DaysFinite
<1>3. /\ \A d : Keyed(pubs, dayOf, {d}) = {p \in pubs : DayOf(p) = d}
      /\ \A d : Keyed(clicks, dayOf, {d}) = {p \in clicks : DayOf(p) = d}
      /\ \A d : Keyed(camps, created, {d}) = {c \in camps : Day(CreatedIn(c)) = d}
  BY <1>1 DEF Keyed
<1>4. \A field : Column(TimeSeries(found), field) = SumOn(column(field), Days(found))
  BY ColumnOfDays
<1>5. \A d \in Days(found) :
        /\ column("settled")[d] = Total(Paid, {p \in settle : DayOf(p) = d})
        /\ column("impressions")[d] = Total(Impressions, {p \in settle : DayOf(p) = d})
        /\ column("clicks")[d] = Cardinality(Keyed(clicks, dayOf, {d}))
        /\ column("newPublishers")[d] = Cardinality(Keyed(pubs, dayOf, {d}))
        /\ column("newCampaigns")[d] = Cardinality(Keyed(camps, created, {d}))
  BY <1>3, FieldsOfDay
<1> HIDE DEF column, settle, pubs, clicks, camps, dayOf, created
<1>6. /\ SumOn(column("settled"), Days(found)) = Total(Paid, settle)
      /\ SumOn(column("impressions"), Days(found)) = Total(Impressions, settle)
  BY <1>1, <1>2, <1>5, DailyTotal
<1>7. SumOn(column("clicks"), Days(found)) = Cardinality(clicks)
  <2> DEFINE part == column("clicks")
  <2>1. \A d \in Days(found) : part[d] = Cardinality(Keyed(clicks, dayOf, {d}))
    BY <1>5
  <2> HIDE DEF part
  <2>2. SumOn(part, Days(found)) = Cardinality(clicks)
    BY <1>1, <1>2, <2>1, DailyNumber
  <2> QED
    BY <2>2 DEF part
<1>8. SumOn(column("newPublishers"), Days(found)) = Cardinality(pubs)
  <2> DEFINE part == column("newPublishers")
  <2>1. \A d \in Days(found) : part[d] = Cardinality(Keyed(pubs, dayOf, {d}))
    BY <1>5
  <2> HIDE DEF part
  <2>2. SumOn(part, Days(found)) = Cardinality(pubs)
    BY <1>1, <1>2, <2>1, DailyNumber
  <2> QED
    BY <2>2 DEF part
<1>9. SumOn(column("newCampaigns"), Days(found)) = Cardinality(camps)
  <2> DEFINE part == column("newCampaigns")
  <2>1. \A d \in Days(found) : part[d] = Cardinality(Keyed(camps, created, {d}))
    BY <1>5
  <2> HIDE DEF part
  <2>2. SumOn(part, Days(found)) = Cardinality(camps)
    BY <1>1, <1>2, <2>1, DailyNumber
  <2> QED
    BY <2>2 DEF part
<1> QED
  BY <1>4, <1>6, <1>7, <1>8, <1>9 DEF settle, pubs, clicks, camps
-----------------------------------------------------------------------------
(* The histogram, the rankings and the epochs                              *)

\* The counts of the buckets make up the settlements.
LEMMA HistogramAddsUp ==
  ASSUME NEW settle \in SUBSET Position
  PROVE  SumFunction(CpmHistogram(settle)) = Cardinality(settle)
<1> DEFINE bucket == [p \in Position |-> BucketAt(Detail[p].rate)]
           Buckets == {bucket[p] : p \in settle}
<1>1. settle \in SUBSET Position
  OBVIOUS
<1>2. IsFiniteSet(settle)
  BY <1>1, PositionsFinite
<1>3. Buckets = {BucketAt(Detail[p].rate) : p \in settle}
  BY <1>1
<1>4. CpmHistogram(settle)
        = [b \in Buckets |-> Cardinality({p \in settle : BucketAt(Detail[p].rate) = b})]
  BY <1>3 DEF CpmHistogram
<1>5. \A b \in Buckets :
        Keyed(settle, bucket, {b}) = {p \in settle : BucketAt(Detail[p].rate) = b}
  BY <1>1 DEF Keyed
<1>6. Keyed(settle, bucket, Buckets) = settle
  BY DEF Keyed
<1>7. DOMAIN CpmHistogram(settle) = Buckets
  BY <1>4
<1>8. \A b \in Buckets : CpmHistogram(settle)[b] = Cardinality(Keyed(settle, bucket, {b}))
  BY <1>4, <1>5
<1>9. IsFiniteSet(Buckets)
  <2> HIDE DEF bucket
  <2> QED
    BY <1>2, ImageFinite
<1> HIDE DEF bucket, Buckets
<1>10. SumOn(CpmHistogram(settle), Buckets) = Cardinality(Keyed(settle, bucket, Buckets))
  BY <1>2, <1>8, <1>9, CountByKey
<1> QED
  BY <1>6, <1>7, <1>10 DEF SumFunction, SumOn

\* The order of a ranking, on entries whose DOT and first settlement are numbers.
LEMMA AheadIsOrder ==
  ASSUME NEW entries,
         \A e \in entries : e.planck \in Nat /\ e.since \in Nat
  PROVE  StrictOrder(entries, {ef \in entries \X entries : Ahead(ef[1], ef[2])})
<1> DEFINE R == {ef \in entries \X entries : Ahead(ef[1], ef[2])}
<1>1. \A e \in entries : MilliDot(e.planck) \in Int
  <2>1. PLANCK \in Nat \ {0}
    BY MarketAssumption
  <2> SUFFICES ASSUME NEW e \in entries PROVE MilliDot(e.planck) \in Int
    OBVIOUS
  <2>2. e.planck * 1000 \in Nat
    OBVIOUS
  <2> QED
    BY <2>1, <2>2 DEF MilliDot
<1>2. \A e, f \in entries : <<e, f>> \in R <=> Ahead(e, f)
  OBVIOUS
<1> HIDE DEF R
<1>3. \A e \in entries : <<e, e>> \notin R
  BY <1>1, <1>2 DEF Ahead
<1>4. \A e, f, g \in entries : <<e, f>> \in R /\ <<f, g>> \in R => <<e, g>> \in R
  BY <1>1, <1>2 DEF Ahead
<1> QED
  BY <1>3, <1>4 DEF StrictOrder, R

\* A ranking with fewer than TOP entries shows all.
LEMMA ShowsAll ==
  ASSUME NEW entries, IsFiniteSet(entries),
         \A e \in entries : e.planck \in Nat /\ e.since \in Nat,
         Cardinality(Leading(entries)) < TOP
  PROVE  Leading(entries) = entries
<1> DEFINE R == {ef \in entries \X entries : Ahead(ef[1], ef[2])}
<1>1. \A e, f \in entries : <<e, f>> \in R <=> Ahead(e, f)
  OBVIOUS
<1>2. StrictOrder(entries, R)
  BY AheadIsOrder
<1>3. TOP \in Nat
  BY MarketAssumption
<1> HIDE DEF R
<1>4. \A e \in entries : {f \in entries : <<f, e>> \in R} = {f \in entries : Ahead(f, e)}
  BY <1>1
<1>5. Leading(entries) = FirstFew(entries, R, TOP)
  BY <1>4 DEF Leading, FirstFew
<1> QED
  BY <1>2, <1>3, <1>5, FewAreAll

\* The first of some rows.
LEMMA FirstIsRow ==
  ASSUME NEW rows \in SUBSET Position, rows # {}
  PROVE  First(rows) \in rows /\ First(rows) \in Nat
<1>1. rows \in SUBSET (1 .. Len(Chain)) /\ Len(Chain) \in Nat
  BY PositionsFrom1
<1>2. \E p \in rows : \A q \in rows : p <= q
  BY <1>1, LeastIn
<1>3. First(rows) \in rows
  BY <1>2 DEF First
<1>4. \A p \in rows : p \in Nat
  BY <1>1
<1> QED
  BY <1>3, <1>4

\* Entries, one for each value of a key of the settlements, with what the
\* settlements with that value sum up to.
EntriesOf(entries, entry, key, f, settle) ==
  /\ entries = {entry[key[p]] : p \in settle}
  /\ \A p, q \in settle : entry[key[p]] = entry[key[q]] => key[p] = key[q]
  /\ \A p \in settle : /\ entry[key[p]].planck = SumOn(f, Keyed(settle, key, {key[p]}))
                      /\ entry[key[p]].since = First(Keyed(settle, key, {key[p]}))

\* A ranking that shows everyone adds up.
LEMMA RankingSums ==
  ASSUME NEW settle \in SUBSET Position, NEW f, \A p \in Position : f[p] \in Nat,
         NEW entries, NEW entry, NEW key, EntriesOf(entries, entry, key, f, settle),
         NEW shown, shown = Leading(entries), Cardinality(shown) < TOP
  PROVE  SumFunction([e \in shown |-> e.planck]) = SumOn(f, settle)
<1> DEFINE of == [p \in settle |-> entry[key[p]]]
           part == [e \in entries |-> e.planck]
<1>1. IsFiniteSet(settle) /\ \A p \in settle : f[p] \in Nat
  BY PositionsFinite
<1>2. entries = {of[p] : p \in settle}
  BY DEF EntriesOf
<1>3. IsFiniteSet(entries)
  <2> HIDE DEF of
  <2> QED
    BY <1>1, <1>2, ImageFinite
<1>4. \A p \in settle : Keyed(settle, of, {of[p]}) = Keyed(settle, key, {key[p]})
  <2>1. \A p, q \in settle : of[q] = of[p] <=> key[q] = key[p]
    BY DEF EntriesOf
  <2> HIDE DEF of
  <2> QED
    BY <2>1 DEF Keyed
<1>5. \A p \in settle : of[p].planck = SumOn(f, Keyed(settle, of, {of[p]}))
                        /\ of[p].since = First(Keyed(settle, of, {of[p]}))
  BY <1>4 DEF EntriesOf
<1>6. Keyed(settle, of, entries) = settle
  BY <1>2 DEF Keyed
<1> HIDE DEF of
<1>7. \A e \in entries : e.planck \in Nat /\ e.since \in Nat
  <2>1. \A T \in SUBSET settle : SumOn(f, T) \in Nat
    BY <1>1, SumsNat
  <2>2. ASSUME NEW p \in settle PROVE of[p].planck \in Nat /\ of[p].since \in Nat
    <3> DEFINE T == Keyed(settle, of, {of[p]})
    <3>1. T \in SUBSET settle /\ T \in SUBSET Position /\ p \in T
      BY DEF Keyed
    <3>2. of[p].planck = SumOn(f, T) /\ of[p].since = First(T)
      BY <1>5
    <3> HIDE DEF T
    <3> QED
      BY <2>1, <3>1, <3>2, FirstIsRow
  <2> QED
    BY <1>2, <2>2
<1>8. shown = entries
  BY <1>3, <1>7, ShowsAll
<1>9. Grouped(part, f, settle, of, entries)
  <2>1. \A p \in settle : part[of[p]] = SumOn(f, Keyed(settle, of, {of[p]}))
    BY <1>2, <1>5
  <2> HIDE DEF part
  <2> QED
    BY <1>2, <2>1 DEF Grouped
<1>10. SumFunction([e \in shown |-> e.planck]) = SumOn(part, entries)
  BY <1>8 DEF SumFunction, SumOn
<1> HIDE DEF part
<1>11. SumOn(part, entries) = SumOn(f, Keyed(settle, of, entries))
  BY <1>1, <1>3, <1>9, SumByKey
<1> QED
  BY <1>6, <1>10, <1>11

\* The publishers' ranking.
LEMMA PublishersAddUp ==
  ASSUME NEW settle \in SUBSET Position, Cardinality(TopPublishers(settle)) < TOP
  PROVE  SumFunction([e \in TopPublishers(settle) |-> e.planck]) = Total(Revenue, settle)
<1> DEFINE key == [p \in Position |-> Detail[p].publisher]
           of(pub) == {p \in settle : Detail[p].publisher = pub}
           row(pub) == [publisher |-> pub, planck |-> Total(Revenue, of(pub)),
                        impressions |-> Total(Impressions, of(pub)),
                        since |-> First(of(pub))]
           entry == [pub \in Publishers(settle) |-> row(pub)]
           entries == {row(pub) : pub \in Publishers(settle)}
<1>1. settle \in SUBSET Position
  OBVIOUS
<1>2. TopPublishers(settle) = Leading(entries)
  BY DEF TopPublishers
<1>3. \A pub : Keyed(settle, key, {pub}) = of(pub)
  BY <1>1 DEF Keyed
<1>4. /\ \A p \in settle : key[p] \in Publishers(settle)
      /\ \A pub \in Publishers(settle) : \E p \in settle : key[p] = pub
  BY <1>1 DEF Publishers
<1>5. \A pub \in Publishers(settle) :
        /\ entry[pub] = row(pub) /\ entry[pub].publisher = pub
        /\ entry[pub].planck = SumOn(Revenue, of(pub)) /\ entry[pub].since = First(of(pub))
  BY DEF Total, SumOn
<1> HIDE DEF key, of, row, entry
<1>6. entries = {entry[key[p]] : p \in settle}
  BY <1>4, <1>5
<1> HIDE DEF entries
<1>7. EntriesOf(entries, entry, key, Revenue, settle)
  <2>1. \A p, q \in settle : entry[key[p]] = entry[key[q]] => key[p] = key[q]
    BY <1>4, <1>5
  <2>2. \A p \in settle : /\ entry[key[p]].planck = SumOn(Revenue, Keyed(settle, key, {key[p]}))
                         /\ entry[key[p]].since = First(Keyed(settle, key, {key[p]}))
    BY <1>3, <1>4, <1>5
  <2> QED
    BY <1>6, <2>1, <2>2 DEF EntriesOf
<1>8. \A p \in Position : Revenue[p] \in Nat
  BY ColumnsTyped
<1>9. SumFunction([e \in TopPublishers(settle) |-> e.planck]) = SumOn(Revenue, settle)
  BY <1>1, <1>2, <1>7, <1>8, RankingSums
<1> QED
  BY <1>9 DEF Total, SumOn

\* The campaigns' ranking.
LEMMA CampaignsAddUp ==
  ASSUME NEW settle \in SUBSET Position, NEW table,
         Cardinality(TopCampaigns(settle, table)) < TOP
  PROVE  SumFunction([e \in TopCampaigns(settle, table) |-> e.planck]) = Total(Paid, settle)
<1> DEFINE key == [p \in Position |-> Chain[p].campaign]
           of(c) == {p \in settle : Chain[p].campaign = c}
           row(c) == [campaign |-> c, planck |-> Total(Paid, of(c)),
                      impressions |-> Total(Impressions, of(c)), since |-> First(of(c)),
                      listed |-> table[c] # NoRow,
                      activated |-> table[c] \notin {NoRow, NotActivated}]
           entry == [c \in Campaigns(settle) |-> row(c)]
           entries == {row(c) : c \in Campaigns(settle)}
<1>1. settle \in SUBSET Position
  OBVIOUS
<1>2. TopCampaigns(settle, table) = Leading(entries)
  BY DEF TopCampaigns
<1>3. \A c : Keyed(settle, key, {c}) = of(c)
  BY <1>1 DEF Keyed
<1>4. /\ \A p \in settle : key[p] \in Campaigns(settle)
      /\ \A c \in Campaigns(settle) : \E p \in settle : key[p] = c
  BY <1>1 DEF Campaigns
<1>5. \A c \in Campaigns(settle) :
        /\ entry[c] = row(c) /\ entry[c].campaign = c
        /\ entry[c].planck = SumOn(Paid, of(c)) /\ entry[c].since = First(of(c))
  BY DEF Total, SumOn
<1> HIDE DEF key, of, row, entry
<1>6. entries = {entry[key[p]] : p \in settle}
  BY <1>4, <1>5
<1> HIDE DEF entries
<1>7. EntriesOf(entries, entry, key, Paid, settle)
  <2>1. \A p, q \in settle : entry[key[p]] = entry[key[q]] => key[p] = key[q]
    BY <1>4, <1>5
  <2>2. \A p \in settle : /\ entry[key[p]].planck = SumOn(Paid, Keyed(settle, key, {key[p]}))
                         /\ entry[key[p]].since = First(Keyed(settle, key, {key[p]}))
    BY <1>3, <1>4, <1>5
  <2> QED
    BY <1>6, <2>1, <2>2 DEF EntriesOf
<1>8. \A p \in Position : Paid[p] \in Nat
  BY ColumnsTyped
<1>9. SumFunction([e \in TopCampaigns(settle, table) |-> e.planck]) = SumOn(Paid, settle)
  BY <1>1, <1>2, <1>7, <1>8, RankingSums
<1> QED
  BY <1>9 DEF Total, SumOn

\* A campaign is created once.
LEMMA CreatedOnce ==
  ASSUME NEW c \in Campaign, NEW p \in Position, Creates(p, c)
  PROVE  CreatedIn(c) = Chain[p].block
<1> DEFINE q == CHOOSE q \in Position : Creates(q, c)
<1>1. q \in Position /\ Creates(q, c)
  OBVIOUS
<1>2. CreatedIn(c) = Chain[q].block
  BY DEF CreatedIn
<1> HIDE DEF q
<1>3. p = q
  BY <1>1, LogTyped
<1> QED
  BY <1>2, <1>3

\* A campaign settled for has its row, or was created before the sweep.
LEMMA UnlistedIsOlder ==
  ASSUME CursorInv, StoredInv, RowsRecorded,
         NEW c \in Campaigns(Rows("ClaimSettled")), campaigns[c] = NoRow
  PROVE  CreatedIn(c) \in Nat /\ CreatedIn(c) < first
<1>1. raw \subseteq Position
  BY DEF CursorInv, Typed
<1>2. PICK p \in Rows("ClaimSettled") : Chain[p].campaign = c
  BY DEF Campaigns
<1>3. p \in raw /\ p \in Position /\ p \in Named("ClaimSettled") /\ c \in Campaign
  BY <1>1, <1>2, LogTyped DEF Rows, Named
<1>4. PICK q \in 1 .. p : Creates(q, c)
  BY <1>2, <1>3, MarketAssumption
<1>5. q \in Position /\ q <= p /\ p \in Nat /\ q \in Nat
  BY <1>3, PositionsFrom1
<1>6. CreatedIn(c) = Chain[q].block
  BY <1>3, <1>4, <1>5, CreatedOnce
<1>7. q \notin raw
  BY <1>3, <1>4 DEF RowsRecorded
<1>8. first # None /\ first \in Nat
  BY <1>3 DEF CursorInv, StartPlaced, Typed
<1>9. PICK n \in Nat : ReachTo(raw, first, n)
  BY <1>8 DEF StoredInv
<1>10. /\ Chain[q].block <= Chain[p].block /\ Chain[p].block < n
       /\ Chain[q].block \in Nat /\ Chain[p].block \in Nat
  <2>1. Chain[q].block \in Nat /\ Chain[p].block \in Nat
    BY <1>3, <1>5, BlocksAreNumbers
  <2>2. q < p => Chain[q].block <= Chain[p].block
    BY <1>3, <1>5, IndexerAssumption
  <2>3. Chain[p].block < n
    BY <1>3, <1>9 DEF ReachTo
  <2>4. q < p \/ q = p
    BY <1>5
  <2> QED
    BY <2>1, <2>2, <2>3, <2>4
<1>11. Known(q)
  BY <1>4 DEF Creates, Known
<1>12. ~(Chain[q].block >= first)
  BY <1>5, <1>7, <1>9, <1>10, <1>11 DEF ReachTo
<1> QED
  BY <1>6, <1>8, <1>10, <1>12

\* What a ranking shows of a campaign's row is what was found of it.
LEMMA ShownCampaigns ==
  ASSUME NEW settle, NEW table, NEW e \in TopCampaigns(settle, table)
  PROVE  e.campaign \in Campaigns(settle) /\ e.listed = (table[e.campaign] # NoRow)
<1> DEFINE of(c) == {p \in settle : Chain[p].campaign = c}
           row(c) == [campaign |-> c, planck |-> Total(Paid, of(c)),
                      impressions |-> Total(Impressions, of(c)), since |-> First(of(c)),
                      listed |-> table[c] # NoRow,
                      activated |-> table[c] \notin {NoRow, NotActivated}]
<1>1. TopCampaigns(settle, table) = Leading({row(c) : c \in Campaigns(settle)})
  BY DEF TopCampaigns
<1> HIDE DEF row
<1>2. PICK c \in Campaigns(settle) : e = row(c)
  BY <1>1 DEF Leading
<1> QED
  BY <1>2 DEF row

\* Netting all at once needs no more rows than netting by parts.
LEMMA CollapsedSubadditive ==
  ASSUME NEW S \in SUBSET Position
  PROVE  LET rows == [A \in SUBSET S |-> Collapsed(A)]
         IN  Subadditive(rows, S)
<1> DEFINE rows == [A \in SUBSET S |-> Collapsed(A)]
           user == [p \in Position |-> Detail[p].user]
           pub == [p \in Position |-> Detail[p].publisher]
           camp == [p \in Position |-> Chain[p].campaign]
<1>1. ASSUME NEW A \in SUBSET S
      PROVE  /\ IsFiniteSet(Users(A)) /\ IsFiniteSet(Publishers(A))
             /\ IsFiniteSet(Campaigns(A))
             /\ Cardinality(Users(A)) \in Nat /\ Cardinality(Publishers(A)) \in Nat
             /\ Cardinality(Campaigns(A)) \in Nat
  <2>1. /\ Users(A) = {user[p] : p \in A} /\ Publishers(A) = {pub[p] : p \in A}
        /\ Campaigns(A) = {camp[p] : p \in A}
    BY DEF Users, Publishers, Campaigns
  <2>2. IsFiniteSet(A)
    BY PositionsFinite
  <2> HIDE DEF user, pub, camp
  <2>3. /\ IsFiniteSet(Users(A)) /\ IsFiniteSet(Publishers(A))
        /\ IsFiniteSet(Campaigns(A))
    BY <2>1, <2>2, ImageFinite
  <2> QED
    BY <2>3, FS_CardinalityType
<1>2. ASSUME NEW A \in SUBSET S PROVE rows[A] \in Nat
  <2>1. /\ Cardinality(Users(A)) \in Nat /\ Cardinality(Publishers(A)) \in Nat
        /\ Cardinality(Campaigns(A)) \in Nat
    BY <1>1
  <2> QED
    BY <2>1 DEF Collapsed
<1>3. ASSUME NEW A \in SUBSET S, NEW B \in SUBSET S
      PROVE  rows[A \cup B] <= rows[A] + rows[B]
  <2> DEFINE U == Users(A)
             V == Users(B)
             P == Publishers(A)
             Q == Publishers(B)
             C == Campaigns(A)
             D == Campaigns(B)
  <2>1. /\ Users(A \cup B) = U \cup V /\ Publishers(A \cup B) = P \cup Q
        /\ Campaigns(A \cup B) = C \cup D
    BY DEF Users, Publishers, Campaigns
  <2>2. rows[A \cup B]
          = Cardinality(U \cup V) + Cardinality(P \cup Q) + Cardinality(C \cup D) + 1
    BY <2>1 DEF Collapsed
  <2>3. /\ rows[A] = Cardinality(U) + Cardinality(P) + Cardinality(C) + 1
        /\ rows[B] = Cardinality(V) + Cardinality(Q) + Cardinality(D) + 1
    BY DEF Collapsed
  <2>4. /\ IsFiniteSet(U) /\ IsFiniteSet(V) /\ IsFiniteSet(P) /\ IsFiniteSet(Q)
        /\ IsFiniteSet(C) /\ IsFiniteSet(D)
    BY <1>1
  <2> HIDE DEF U, V, P, Q, C, D, rows
  <2>5. /\ Cardinality(U) \in Nat /\ Cardinality(V) \in Nat
        /\ Cardinality(U \cup V) \in Nat
        /\ Cardinality(U \cup V) <= Cardinality(U) + Cardinality(V)
    BY <2>4, UnionNoLarger
  <2>6. /\ Cardinality(P) \in Nat /\ Cardinality(Q) \in Nat
        /\ Cardinality(P \cup Q) \in Nat
        /\ Cardinality(P \cup Q) <= Cardinality(P) + Cardinality(Q)
    BY <2>4, UnionNoLarger
  <2>7. /\ Cardinality(C) \in Nat /\ Cardinality(D) \in Nat
        /\ Cardinality(C \cup D) \in Nat
        /\ Cardinality(C \cup D) <= Cardinality(C) + Cardinality(D)
    BY <2>4, UnionNoLarger
  <2> QED
    BY <2>2, <2>3, <2>5, <2>6, <2>7
<1> QED
  BY <1>2, <1>3 DEF Subadditive

\* The epochs.
LEMMA EpochsNetted ==
  ASSUME NEW n \in Nat \ {0}, found.settlements \in SUBSET Position
  PROVE  EpochsAddUp(Aggregation(found.settlements, n))
<1> DEFINE settle == found.settlements
           epoch == [p \in Position |-> Chain[p].block \div n]
           seen == {epoch[p] : p \in settle}
           rows == [A \in SUBSET settle |-> Collapsed(A)]
           answer == Aggregation(settle, n)
           in(e) == {p \in settle : Chain[p].block \div n = e}
           R == {gf \in seen \X seen : gf[1] > gf[2]}
           last == {f \in seen : Cardinality({g \in seen : g > f}) < SHOWN_EPOCHS}
           claims == [e \in last |-> answer.epochs[e]["claims"]]
           netted == [e \in seen |-> Collapsed(in(e))]
<1>1. settle \in SUBSET Position /\ IsFiniteSet(settle)
  <2>1. settle \in SUBSET Position
    OBVIOUS
  <2> QED
    BY <2>1, PositionsFinite
<1>2. seen = {Chain[p].block \div n : p \in settle}
  BY <1>1
<1>3. \A e : Keyed(settle, epoch, {e}) = in(e)
  BY <1>1 DEF Keyed
<1>4. Keyed(settle, epoch, seen) = settle
  BY DEF Keyed
<1>5. /\ answer.claims = Cardinality(settle)
      /\ DOMAIN answer.epochs = last
      /\ \A e \in last : answer.epochs[e]["claims"] = Cardinality(in(e))
      /\ answer.totalRows = SumFunction(netted)
  BY <1>2 DEF Aggregation
<1>6. \A f \in seen : f \in Int
  <2> SUFFICES ASSUME NEW p \in settle PROVE epoch[p] \in Int
    OBVIOUS
  <2>1. p \in Position /\ Chain[p].block \in Nat
    BY <1>1, BlocksAreNumbers
  <2>2. epoch[p] = Chain[p].block \div n
    BY <2>1
  <2> HIDE DEF epoch
  <2> QED
    BY <2>1, <2>2
<1>7. \A f, g \in seen : <<g, f>> \in R <=> g > f
  OBVIOUS
<1>8. \A A \in SUBSET settle : rows[A] = Collapsed(A)
  OBVIOUS
<1>9. \A e \in seen : netted[e] = Collapsed(in(e)) /\ in(e) \in SUBSET settle
  OBVIOUS
<1>10. \A e \in last : claims[e] = Cardinality(in(e))
  BY <1>5
<1>11. IsFiniteSet(seen)
  <2> HIDE DEF epoch, settle
  <2> QED
    BY <1>1, ImageFinite
<1>12. Cardinality(settle) > 0 => seen # {}
  <2>1. settle = {} => Cardinality(settle) = 0
    BY FS_EmptySet
  <2> QED
    BY <2>1
<1>13. last = FirstFew(seen, R, SHOWN_EPOCHS)
  <2>1. \A f \in seen : {g \in seen : <<g, f>> \in R} = {g \in seen : g > f}
    BY <1>7
  <2> HIDE DEF R, seen
  <2> QED
    BY <2>1 DEF FirstFew
<1>14. Column(answer.epochs, "claims") = SumFunction(claims)
  BY <1>5 DEF Column
<1>15. SumFunction(claims) = SumOn(claims, last) /\ SumFunction(netted) = SumOn(netted, seen)
  BY DEF SumFunction, SumOn
<1> HIDE DEF settle, epoch, seen, rows, answer, in, R, last, claims, netted
<1>16. ASSUME Cardinality(DOMAIN answer.epochs) < SHOWN_EPOCHS
       PROVE  Column(answer.epochs, "claims") = answer.claims
  <2>1. StrictOrder(seen, R)
    BY <1>6, <1>7 DEF StrictOrder
  <2>2. SHOWN_EPOCHS \in Nat
    BY MarketAssumption
  <2>3. Cardinality(FirstFew(seen, R, SHOWN_EPOCHS)) < SHOWN_EPOCHS
    BY <1>5, <1>13, <1>16
  <2>4. last = seen
    BY <1>11, <1>13, <2>1, <2>2, <2>3, FewAreAll
  <2>5. \A e \in seen : claims[e] = Cardinality(Keyed(settle, epoch, {e}))
    BY <1>3, <1>10, <2>4
  <2>6. SumOn(claims, seen) = Cardinality(Keyed(settle, epoch, seen))
    BY <1>1, <1>11, <2>5, CountByKey
  <2> QED
    BY <1>4, <1>5, <1>14, <1>15, <2>4, <2>6
<1>17. ASSUME answer.claims > 0
       PROVE  answer.totalRows >= Collapsed(settle)
  <2>1. seen # {}
    BY <1>5, <1>12, <1>17
  <2>2. Subadditive(rows, settle)
    BY <1>1, CollapsedSubadditive DEF rows
  <2>3. Sized(netted, rows, settle, epoch, seen)
    BY <1>3, <1>8, <1>9 DEF Sized
  <2>4. rows[Keyed(settle, epoch, seen)] <= SumOn(netted, seen)
    BY <1>11, <2>1, <2>2, <2>3, SumCovers
  <2>5. rows[settle] = Collapsed(settle)
    BY <1>8
  <2>6. rows[settle] \in Nat /\ SumOn(netted, seen) \in Nat
    <3>1. rows[settle] \in Nat
      BY <2>2 DEF Subadditive
    <3>2. \A e \in seen : netted[e] \in Nat
      BY <1>8, <1>9, <2>2 DEF Subadditive
    <3> QED
      BY <1>11, <3>1, <3>2, SumNat
  <2>7. rows[settle] <= SumOn(netted, seen)
    BY <1>4, <2>4
  <2>8. answer.totalRows = SumOn(netted, seen)
    BY <1>5, <1>15
  <2> QED
    BY <2>5, <2>6, <2>7, <2>8
<1> QED
  BY <1>16, <1>17 DEF EpochsAddUp, answer, settle
-----------------------------------------------------------------------------
(* The answers, beside an indexer that commits between their SELECTs       *)

\* What is known of the tables.
TablesInv == TableTyped /\ StampInv /\ WholeBlocks /\ StoredInv /\ RowsRecorded

LEMMA TablesStart == Init => TablesInv
<1>1. Init => StampInv
  BY DEF Init, StampInv, StampedUnlessNull
<1>2. Init => WholeBlocks /\ StoredInv /\ RowsRecorded
  BY DEF Init, WholeBlocks, StoredInv, RowsRecorded
<1> QED
  BY <1>1, <1>2, TableTypedInit DEF TablesInv

LEMMA TablesStep ==
  ASSUME TablesInv, [Next]_vars
  PROVE  TablesInv'
<1>1. TableTyped /\ StampInv /\ WholeBlocks /\ StoredInv /\ RowsRecorded /\ CursorInv
  BY DEF TablesInv, TableTyped, ReadInv
<1>2. TableTyped' /\ StampInv'
  BY <1>1, TableTypedStep, StampStep
<1>3. WholeBlocks' /\ StoredInv' /\ RowsRecorded'
  BY <1>1, BlocksStayWhole, StoredStep, RowsStep
<1> QED
  BY <1>2, <1>3 DEF TablesInv

LEMMA TablesGive ==
  ASSUME TablesInv
  PROVE  /\ CursorInv /\ WholeBlocks /\ StoredInv /\ RowsRecorded /\ StampedUnlessNull
         /\ raw \subseteq Position /\ first \in Nat \cup {None}
  BY DEF TablesInv, TableTyped, ReadInv, CursorInv, Typed, StampInv

\* Rows stay, null blocks stay null, and a sweep never starts at a lower block
\* than one before it.
LEMMA TablesGrow ==
  ASSUME TablesInv, [Next]_vars
  PROVE  /\ raw \subseteq raw' /\ nulls \subseteq nulls'
         /\ CampaignRows \subseteq CampaignRows'
         /\ first' \in Nat \cup {None} /\ first <= first'
<1>1. raw \subseteq raw'
  BY RawSteps
<1>2. nulls \subseteq nulls'
  BY DEF Next, Run, Boot, Poll, HeadRead, LogsArrive, StampsArrive, Store, Mark,
         HeadFails, LogsFail, StampsFail, Grow, Crash, vars, historyVars
<1>3. CampaignRows \subseteq CampaignRows'
  <2>1. RowsRecorded /\ RowsRecorded'
    BY TablesStep, TablesGive DEF TablesInv
  <2> QED
    BY <1>1, <2>1 DEF CampaignRows, RowsRecorded
<1>4. first' \in Nat \cup {None}
  <2>1. TablesInv'
    BY TablesStep
  <2> QED
    BY <2>1 DEF TablesInv, TableTyped, ReadInv, CursorInv, Typed
<1>5. first <= first'
  <2>1. CASE first' = first
    BY <2>1, TablesGive DEF None
  <2>2. CASE first' # first
    <3>1. HeadRead
      BY <2>2 DEF Next, Run, Boot, Poll, LogsArrive, StampsArrive, Store, Mark,
                  HeadFails, LogsFail, StampsFail, Grow, Crash, vars, historyVars
    <3>2. Typed /\ StartPlaced
      BY TablesGive DEF CursorInv
    <3> DEFINE from == IF tailing THEN TailFrom ELSE ResolveStart
    <3>3. from <= head /\ cursor = None /\ first' = from /\ from \in Nat /\ head \in Nat
      <4>1. /\ from \in Nat /\ head \in Nat
        BY <3>2, FromTyped DEF Typed
      <4>2. IF from > head THEN first' = first
            ELSE first' = IF cursor = None THEN from ELSE first
        BY <3>1 DEF HeadRead
      <4> HIDE DEF from
      <4> QED
        BY <2>2, <4>1, <4>2
    <3>4. from = ResolveStart
      BY <3>2, <3>3, FromTyped
    <3>5. first # None => first <= ResolveStart
      BY <3>2, <3>3 DEF StartPlaced, ResolveStart
    <3> HIDE DEF from
    <3> QED
      BY <3>2, <3>3, <3>4, <3>5 DEF Typed, None
  <2> QED
    BY <2>1, <2>2
<1> QED
  BY <1>1, <1>2, <1>3, <1>4, <1>5

\* The SELECTs of the request that have run.
Ran(s) == \E i \in 1 .. done : Selects[report][i] = s

ServerTyped ==
  /\ report \in DOMAIN Selects \cup {"none"}
  /\ done \in Nat
  /\ report = "none" => done = 0
  /\ report # "none" => done <= Len(Selects[report])
  /\ DOMAIN found = DOMAIN Selected
  /\ opened \subseteq raw

\* What was found is stored by now ...
FoundStored ==
  /\ found.settlements \subseteq Rows("ClaimSettled")
  /\ found.credits \subseteq Rows("SettlementCredited")
  /\ found.toPublishers \subseteq Rows("PublisherWithdrawal")
  /\ found.toUsers \subseteq Rows("UserWithdrawal")
  /\ found.toProtocol \subseteq Rows("ProtocolWithdrawal")
  /\ found.sweeps \subseteq Rows("SweptToFeeShare")
  /\ found.dailySettlements \subseteq Rows("ClaimSettled")
  /\ found.dailyClicks \subseteq Rows("ClickRecorded")
  /\ found.dailyPublishers \subseteq Rows("PublisherRegistered")
  /\ \A p, q \in found.dailyPublishers : Detail[p].publisher = Detail[q].publisher => p = q
  /\ found.dailyCampaigns \subseteq CampaignRows

\* ... and what was stored when the report was asked for was found.
OpenedFound ==
  /\ Ran("settlements") => Opened("ClaimSettled") \subseteq found.settlements
  /\ Ran("credits") => Opened("SettlementCredited") \subseteq found.credits
  /\ Ran("dailySettlements") =>
       Dated(Opened("ClaimSettled")) \subseteq found.dailySettlements
  /\ Ran("dailyClicks") => Dated(Opened("ClickRecorded")) \subseteq found.dailyClicks
  /\ Ran("dailyPublishers") => DatedPublishers \subseteq Publishers(found.dailyPublishers)
  /\ Ran("dailyCampaigns") => DatedCampaigns \subseteq found.dailyCampaigns

\* A later SELECT found at least what goes with what an earlier one found.
FoundFits ==
  /\ Ran("users") => Users(found.settlements) \subseteq found.users
  /\ Ran("credits") => Total(Paid, found.settlements) <= Total(Amount, found.credits)
  /\ Ran("campaignTable") =>
       \A c \in Campaigns(found.settlements) :
         found.campaignTable[c] # NoRow \/ (CreatedIn(c) \in Nat /\ CreatedIn(c) < first)

ServerInv == TablesInv /\ ServerTyped /\ FoundStored /\ OpenedFound /\ FoundFits

\* Nothing was found, and nothing ran, before the first SELECT.
LEMMA StartsEmpty ==
  ASSUME found = NothingFound, done = 0
  PROVE  DOMAIN found = DOMAIN Selected /\ FoundStored /\ OpenedFound /\ FoundFits
<1>1. \A s : ~Ran(s)
  BY DEF Ran
<1>2. \A s \in DOMAIN Selected : found[s] = {}
  BY DEF NothingFound
<1>3. DOMAIN found = DOMAIN Selected
  BY DEF NothingFound
<1>4. /\ found.settlements = {} /\ found.credits = {} /\ found.toPublishers = {}
      /\ found.toUsers = {} /\ found.toProtocol = {} /\ found.sweeps = {}
      /\ found.dailySettlements = {} /\ found.dailyClicks = {}
      /\ found.dailyPublishers = {} /\ found.dailyCampaigns = {}
  BY <1>2 DEF Selected
<1> QED
  BY <1>1, <1>3, <1>4 DEF FoundStored, OpenedFound, FoundFits

LEMMA ServerStarts == ServerInit => ServerInv
<1> SUFFICES ASSUME ServerInit PROVE ServerInv
  OBVIOUS
<1>1. TablesInv
  BY TablesStart DEF ServerInit
<1>2. found = NothingFound /\ done = 0 /\ report = "none" /\ opened = {}
  BY DEF ServerInit
<1> QED
  BY <1>1, <1>2, StartsEmpty DEF ServerInv, ServerTyped

\* The indexer goes on, between two SELECTs.
LEMMA IndexerStep ==
  ASSUME ServerInv, [Next]_vars, UNCHANGED serverVars
  PROVE  ServerInv'
<1>1. /\ TablesInv /\ ServerTyped /\ FoundStored /\ OpenedFound /\ FoundFits
      /\ report' = report /\ done' = done /\ found' = found /\ opened' = opened
  BY DEF ServerInv, serverVars
<1>2. /\ raw \subseteq raw' /\ nulls \subseteq nulls'
      /\ CampaignRows \subseteq CampaignRows'
      /\ first' \in Nat \cup {None} /\ first <= first' /\ first \in Nat \cup {None}
  BY <1>1, TablesGrow, TablesGive
<1>3. TablesInv'
  BY <1>1, TablesStep
<1>4. ServerTyped'
  BY <1>1, <1>2 DEF ServerTyped, Selected
<1>5. \A s : Ran(s)' <=> Ran(s)
  BY <1>1 DEF Ran
<1>6. \A name : Rows(name) \subseteq Rows(name)'
  BY <1>2 DEF Rows
<1>7. FoundStored'
  BY <1>1, <1>2, <1>6 DEF FoundStored
<1>8. OpenedFound'
  <2>1. \A name : Opened(name)' = Opened(name)
    BY <1>1 DEF Opened
  <2>2. \A name : Dated(Opened(name))' \subseteq Dated(Opened(name))
    BY <1>2, <2>1 DEF Dated
  <2>3. DatedPublishers' \subseteq DatedPublishers
    BY <1>2, <1>6, <2>1 DEF DatedPublishers, Publishers
  <2>4. DatedCampaigns' \subseteq DatedCampaigns
    BY <1>1, <1>2 DEF DatedCampaigns, CreatedIn
  <2> QED
    BY <1>1, <1>5, <2>1, <2>2, <2>3, <2>4 DEF OpenedFound
<1>9. FoundFits'
  <2>1. \A c : CreatedIn(c)' = CreatedIn(c)
    BY DEF CreatedIn
  <2>2. \A c : CreatedIn(c) \in Nat /\ CreatedIn(c) < first => CreatedIn(c) < first'
    BY <1>2 DEF None
  <2>3. Campaigns(found.settlements)' = Campaigns(found.settlements)
    BY <1>1 DEF Campaigns
  <2>4. /\ Users(found.settlements)' = Users(found.settlements)
        /\ Total(Paid, found.settlements)' = Total(Paid, found.settlements)
        /\ Total(Amount, found.credits)' = Total(Amount, found.credits)
    BY <1>1 DEF Users, Total, Paid, Amount
  <2> QED
    BY <1>1, <1>5, <2>1, <2>2, <2>3, <2>4 DEF FoundFits
<1> QED
  BY <1>3, <1>4, <1>7, <1>8, <1>9 DEF ServerInv

\* The tables do not change while the server reads them.
LEMMA TablesRead ==
  ASSUME TablesInv, UNCHANGED vars
  PROVE  /\ TablesInv'
         /\ raw' = raw /\ nulls' = nulls /\ first' = first /\ campaigns' = campaigns
<1>1. [Next]_vars
  OBVIOUS
<1>2. raw' = raw /\ nulls' = nulls /\ first' = first /\ campaigns' = campaigns
  BY DEF vars, databaseVars, historyVars
<1> QED
  BY <1>1, <1>2, TablesStep

\* A request comes.
LEMMA RequestStep ==
  ASSUME ServerInv, Request
  PROVE  ServerInv'
<1>1. /\ TablesInv' /\ raw' = raw
      /\ report' \in DOMAIN Selects /\ done' = 0 /\ found' = NothingFound /\ opened' = raw
  BY TablesRead DEF ServerInv, Request
<1>2. \A s : ~Ran(s)'
  BY <1>1 DEF Ran
<1>3. /\ \A s \in DOMAIN Selected : found'[s] = {}
      /\ DOMAIN found' = DOMAIN Selected /\ DOMAIN Selected' = DOMAIN Selected
  BY <1>1 DEF NothingFound, Selected
<1>4. /\ found'.settlements = {} /\ found'.credits = {} /\ found'.toPublishers = {}
      /\ found'.toUsers = {} /\ found'.toProtocol = {} /\ found'.sweeps = {}
      /\ found'.dailySettlements = {} /\ found'.dailyClicks = {}
      /\ found'.dailyPublishers = {} /\ found'.dailyCampaigns = {}
  BY <1>3 DEF Selected
<1>5. ServerTyped'
  <2>1. /\ DOMAIN Selects = DOMAIN Selects'
        /\ "none" \notin DOMAIN Selects /\ \A r \in DOMAIN Selects : Len(Selects[r]) >= 0
    BY DEF Selects
  <2> QED
    BY <1>1, <1>3, <2>1 DEF ServerTyped
<1>6. FoundStored' /\ OpenedFound' /\ FoundFits'
  BY <1>2, <1>4 DEF FoundStored, OpenedFound, FoundFits
<1> QED
  BY <1>1, <1>5, <1>6 DEF ServerInv

\* The SELECTs of a report are of those there are, and if the settlements are
\* among them they come first.
LEMMA SelectsKnown ==
  ASSUME NEW r \in DOMAIN Selects
  PROVE  /\ Len(Selects[r]) \in Nat \ {0}
         /\ \A i \in 1 .. Len(Selects[r]) :
              /\ Selects[r][i] \in DOMAIN Selected
              /\ Selects[r][i] = "settlements" => i = 1
<1>1. r \in {"summary", "timeseries", "cpmHistogram", "topPublishers", "topCampaigns",
             "conservation", "aggregation", "status"}
  BY DEF Selects
<1>2. CASE r = "summary"
  BY <1>2 DEF Selects, Selected
<1>3. CASE r = "timeseries"
  BY <1>3 DEF Selects, Selected
<1>4. CASE r = "cpmHistogram"
  BY <1>4 DEF Selects, Selected
<1>5. CASE r = "topCampaigns"
  BY <1>5 DEF Selects, Selected
<1>6. CASE r = "conservation"
  BY <1>6 DEF Selects, Selected
<1>7. CASE r = "status"
  BY <1>7 DEF Selects, Selected
<1>8. CASE r = "topPublishers"
  BY <1>8 DEF Selects, Selected
<1>9. CASE r = "aggregation"
  BY <1>9 DEF Selects, Selected
<1> QED
  BY <1>1, <1>2, <1>3, <1>4, <1>5, <1>6, <1>7, <1>8, <1>9

\* Credits cover the settlements stored before them.
LEMMA CreditsCover ==
  ASSUME TablesInv, NEW settle \in SUBSET Rows("ClaimSettled")
  PROVE  Total(Paid, settle) <= Total(Amount, Rows("SettlementCredited"))
<1> DEFINE S == Rows("ClaimSettled")
<1>1. S \in SUBSET Position
  BY TablesGive DEF Rows
<1>2. Total(Paid, S) = Total(Amount, Rows("SettlementCredited"))
  BY TablesGive, CreditsMatch
<1>3. settle \in SUBSET S
  OBVIOUS
<1> HIDE DEF S
<1>4. IsFiniteSet(S) /\ \A p \in S : Paid[p] \in Nat
  BY <1>1, PositionsFinite, ColumnsTyped
<1>5. SumOn(Paid, settle) <= SumOn(Paid, S)
  BY <1>3, <1>4, SumOfMore
<1> QED
  BY <1>2, <1>5 DEF Total, SumOn

\* The registration stored of a publisher is the earliest of those stored.
LEMMA PublishersKept ==
  ASSUME TablesInv
  PROVE  /\ \A p, q \in PublisherRows : Detail[p].publisher = Detail[q].publisher => p = q
         /\ Publishers(PublisherRows) = Publishers(Rows("PublisherRegistered"))
<1> DEFINE R == Rows("PublisherRegistered")
<1>1. R \in SUBSET (1 .. Len(Chain)) /\ Len(Chain) \in Nat
  BY TablesGive, PositionsFrom1 DEF Rows
<1>2. PublisherRows = {p \in R : \A q \in R :
                         Detail[q].publisher = Detail[p].publisher => p <= q}
  BY DEF PublisherRows
<1> HIDE DEF R
<1>3. \A p, q \in PublisherRows : Detail[p].publisher = Detail[q].publisher => p = q
  BY <1>1, <1>2
<1>4. ASSUME NEW p \in R
      PROVE  \E q \in PublisherRows : Detail[q].publisher = Detail[p].publisher
  <2> DEFINE T == {q \in R : Detail[q].publisher = Detail[p].publisher}
  <2>1. T \in SUBSET (1 .. Len(Chain)) /\ T # {}
    BY <1>1, <1>4
  <2>2. PICK q \in T : \A x \in T : q <= x
    <3> HIDE DEF T
    <3> QED
      BY <1>1, <2>1, LeastIn
  <2>3. q \in PublisherRows
    BY <1>2, <2>2
  <2> QED
    BY <2>2, <2>3
<1>5. Publishers(PublisherRows) = Publishers(R)
  BY <1>2, <1>4 DEF Publishers
<1> QED
  BY <1>3, <1>5 DEF R

\* What the daily SELECTs find of what was stored when they were asked for.
LEMMA DailySelects ==
  ASSUME TablesInv, opened \subseteq raw
  PROVE  /\ \A name : Dated(Opened(name)) \subseteq Stamped(Rows(name))
         /\ DatedPublishers \subseteq Publishers(Stamped(PublisherRows))
         /\ DatedCampaigns \subseteq {c \in CampaignRows : CreatedIn(c) \in stamps}
<1>1. /\ StampedUnlessNull /\ RowsRecorded /\ raw \subseteq Position
  BY TablesGive
<1>2. \A name : Dated(Opened(name)) \subseteq Stamped(Rows(name))
  BY <1>1 DEF Dated, Opened, Stamped, Rows, StampedUnlessNull
<1>3. ASSUME NEW pub \in DatedPublishers
      PROVE  pub \in Publishers(Stamped(PublisherRows))
  <2>1. pub \in Publishers(Rows("PublisherRegistered"))
    BY DEF DatedPublishers, Publishers, Opened, Rows
  <2>2. PICK p \in PublisherRows : Detail[p].publisher = pub
    BY <2>1, PublishersKept DEF Publishers
  <2>3. p \in Rows("PublisherRegistered") /\ p \in raw
    BY DEF PublisherRows, Rows
  <2>4. Chain[p].block \in stamps
    BY <1>1, <2>2, <2>3 DEF DatedPublishers, StampedUnlessNull
  <2> QED
    BY <2>2, <2>4 DEF Stamped, Publishers
<1>4. ASSUME NEW c \in DatedCampaigns
      PROVE  c \in CampaignRows /\ CreatedIn(c) \in stamps
  <2>1. c \in Campaign /\ CreatedIn(c) \notin nulls
    BY DEF DatedCampaigns
  <2>2. PICK p \in raw : Creates(p, c)
    BY DEF DatedCampaigns
  <2>3. CreatedIn(c) = Chain[p].block
    BY <1>1, <2>1, <2>2, CreatedOnce
  <2> QED
    BY <1>1, <2>1, <2>2, <2>3 DEF CampaignRows, RowsRecorded, StampedUnlessNull
<1> QED
  BY <1>2, <1>3, <1>4

\* The next SELECT runs.
LEMMA SelectStep ==
  ASSUME ServerInv, Select
  PROVE  ServerInv'
<1> DEFINE s == Selects[report][done + 1]
<1>1. /\ TablesInv /\ ServerTyped /\ FoundStored /\ OpenedFound /\ FoundFits
      /\ report \in DOMAIN Selects /\ done \in Nat /\ done < Len(Selects[report])
      /\ done' = done + 1 /\ report' = report /\ opened' = opened /\ opened \subseteq raw
      /\ found' = [found EXCEPT ![s] = Selected[s]]
  BY DEF ServerInv, Select, ServerTyped
<1>2. /\ TablesInv'
      /\ raw' = raw /\ nulls' = nulls /\ first' = first /\ campaigns' = campaigns
  BY TablesRead DEF ServerInv, Select
<1>3. /\ s \in DOMAIN Selected /\ (s = "settlements" => done = 0)
      /\ DOMAIN found = DOMAIN Selected /\ Len(Selects[report]) \in Nat
  <2>1. done + 1 \in 1 .. Len(Selects[report])
    BY <1>1, SelectsKnown
  <2>2. /\ s \in DOMAIN Selected /\ (s = "settlements" => done + 1 = 1)
    BY <1>1, <2>1, SelectsKnown
  <2> HIDE DEF s
  <2> QED
    BY <1>1, <2>2, SelectsKnown DEF ServerTyped
<1>4. \A x : Ran(x)' <=> Ran(x) \/ x = s
  <2>1. \A i : i \in 1 .. done' <=> i \in 1 .. done \/ i = done + 1
    BY <1>1
  <2> QED
    BY <1>1, <2>1 DEF Ran
<1>5. done = 0 => \A x : ~Ran(x)
  BY DEF Ran
<1> HIDE DEF s
<1>6. \A x \in DOMAIN Selected : found'[x] = IF x = s THEN Selected[x] ELSE found[x]
  BY <1>1, <1>3
<1>7. ServerTyped'
  <2>1. DOMAIN Selected' = DOMAIN Selected /\ DOMAIN found' = DOMAIN found
    BY <1>1 DEF Selected
  <2>2. report' # "none"
    BY <1>1 DEF Selects
  <2> QED
    BY <1>1, <1>2, <1>3, <2>1, <2>2 DEF ServerTyped
<1>8. /\ found'.settlements = IF s = "settlements" THEN Rows("ClaimSettled")
                              ELSE found.settlements
      /\ found'.credits = IF s = "credits" THEN Rows("SettlementCredited")
                          ELSE found.credits
      /\ found'.toPublishers = IF s = "toPublishers" THEN Rows("PublisherWithdrawal")
                               ELSE found.toPublishers
      /\ found'.toUsers = IF s = "toUsers" THEN Rows("UserWithdrawal") ELSE found.toUsers
      /\ found'.toProtocol = IF s = "toProtocol" THEN Rows("ProtocolWithdrawal")
                             ELSE found.toProtocol
      /\ found'.sweeps = IF s = "sweeps" THEN Rows("SweptToFeeShare") ELSE found.sweeps
  BY <1>6 DEF Selected
<1>9. /\ found'.dailySettlements
           = IF s = "dailySettlements" THEN Stamped(Rows("ClaimSettled"))
             ELSE found.dailySettlements
      /\ found'.dailyClicks = IF s = "dailyClicks" THEN Stamped(Rows("ClickRecorded"))
                              ELSE found.dailyClicks
      /\ found'.dailyPublishers = IF s = "dailyPublishers" THEN Stamped(PublisherRows)
                                  ELSE found.dailyPublishers
      /\ found'.dailyCampaigns
           = IF s = "dailyCampaigns" THEN {c \in CampaignRows : CreatedIn(c) \in stamps}
             ELSE found.dailyCampaigns
      /\ found'.users = IF s = "users" THEN Users(Rows("ClaimSettled")) ELSE found.users
      /\ found'.campaignTable = IF s = "campaignTable" THEN campaigns
                                ELSE found.campaignTable
  BY <1>6 DEF Selected
<1>10. /\ \A name : Rows(name)' = Rows(name) /\ Opened(name)' = Opened(name)
       /\ \A rows : Stamped(rows) \subseteq rows
       /\ CampaignRows' = CampaignRows
  BY <1>1, <1>2 DEF Rows, Opened, Stamped, CampaignRows
<1>11. FoundStored'
  <2>1. /\ found'.settlements \subseteq Rows("ClaimSettled")
        /\ found'.credits \subseteq Rows("SettlementCredited")
        /\ found'.toPublishers \subseteq Rows("PublisherWithdrawal")
        /\ found'.toUsers \subseteq Rows("UserWithdrawal")
        /\ found'.toProtocol \subseteq Rows("ProtocolWithdrawal")
        /\ found'.sweeps \subseteq Rows("SweptToFeeShare")
    BY <1>1, <1>8 DEF FoundStored
  <2>2. /\ found'.dailySettlements \subseteq Rows("ClaimSettled")
        /\ found'.dailyClicks \subseteq Rows("ClickRecorded")
        /\ found'.dailyCampaigns \subseteq CampaignRows
    BY <1>1, <1>9, <1>10 DEF FoundStored
  <2>3. /\ found'.dailyPublishers \subseteq Rows("PublisherRegistered")
        /\ \A p, q \in found'.dailyPublishers :
             Detail[p].publisher = Detail[q].publisher => p = q
    <3>1. /\ Stamped(PublisherRows) \subseteq PublisherRows
          /\ PublisherRows \subseteq Rows("PublisherRegistered")
      BY <1>10 DEF PublisherRows
    <3> QED
      BY <1>1, <1>9, <3>1, PublishersKept DEF FoundStored
  <2> QED
    BY <1>10, <2>1, <2>2, <2>3 DEF FoundStored
<1>12. OpenedFound'
  <2>1. /\ Dated(Opened("ClaimSettled"))' = Dated(Opened("ClaimSettled"))
        /\ Dated(Opened("ClickRecorded"))' = Dated(Opened("ClickRecorded"))
        /\ DatedPublishers' = DatedPublishers /\ DatedCampaigns' = DatedCampaigns
    BY <1>1, <1>2, <1>10 DEF Dated, DatedPublishers, DatedCampaigns, Publishers, CreatedIn
  <2>2. \A name : Opened(name) \subseteq Rows(name)
    BY <1>1 DEF Opened, Rows
  <2>3. /\ Ran("settlements")' => Opened("ClaimSettled") \subseteq found'.settlements
        /\ Ran("credits")' => Opened("SettlementCredited") \subseteq found'.credits
    BY <1>1, <1>4, <1>8, <2>2 DEF OpenedFound
  <2>4. /\ Ran("dailySettlements")' =>
             Dated(Opened("ClaimSettled")) \subseteq found'.dailySettlements
        /\ Ran("dailyClicks")' => Dated(Opened("ClickRecorded")) \subseteq found'.dailyClicks
        /\ Ran("dailyPublishers")' =>
             DatedPublishers \subseteq Publishers(found'.dailyPublishers)
        /\ Ran("dailyCampaigns")' => DatedCampaigns \subseteq found'.dailyCampaigns
    BY <1>1, <1>4, <1>9, DailySelects DEF OpenedFound
  <2> QED
    BY <1>10, <2>1, <2>3, <2>4 DEF OpenedFound, Publishers
<1>13. FoundFits'
  <2>1. Ran("users")' => Users(found'.settlements) \subseteq found'.users
    <3>1. CASE s = "settlements"
      BY <1>3, <1>4, <1>5, <3>1
    <3>2. CASE s = "users"
      BY <1>1, <1>8, <1>9, <3>2 DEF FoundStored, Users
    <3>3. CASE s \notin {"settlements", "users"}
      BY <1>1, <1>4, <1>8, <1>9, <3>3 DEF FoundFits
    <3> QED
      BY <3>1, <3>2, <3>3
  <2>2. Ran("credits")' => Total(Paid, found'.settlements) <= Total(Amount, found'.credits)
    <3>1. CASE s = "settlements"
      BY <1>3, <1>4, <1>5, <3>1
    <3>2. CASE s = "credits"
      BY <1>1, <1>8, <3>2, CreditsCover DEF FoundStored
    <3>3. CASE s \notin {"settlements", "credits"}
      BY <1>1, <1>4, <1>8, <3>3 DEF FoundFits
    <3> QED
      BY <3>1, <3>2, <3>3
  <2>3. ASSUME Ran("campaignTable")', NEW c \in Campaigns(found'.settlements)
        PROVE  found'.campaignTable[c] # NoRow
                 \/ (CreatedIn(c) \in Nat /\ CreatedIn(c) < first)
    <3>1. CASE s = "settlements"
      BY <1>3, <1>4, <1>5, <2>3, <3>1
    <3>2. CASE s = "campaignTable"
      <4>1. c \in Campaigns(Rows("ClaimSettled")) /\ found'.campaignTable = campaigns
        BY <1>1, <1>8, <1>9, <2>3, <3>2 DEF FoundStored, Campaigns
      <4> QED
        BY <1>1, <4>1, UnlistedIsOlder, TablesGive
    <3>3. CASE s \notin {"settlements", "campaignTable"}
      BY <1>1, <1>4, <1>8, <1>9, <2>3, <3>3 DEF FoundFits
    <3> QED
      BY <3>1, <3>2, <3>3
  <2>4. \A c : CreatedIn(c)' = CreatedIn(c)
    BY DEF CreatedIn
  <2> QED
    BY <1>2, <2>1, <2>2, <2>3, <2>4 DEF FoundFits, Users, Campaigns, Total, Paid, Amount
<1> QED
  BY <1>2, <1>7, <1>11, <1>12, <1>13 DEF ServerInv

\* At the answer every SELECT of the report has run.
LEMMA AllRan ==
  ASSUME ServerTyped, Answered
  PROVE  /\ report \in {"summary", "cpmHistogram", "topPublishers", "topCampaigns",
                        "conservation", "aggregation"} => Ran("settlements")
         /\ report = "summary" => Ran("users")
         /\ report = "timeseries" => /\ Ran("dailySettlements") /\ Ran("dailyCampaigns")
                                     /\ Ran("dailyPublishers") /\ Ran("dailyClicks")
         /\ report = "topCampaigns" => Ran("campaignTable")
         /\ report = "conservation" => Ran("credits")
<1>1. /\ report \in DOMAIN Selects /\ done = Len(Selects[report])
  BY DEF ServerTyped, Answered
<1>2. ASSUME NEW i \in 1 .. Len(Selects[report])
      PROVE  Ran(Selects[report][i])
  BY <1>1, <1>2 DEF Ran
<1>3. report \in {"summary", "cpmHistogram", "topPublishers", "topCampaigns",
                  "conservation", "aggregation"}
        => 1 \in 1 .. Len(Selects[report]) /\ Selects[report][1] = "settlements"
  <2>1. CASE report \in {"summary", "cpmHistogram", "topPublishers"}
    BY <2>1 DEF Selects
  <2>2. CASE report \in {"topCampaigns", "aggregation"}
    BY <2>2 DEF Selects
  <2>3. CASE report = "conservation"
    BY <2>3 DEF Selects
  <2> QED
    BY <2>1, <2>2, <2>3
<1>4. report = "summary" => 7 \in 1 .. Len(Selects[report]) /\ Selects[report][7] = "users"
  BY DEF Selects
<1>5. report = "timeseries" =>
        /\ {1, 2, 3, 4} \subseteq 1 .. Len(Selects[report])
        /\ Selects[report][1] = "dailySettlements" /\ Selects[report][2] = "dailyCampaigns"
        /\ Selects[report][3] = "dailyPublishers" /\ Selects[report][4] = "dailyClicks"
  BY DEF Selects
<1>6. report = "topCampaigns"
        => 2 \in 1 .. Len(Selects[report]) /\ Selects[report][2] = "campaignTable"
  BY DEF Selects
<1>7. report = "conservation"
        => 2 \in 1 .. Len(Selects[report]) /\ Selects[report][2] = "credits"
  BY DEF Selects
<1> QED
  BY <1>2, <1>3, <1>4, <1>5, <1>6, <1>7

\* A total, and a number, lies between those of less and of more.
LEMMA TotalBetween ==
  ASSUME NEW f, \A p \in Position : f[p] \in Nat,
         NEW all \in SUBSET Position, NEW rows, NEW some, rows \subseteq all, some \subseteq rows
  PROVE  Total(f, rows) \in Total(f, some) .. Total(f, all)
<1>1. /\ IsFiniteSet(all) /\ IsFiniteSet(rows)
      /\ (\A p \in all : f[p] \in Nat) /\ (\A p \in rows : f[p] \in Nat)
      /\ rows \in SUBSET all /\ some \in SUBSET rows /\ some \in SUBSET all /\ all \in SUBSET all
  BY PositionsFinite
<1>2. SumOn(f, some) <= SumOn(f, rows) /\ SumOn(f, rows) <= SumOn(f, all)
  BY <1>1, SumOfMore
<1>3. SumOn(f, some) \in Nat /\ SumOn(f, rows) \in Nat /\ SumOn(f, all) \in Nat
  BY <1>1, SumsNat
<1>4. SumOn(f, rows) \in SumOn(f, some) .. SumOn(f, all)
  BY <1>2, <1>3
<1> QED
  BY <1>4 DEF Total, SumOn

LEMMA SizeBetween ==
  ASSUME NEW all, IsFiniteSet(all), NEW rows, NEW some, rows \subseteq all, some \subseteq rows
  PROVE  Cardinality(rows) \in Cardinality(some) .. Cardinality(all)
<1>1. IsFiniteSet(rows) /\ IsFiniteSet(some)
      /\ Cardinality(rows) <= Cardinality(all)
  BY FS_Subset
<1>2. Cardinality(some) <= Cardinality(rows)
  BY <1>1, FS_Subset
<1>3. Cardinality(some) \in Nat /\ Cardinality(rows) \in Nat /\ Cardinality(all) \in Nat
  BY <1>1, FS_CardinalityType
<1> QED
  BY <1>1, <1>2, <1>3

\* The daily figures.
LEMMA DailyAnswer ==
  ASSUME ServerInv, Answered, report = "timeseries"
  PROVE  DailyAddsUp(TimeSeries(found))
<1> DEFINE settle == found.dailySettlements
           pubs == found.dailyPublishers
           clicks == found.dailyClicks
           camps == found.dailyCampaigns
           All == Rows("ClaimSettled")
           AllClicks == Rows("ClickRecorded")
           AllPubs == Publishers(Rows("PublisherRegistered"))
           Some == Dated(Opened("ClaimSettled"))
           SomeClicks == Dated(Opened("ClickRecorded"))
<1>1. /\ TablesInv /\ FoundStored /\ OpenedFound
      /\ Ran("dailySettlements") /\ Ran("dailyCampaigns")
      /\ Ran("dailyPublishers") /\ Ran("dailyClicks")
  BY AllRan DEF ServerInv
<1>2. /\ Some \subseteq settle /\ settle \subseteq All /\ All \in SUBSET Position
      /\ SomeClicks \subseteq clicks /\ clicks \subseteq AllClicks
      /\ AllClicks \in SUBSET Position
      /\ pubs \in SUBSET Position /\ Publishers(pubs) \subseteq AllPubs
      /\ DatedPublishers \subseteq Publishers(pubs)
      /\ DatedCampaigns \subseteq camps /\ camps \subseteq CampaignRows
  BY <1>1, TablesGive DEF FoundStored, OpenedFound, Rows, Publishers
<1>3. \A p, q \in pubs : Detail[p].publisher = Detail[q].publisher => p = q
  BY <1>1 DEF FoundStored
<1>4. IsFiniteSet(CampaignRows)
  <2> DEFINE of == [p \in Position |-> Chain[p].campaign]
  <2>1. IsFiniteSet({of[p] : p \in Position})
    <3> HIDE DEF of
    <3> QED
      BY PositionsFinite, ImageFinite
  <2>2. CampaignRows \in SUBSET {of[p] : p \in Position}
    BY <1>1, TablesGive DEF RowsRecorded, CampaignRows, Creates
  <2> HIDE DEF of
  <2> QED
    BY <2>1, <2>2, FS_Subset
<1>5. IsFiniteSet(AllPubs)
  <2> DEFINE pub == [p \in Position |-> Detail[p].publisher]
             R == Rows("PublisherRegistered")
  <2>1. IsFiniteSet(R) /\ AllPubs = {pub[p] : p \in R}
    BY <1>1, TablesGive, PositionsFinite DEF Rows, Publishers
  <2> HIDE DEF pub, R
  <2> QED
    BY <2>1, ImageFinite
<1>6. DailyFound
  <2>1. IsFiniteSet(camps)
    <3> HIDE DEF camps
    <3> QED
      BY <1>2, <1>4, FS_Subset
  <2> QED
    BY <1>2, <2>1 DEF DailyFound
<1>7. Cardinality(Publishers(pubs)) = Cardinality(pubs)
  <2> DEFINE f == [p \in pubs |-> Detail[p].publisher]
             T == Publishers(pubs)
  <2>1. f \in Bijection(pubs, T)
    BY <1>3 DEF Bijection, Injection, IsInjective, Surjection, Publishers
  <2>2. IsFiniteSet(pubs)
    BY <1>2, PositionsFinite
  <2> HIDE DEF f, pubs, T
  <2>3. Cardinality(T) = Cardinality(pubs)
    BY <2>1, <2>2, FS_Bijection DEF ExistsBijection
  <2> QED
    BY <2>3 DEF T
<1>8. \A p \in Position : Paid[p] \in Nat /\ Impressions[p] \in Nat
  BY ColumnsTyped
<1>9. /\ Column(TimeSeries(found), "settled") = Total(Paid, settle)
      /\ Column(TimeSeries(found), "impressions") = Total(Impressions, settle)
      /\ Column(TimeSeries(found), "clicks") = Cardinality(clicks)
      /\ Column(TimeSeries(found), "newPublishers") = Cardinality(pubs)
      /\ Column(TimeSeries(found), "newCampaigns") = Cardinality(camps)
      /\ Column(TimeSeries(found), "dau") \in Nat
      /\ Column(TimeSeries(found), "dau") >= Cardinality(Users(settle))
  BY <1>6, DailyColumns, DailyUsers
<1>10. /\ Total(Paid, settle) \in Total(Paid, Some) .. Total(Paid, All)
       /\ Total(Impressions, settle) \in Total(Impressions, Some) .. Total(Impressions, All)
  <2> HIDE DEF settle, Some, All
  <2> QED
    BY <1>2, <1>8, TotalBetween
<1>11. Cardinality(clicks) \in Cardinality(SomeClicks) .. Cardinality(AllClicks)
  <2>1. IsFiniteSet(AllClicks)
    BY <1>2, PositionsFinite
  <2> HIDE DEF clicks, SomeClicks, AllClicks
  <2> QED
    BY <1>2, <2>1, SizeBetween
<1>12. Cardinality(pubs) \in Cardinality(DatedPublishers) .. Cardinality(AllPubs)
  <2> DEFINE P == Publishers(pubs)
  <2>1. P \subseteq AllPubs /\ DatedPublishers \subseteq P /\ Cardinality(P) = Cardinality(pubs)
    BY <1>2, <1>7
  <2> HIDE DEF P, AllPubs
  <2>2. Cardinality(P) \in Cardinality(DatedPublishers) .. Cardinality(AllPubs)
    BY <1>5, <2>1, SizeBetween
  <2> QED
    BY <2>1, <2>2
<1>13. Cardinality(camps) \in Cardinality(DatedCampaigns) .. Cardinality(CampaignRows)
  <2> HIDE DEF camps
  <2> QED
    BY <1>2, <1>4, SizeBetween
<1>14. Cardinality(Users(settle)) \in Nat /\ Cardinality(Users(Some)) \in Nat
       /\ Cardinality(Users(Some)) <= Cardinality(Users(settle))
  <2> DEFINE U == Users(Some)
             V == Users(settle)
  <2>1. settle \in SUBSET Position /\ U \in SUBSET V
    BY <1>2 DEF Users
  <2>2. IsFiniteSet(V)
    <3>1. settle \in SUBSET settle
      OBVIOUS
    <3> HIDE DEF settle
    <3> QED
      BY <2>1, <3>1, UsersSubadditive DEF V
  <2> HIDE DEF U, V
  <2>3. Cardinality(U) <= Cardinality(V) /\ Cardinality(U) \in Nat /\ Cardinality(V) \in Nat
    BY <2>1, <2>2, FS_Subset, FS_CardinalityType
  <2> QED
    BY <2>3 DEF U, V
<1>15. Column(TimeSeries(found), "dau") >= Cardinality(Users(Some))
  BY <1>9, <1>14
<1> QED
  BY <1>9, <1>10, <1>11, <1>12, <1>13, <1>15 DEF DailyAddsUp

\* The rows of four events that left the vault are different ones.
LEMMA LeftOnce ==
  ASSUME ServerInv
  PROVE  Total(Amount, found.toPublishers) + Total(Amount, found.toUsers)
           + Total(Amount, found.toProtocol) + Total(Amount, found.sweeps)
             <= Total(Amount, raw \cap Outgoing)
<1> DEFINE S == raw \cap Outgoing
           A == found.toPublishers
           B == found.toUsers
           C == found.toProtocol
           D == found.sweeps
<1>1. raw \in SUBSET Position /\ FoundStored
  BY TablesGive DEF ServerInv
<1>2. /\ A \in SUBSET Rows("PublisherWithdrawal") /\ B \in SUBSET Rows("UserWithdrawal")
      /\ C \in SUBSET Rows("ProtocolWithdrawal") /\ D \in SUBSET Rows("SweptToFeeShare")
  BY <1>1 DEF FoundStored
<1>3. /\ A \in SUBSET S /\ B \in SUBSET (S \ A) /\ C \in SUBSET ((S \ A) \ B)
      /\ D \in SUBSET (((S \ A) \ B) \ C)
  BY <1>1, <1>2 DEF Rows, Outgoing, Named, Withdrawals
<1>4. IsFiniteSet(S) /\ \A p \in S : Amount[p] \in Nat
  BY <1>1, PositionsFinite, ColumnsTyped
<1> HIDE DEF S, A, B, C, D
<1> DEFINE S1 == S \ A
           S2 == S1 \ B
           S3 == S2 \ C
<1>5. /\ S1 \in SUBSET S /\ S2 \in SUBSET S /\ S3 \in SUBSET S /\ D \in SUBSET S3
      /\ A \in SUBSET S /\ B \in SUBSET S1 /\ C \in SUBSET S2
      /\ B \in SUBSET S /\ C \in SUBSET S /\ D \in SUBSET S
      /\ S1 = S \ A /\ S2 = S1 \ B /\ S3 = S2 \ C
  BY <1>3
<1> HIDE DEF S1, S2, S3
<1>6. IsFiniteSet(S1) /\ IsFiniteSet(S2) /\ IsFiniteSet(S3)
  BY <1>4, <1>5, FS_Subset
<1>7. /\ \A p \in S1 : Amount[p] \in Nat
      /\ \A p \in S2 : Amount[p] \in Nat
      /\ \A p \in S3 : Amount[p] \in Nat
  BY <1>4, <1>5
<1>8. SumOn(Amount, S) = SumOn(Amount, A) + SumOn(Amount, S1)
  BY <1>4, <1>5, SumOfParts
<1>9. SumOn(Amount, S1) = SumOn(Amount, B) + SumOn(Amount, S2)
  BY <1>5, <1>6, <1>7, SumOfParts
<1>10. SumOn(Amount, S2) = SumOn(Amount, C) + SumOn(Amount, S3)
  BY <1>5, <1>6, <1>7, SumOfParts
<1>11. SumOn(Amount, D) <= SumOn(Amount, S3)
  BY <1>5, <1>6, <1>7, SumOfMore
<1>12. \A T \in SUBSET S : SumOn(Amount, T) \in Nat
  BY <1>4, SumsNat
<1>13. SumOn(Amount, A) + SumOn(Amount, B) + SumOn(Amount, C) + SumOn(Amount, D)
         <= SumOn(Amount, S)
  <2>1. /\ SumOn(Amount, A) \in Nat /\ SumOn(Amount, B) \in Nat /\ SumOn(Amount, C) \in Nat
        /\ SumOn(Amount, D) \in Nat /\ SumOn(Amount, S1) \in Nat
        /\ SumOn(Amount, S2) \in Nat /\ SumOn(Amount, S3) \in Nat
    BY <1>5, <1>12
  <2> QED
    BY <1>8, <1>9, <1>10, <1>11, <2>1
<1> QED
  BY <1>13 DEF S, A, B, C, D, Total, SumOn

LEMMA FoundAmounts ==
  ASSUME TablesInv, FoundStored
  PROVE  /\ Total(Amount, found.toPublishers) + Total(Amount, found.toUsers)
              + Total(Amount, found.toProtocol) + Total(Amount, found.sweeps) \in Int
         /\ Total(Amount, raw \cap Outgoing) \in Int
         /\ Total(Amount, Rows("SettlementCredited")) \in Int
<1>1. raw \in SUBSET Position /\ IsFiniteSet(raw) /\ \A p \in raw : Amount[p] \in Nat
  BY TablesGive, PositionsFinite, ColumnsTyped
<1>2. /\ found.toPublishers \in SUBSET raw /\ found.toUsers \in SUBSET raw
      /\ found.toProtocol \in SUBSET raw /\ found.sweeps \in SUBSET raw
      /\ raw \cap Outgoing \in SUBSET raw /\ Rows("SettlementCredited") \in SUBSET raw
  BY DEF FoundStored, Rows
<1>3. \A T \in SUBSET raw : SumOn(Amount, T) \in Nat
  BY <1>1, SumsNat
<1>4. \A T \in SUBSET raw : Total(Amount, T) \in Nat
  BY <1>3 DEF Total, SumOn
<1> QED
  BY <1>2, <1>4

\* The conservation report.
LEMMA ConservationAnswer ==
  ASSUME ServerInv, Answered, report = "conservation"
  PROVE  ConservationBounded(Conservation(found))
<1> DEFINE settled == Total(Paid, found.settlements)
           credited == Total(Amount, found.credits)
           out == Total(Amount, found.toPublishers) + Total(Amount, found.toUsers)
                    + Total(Amount, found.toProtocol) + Total(Amount, found.sweeps)
           answer == Conservation(found)
           stored == Total(Amount, Rows("SettlementCredited"))
           left == Total(Amount, raw \cap Outgoing)
<1>1. /\ TablesInv /\ FoundStored /\ OpenedFound /\ FoundFits
      /\ Ran("settlements") /\ Ran("credits")
  BY AllRan DEF ServerInv
<1>2. /\ answer.settled = settled /\ answer.credited = credited /\ answer.withdrawn = out
      /\ answer.creditedMatchesSettled = (settled = credited)
      /\ answer.solvent = (out <= credited)
  BY DEF Conservation
<1>3. settled <= credited
  BY <1>1 DEF FoundFits
<1>4. CreditsInReach => out <= stored
  <2>1. out <= left
    BY LeftOnce
  <2>2. CreditsInReach => left <= stored
    BY <1>1, TablesGive, WithdrawalsCovered DEF CreditsInReach, Total, SumOn
  <2>3. out \in Int /\ left \in Int /\ stored \in Int
    BY <1>1, FoundAmounts
  <2> HIDE DEF out, left, stored
  <2> QED
    BY <2>1, <2>2, <2>3
<1>5. ASSUME raw = opened PROVE settled = credited /\ credited = stored
  <2>1. \A name : Opened(name) = Rows(name)
    BY <1>5 DEF Opened, Rows
  <2>2. /\ found.settlements = Rows("ClaimSettled")
        /\ found.credits = Rows("SettlementCredited")
    BY <1>1, <2>1 DEF FoundStored, OpenedFound
  <2> QED
    BY <1>1, <2>2, TablesGive, CreditsMatch
<1> HIDE DEF settled, credited, out, answer, stored
<1>6. /\ answer.settled <= answer.credited
      /\ CreditsInReach => answer.withdrawn <= stored
      /\ raw = opened => answer.creditedMatchesSettled /\ (CreditsInReach => answer.solvent)
  BY <1>2, <1>3, <1>4, <1>5
<1> QED
  BY <1>6 DEF ConservationBounded, answer, stored

LEMMA AnswerAddsUp ==
  ASSUME ServerInv
  PROVE  AnswersAddUp
<1> SUFFICES ASSUME Answered
             PROVE  AnswersAddUp
  BY DEF AnswersAddUp
<1>1. /\ TablesInv /\ ServerTyped /\ FoundStored /\ OpenedFound /\ FoundFits
  BY DEF ServerInv
<1>2. found.settlements \in SUBSET Position /\ \A n \in EpochLengths : n \in Nat \ {0}
  BY <1>1, TablesGive, MarketAssumption DEF FoundStored, Rows
<1>3. report \in {"summary", "cpmHistogram", "topPublishers", "topCampaigns",
                  "conservation", "aggregation"} =>
        found.settlements \in SUBSET Rows("ClaimSettled")
          /\ Opened("ClaimSettled") \subseteq found.settlements
  BY <1>1, AllRan DEF FoundStored, OpenedFound
<1>4. report = "summary" => Users(found.settlements) \subseteq found.users
  BY <1>1, AllRan DEF FoundFits
<1>5. report = "timeseries" => DailyAddsUp(TimeSeries(found))
  BY DailyAnswer
<1>6. SumFunction(CpmHistogram(found.settlements)) = Cardinality(found.settlements)
  BY <1>2, HistogramAddsUp
<1>7. RankingAddsUp(TopPublishers(found.settlements), Revenue)
  BY <1>2, PublishersAddUp DEF RankingAddsUp
<1>8. report = "topCampaigns" =>
        LET ranking == TopCampaigns(found.settlements, found.campaignTable)
        IN  RankingAddsUp(ranking, Paid) /\ CampaignsListed(ranking)
  <2> DEFINE ranking == TopCampaigns(found.settlements, found.campaignTable)
  <2>1. RankingAddsUp(ranking, Paid)
    BY <1>2, CampaignsAddUp DEF RankingAddsUp
  <2>2. ASSUME report = "topCampaigns", NEW e \in ranking
        PROVE  e.listed \/ CreatedIn(e.campaign) < first
    <3>1. /\ e.campaign \in Campaigns(found.settlements)
          /\ e.listed = (found.campaignTable[e.campaign] # NoRow)
      BY <2>2, ShownCampaigns
    <3> QED
      BY <1>1, <2>2, <3>1, AllRan DEF FoundFits
  <2> HIDE DEF ranking
  <2> QED
    BY <2>1, <2>2 DEF CampaignsListed, ranking
<1>9. report = "conservation" => ConservationBounded(Conservation(found))
  BY ConservationAnswer
<1>10. \A n \in EpochLengths : EpochsAddUp(Aggregation(found.settlements, n))
  BY <1>2, EpochsNetted
<1> QED
  BY <1>3, <1>4, <1>5, <1>6, <1>7, <1>8, <1>9, <1>10 DEF AnswersAddUp

\* Every answer of the metrics server accounts for every row that was stored when
\* it was asked for and counts none twice, and its parts fit, on any chain, with
\* any days, buckets, epochs and lengths of rankings, whatever the indexer commits
\* between two SELECTs of a report, whatever failed and whenever it died.
THEOREM AnswersAccount == ServerSpec => []AnswersAddUp
<1>1. ServerInv /\ [ServerNext]_<<vars, serverVars>> => ServerInv'
  <2> SUFFICES ASSUME ServerInv, [ServerNext]_<<vars, serverVars>> PROVE ServerInv'
    OBVIOUS
  <2>1. CASE [Next]_vars /\ UNCHANGED serverVars
    BY <2>1, IndexerStep
  <2>2. CASE Request
    BY <2>2, RequestStep
  <2>3. CASE Select
    BY <2>3, SelectStep
  <2> QED
    BY <2>1, <2>2, <2>3 DEF ServerNext
<1>2. ServerInv => AnswersAddUp
  BY AnswerAddsUp
<1> QED
  BY <1>1, <1>2, ServerStarts, PTL DEF ServerSpec
=============================================================================
