------------------------- MODULE CollectionProofs --------------------------
(***************************************************************************)
(* Lemmas on data, for the proofs about the components.  First sequences   *)
(* as queues: which elements stand in a sequence, how often and which      *)
(* before which, when it grows, is split, joined or filtered.  Then sums   *)
(* over finite sets and folds over sequences, by an induction that is      *)
(* stated with sets.                                                       *)
(***************************************************************************)
EXTENDS SequencePositions, SequencesExt, FiniteSetTheorems, SequenceTheorems,
        WellFoundedInduction, TLAPS

\* How often e stands in seq.
Count(seq, e) == Cardinality(Positions(seq, e))

-----------------------------------------------------------------------------
(* Which elements stand in a sequence                                      *)

\* A sequence over S holds elements of S.
LEMMA ToSetType ==
  ASSUME NEW S, NEW s \in Seq(S)
  PROVE  ToSet(s) \subseteq S
  BY DEF ToSet

\* The empty sequence holds nothing.
LEMMA ToSetEmpty == ToSet(<<>>) = {}
  BY DEF ToSet

\* Appending adds one element.
LEMMA ToSetAppend ==
  ASSUME NEW S, NEW s \in Seq(S), NEW e \in S
  PROVE  ToSet(Append(s, e)) = ToSet(s) \cup {e}
<1>1. /\ DOMAIN s = 1 .. Len(s) /\ Len(s) \in Nat
      /\ DOMAIN Append(s, e) = 1 .. Len(s) + 1
      /\ \A i \in 1 .. Len(s) : Append(s, e)[i] = s[i]
      /\ Append(s, e)[Len(s) + 1] = e
  OBVIOUS
<1>2. ToSet(Append(s, e)) \subseteq ToSet(s) \cup {e}
  BY <1>1 DEF ToSet
<1>3. ToSet(s) \cup {e} \subseteq ToSet(Append(s, e))
  BY <1>1 DEF ToSet
<1> QED
  BY <1>2, <1>3

\* Joining two sequences joins what they hold.
LEMMA ToSetConcat ==
  ASSUME NEW S, NEW s \in Seq(S), NEW t \in Seq(S)
  PROVE  ToSet(s \o t) = ToSet(s) \cup ToSet(t)
<1>1. /\ DOMAIN s = 1 .. Len(s) /\ Len(s) \in Nat
      /\ DOMAIN t = 1 .. Len(t) /\ Len(t) \in Nat
      /\ DOMAIN (s \o t) = 1 .. Len(s) + Len(t)
      /\ \A i \in 1 .. Len(s) : (s \o t)[i] = s[i]
      /\ \A i \in 1 .. Len(t) : (s \o t)[Len(s) + i] = t[i]
  OBVIOUS
<1>2. ASSUME NEW i \in DOMAIN (s \o t)
      PROVE  (s \o t)[i] \in ToSet(s) \cup ToSet(t)
  <2>1. CASE i <= Len(s)
    BY <1>1, <2>1 DEF ToSet
  <2>2. CASE i > Len(s)
    <3>1. i - Len(s) \in DOMAIN t /\ (s \o t)[i] = t[i - Len(s)]
      BY <1>1, <2>2
    <3> QED
      BY <3>1 DEF ToSet
  <2> QED
    BY <1>1, <2>1, <2>2
<1>3. ToSet(s) \subseteq ToSet(s \o t)
  BY <1>1 DEF ToSet
<1>4. ASSUME NEW i \in DOMAIN t PROVE t[i] \in ToSet(s \o t)
  <2>1. Len(s) + i \in DOMAIN (s \o t) /\ (s \o t)[Len(s) + i] = t[i]
    BY <1>1
  <2> QED
    BY <2>1 DEF ToSet
<1> QED
  BY <1>2, <1>3, <1>4 DEF ToSet

\* The first k elements and the others make up the sequence.
LEMMA SplitAt ==
  ASSUME NEW S, NEW s \in Seq(S), NEW k \in 0 .. Len(s)
  PROVE  /\ SubSeq(s, 1, k) \in Seq(S) /\ SubSeq(s, k + 1, Len(s)) \in Seq(S)
         /\ Len(SubSeq(s, 1, k)) = k /\ Len(SubSeq(s, k + 1, Len(s))) = Len(s) - k
         /\ SubSeq(s, 1, k) \o SubSeq(s, k + 1, Len(s)) = s
<1>1. /\ SubSeq(s, 1, k) \in Seq(S) /\ SubSeq(s, k + 1, Len(s)) \in Seq(S)
      /\ Len(SubSeq(s, 1, k)) = k /\ Len(SubSeq(s, k + 1, Len(s))) = Len(s) - k
  BY SubSeqProperties
<1>2. Len(s) \in Nat /\ 1 \in 1 .. Len(s) + 1 /\ k \in 1 - 1 .. Len(s)
      /\ Len(s) \in k .. Len(s)
  OBVIOUS
<1>3. SubSeq(s, 1, k) \o SubSeq(s, k + 1, Len(s)) = SubSeq(s, 1, Len(s))
  BY <1>2, ConcatAdjacentSubSeq, Zenon
<1> QED
  BY <1>1, <1>3, SubSeqFull

\* Splitting a sequence loses nothing.
LEMMA ToSetSplit ==
  ASSUME NEW S, NEW s \in Seq(S), NEW k \in 0 .. Len(s)
  PROVE  ToSet(s) = ToSet(SubSeq(s, 1, k)) \cup ToSet(SubSeq(s, k + 1, Len(s)))
<1>1. /\ SubSeq(s, 1, k) \in Seq(S) /\ SubSeq(s, k + 1, Len(s)) \in Seq(S)
      /\ SubSeq(s, 1, k) \o SubSeq(s, k + 1, Len(s)) = s
  BY SplitAt
<1> DEFINE t == SubSeq(s, 1, k)
           u == SubSeq(s, k + 1, Len(s))
<1>2. t \in Seq(S) /\ u \in Seq(S) /\ t \o u = s
  BY <1>1
<1> HIDE DEF t, u
<1>3. \A a, b \in Seq(S) : ToSet(a \o b) = ToSet(a) \cup ToSet(b)
  BY ToSetConcat
<1>4. ToSet(t \o u) = ToSet(t) \cup ToSet(u)
  BY <1>2, <1>3, Zenon
<1>5. ToSet(s) = ToSet(t) \cup ToSet(u)
  BY <1>2, <1>4
<1> QED
  BY <1>5 DEF t, u

\* What is kept of a sequence are its elements of S.
LEMMA ToSetSelection ==
  ASSUME NEW some, NEW all, NEW S, IsSelection(some, all, S)
  PROVE  ToSet(some) = ToSet(all) \cap S
<1>1. PICK from \in [DOMAIN some -> DOMAIN all] :
        /\ \A i \in DOMAIN some : some[i] = all[from[i]]
        /\ {from[i] : i \in DOMAIN some} = {i \in DOMAIN all : all[i] \in S}
  BY DEF IsSelection
<1>2. ToSet(some) \subseteq ToSet(all) \cap S
  BY <1>1 DEF ToSet
<1>3. ToSet(all) \cap S \subseteq ToSet(some)
  BY <1>1 DEF ToSet
<1> QED
  BY <1>2, <1>3

\* No e stands in seq behind an f.
Precedes(seq, e, f) == \A k, l \in DOMAIN seq : seq[k] = e /\ seq[l] = f => k < l

\* In two sequences joined, neither part has an e behind an f, nor the parts.
LEMMA PrecedesConcat ==
  ASSUME NEW S, NEW s \in Seq(S), NEW t \in Seq(S), NEW e, NEW f
  PROVE  Precedes(s \o t, e, f) <=>
           /\ Precedes(s, e, f) /\ Precedes(t, e, f)
           /\ ~(e \in ToSet(t) /\ f \in ToSet(s))
<1> DEFINE u == s \o t
           m == Len(s)
           n == Len(t)
<1>1. /\ m \in Nat /\ n \in Nat /\ DOMAIN s = 1 .. m /\ DOMAIN t = 1 .. n
      /\ DOMAIN u = 1 .. m + n
      /\ \A i \in 1 .. m : u[i] = s[i]
      /\ \A i \in 1 .. n : u[m + i] = t[i]
  OBVIOUS
<1> HIDE DEF u, m, n
<1>2. ASSUME Precedes(u, e, f)
      PROVE  /\ Precedes(s, e, f) /\ Precedes(t, e, f)
             /\ ~(e \in ToSet(t) /\ f \in ToSet(s))
  <2>0. \A k, l \in 1 .. m + n : u[k] = e /\ u[l] = f => k < l
    BY <1>1, <1>2 DEF Precedes
  <2>1. Precedes(s, e, f)
    <3>1. \A k \in 1 .. m : k \in 1 .. m + n /\ u[k] = s[k]
      BY <1>1
    <3> QED
      BY <1>1, <2>0, <3>1 DEF Precedes
  <2>2. \A k \in 1 .. n : m + k \in 1 .. m + n /\ u[m + k] = t[k]
    BY <1>1
  <2>3. ASSUME NEW k \in 1 .. n, NEW l \in 1 .. n, t[k] = e, t[l] = f PROVE k < l
    <3>1. m + k < m + l
      BY <2>0, <2>2, <2>3
    <3> QED
      BY <1>1, <3>1
  <2>4. ASSUME NEW k \in 1 .. n, NEW l \in 1 .. m, t[k] = e, s[l] = f PROVE FALSE
    <3>1. l \in 1 .. m + n /\ u[l] = f
      BY <1>1, <2>4
    <3>2. m + k < l
      BY <2>0, <2>2, <2>4, <3>1
    <3> QED
      BY <1>1, <3>2
  <2> QED
    BY <1>1, <2>1, <2>3, <2>4 DEF Precedes, ToSet
<1>3. ASSUME Precedes(s, e, f), Precedes(t, e, f), ~(e \in ToSet(t) /\ f \in ToSet(s))
      PROVE  Precedes(u, e, f)
  <2>1. SUFFICES ASSUME NEW k \in 1 .. m + n, NEW l \in 1 .. m + n, u[k] = e, u[l] = f
                 PROVE  k < l
    BY <1>1 DEF Precedes
  <2>2. \A i \in 1 .. m + n : i \in 1 .. m \/ (i - m \in 1 .. n /\ i > m /\ u[i] = t[i - m])
    <3>1. TAKE i \in 1 .. m + n
    <3>2. CASE i <= m
      BY <1>1, <3>2
    <3>3. CASE ~(i <= m)
      <4>1. i - m \in 1 .. n /\ m + (i - m) = i
        BY <1>1, <3>3
      <4> QED
        BY <1>1, <3>3, <4>1
    <3> QED
      BY <3>2, <3>3
  <2>3. CASE k \in 1 .. m /\ l \in 1 .. m
    BY <1>1, <1>3, <2>1, <2>3 DEF Precedes
  <2>4. CASE k \in 1 .. m /\ l \notin 1 .. m
    BY <1>1, <2>2, <2>4
  <2>5. CASE k \notin 1 .. m /\ l \in 1 .. m
    <3>1. t[k - m] = e /\ k - m \in DOMAIN t /\ s[l] = f /\ l \in DOMAIN s
      BY <1>1, <2>1, <2>2, <2>5
    <3> QED
      BY <1>3, <3>1 DEF ToSet
  <2>6. CASE k \notin 1 .. m /\ l \notin 1 .. m
    <3>1. /\ t[k - m] = e /\ k - m \in DOMAIN t /\ t[l - m] = f /\ l - m \in DOMAIN t
      BY <1>1, <2>1, <2>2, <2>6
    <3>2. k - m < l - m
      BY <1>3, <3>1 DEF Precedes
    <3> QED
      BY <1>1, <2>1, <3>2
  <2> QED
    BY <2>3, <2>4, <2>5, <2>6
<1> QED
  BY <1>2, <1>3 DEF u

-----------------------------------------------------------------------------
(* How often an element stands in a sequence                               *)

\* The count is a number, and zero for what is not in the sequence only.
LEMMA CountType ==
  ASSUME NEW S, NEW s \in Seq(S), NEW e
  PROVE  /\ IsFiniteSet(Positions(s, e))
         /\ Count(s, e) \in Nat
         /\ Count(s, e) = 0 <=> e \notin ToSet(s)
<1>1. IsFiniteSet(1 .. Len(s)) /\ Positions(s, e) \subseteq 1 .. Len(s)
  BY FS_Interval DEF Positions
<1>2. IsFiniteSet(Positions(s, e))
  BY <1>1, FS_Subset
<1>3. Positions(s, e) = {} <=> e \notin ToSet(s)
  BY DEF Positions, ToSet
<1> QED
  BY <1>2, <1>3, FS_CardinalityType, FS_EmptySet DEF Count

\* Nothing stands in the empty sequence.
LEMMA CountEmpty ==
  ASSUME NEW e
  PROVE  Count(<<>>, e) = 0
<1>1. Positions(<<>>, e) = {}
  BY DEF Positions
<1> QED
  BY <1>1, FS_EmptySet DEF Count

\* Joining two sequences adds the counts.
LEMMA CountConcat ==
  ASSUME NEW S, NEW s \in Seq(S), NEW t \in Seq(S), NEW e
  PROVE  Count(s \o t, e) = Count(s, e) + Count(t, e)
<1> DEFINE P == Positions(s, e)
           Q == Positions(t, e)
           R == {i \in Len(s) + 1 .. Len(s) + Len(t) : t[i - Len(s)] = e}
<1>1. /\ DOMAIN s = 1 .. Len(s) /\ Len(s) \in Nat
      /\ DOMAIN t = 1 .. Len(t) /\ Len(t) \in Nat
      /\ DOMAIN (s \o t) = 1 .. Len(s) + Len(t)
      /\ \A i \in 1 .. Len(s) : (s \o t)[i] = s[i]
      /\ \A i \in Len(s) + 1 .. Len(s) + Len(t) : (s \o t)[i] = t[i - Len(s)]
  OBVIOUS
<1>2. Positions(s \o t, e) = P \cup R
  <2>1. ASSUME NEW i \in DOMAIN (s \o t)
        PROVE  (s \o t)[i] = e <=> i \in P \cup R
    BY <1>1 DEF Positions
  <2>2. P \cup R \subseteq DOMAIN (s \o t)
    BY <1>1 DEF Positions
  <2> QED
    BY <2>1, <2>2 DEF Positions
<1>3. IsFiniteSet(P) /\ IsFiniteSet(Q) /\ Cardinality(P) \in Nat /\ Cardinality(Q) \in Nat
  BY CountType DEF Count
<1>4. IsFiniteSet(R) /\ Cardinality(R) = Cardinality(Q)
  <2> DEFINE f == [i \in Q |-> i + Len(s)]
  <2>1. \A i \in Q : i + Len(s) \in R
    BY <1>1 DEF Positions
  <2>2. \A j \in R : j - Len(s) \in Q /\ f[j - Len(s)] = j
    BY <1>1 DEF Positions
  <2>3. f \in [Q -> R]
    BY <2>1
  <2>4. \A i, j \in Q : f[i] = f[j] => i = j
    BY <1>1 DEF Positions
  <2>5. f \in Bijection(Q, R)
    BY <2>2, <2>3, <2>4 DEF Bijection, Injection, Surjection, IsInjective
  <2>6. ExistsBijection(Q, R)
    BY <2>5 DEF ExistsBijection
  <2> QED
    BY <1>3, <2>6, FS_Bijection
<1>5. P \cap R = {}
  BY <1>1 DEF Positions
<1>6. Cardinality(P \cup R) = Cardinality(P) + Cardinality(R)
  <2>1. Cardinality(P \cap R) = 0
    BY <1>5, FS_EmptySet
  <2>2. Cardinality(P \cup R) = Cardinality(P) + Cardinality(R) - Cardinality(P \cap R)
    BY <1>3, <1>4, FS_Union, Zenon
  <2> QED
    BY <1>3, <1>4, <2>1, <2>2
<1> QED
  BY <1>2, <1>3, <1>4, <1>6 DEF Count

\* A sequence of one element.
LEMMA CountOne ==
  ASSUME NEW e, NEW d
  PROVE  Count(<<d>>, e) = IF d = e THEN 1 ELSE 0
<1>1. CASE d = e
  <2>1. Positions(<<d>>, e) = {1}
    BY <1>1 DEF Positions
  <2> QED
    BY <1>1, <2>1, FS_Singleton DEF Count
<1>2. CASE d # e
  <2>1. Positions(<<d>>, e) = {}
    BY <1>2 DEF Positions
  <2> QED
    BY <1>2, <2>1, FS_EmptySet DEF Count
<1> QED
  BY <1>1, <1>2

\* Appending counts one more.
LEMMA CountAppend ==
  ASSUME NEW S, NEW s \in Seq(S), NEW d \in S, NEW e
  PROVE  Count(Append(s, d), e) = Count(s, e) + IF d = e THEN 1 ELSE 0
<1>1. Append(s, d) = s \o <<d>> /\ <<d>> \in Seq(S)
  BY AppendIsConcat
<1>2. Count(s \o <<d>>, e) = Count(s, e) + Count(<<d>>, e)
  BY <1>1, CountConcat
<1> QED
  BY <1>1, <1>2, CountOne

\* Splitting a sequence splits the counts.
LEMMA CountSplit ==
  ASSUME NEW S, NEW s \in Seq(S), NEW k \in 0 .. Len(s), NEW e
  PROVE  Count(s, e) = Count(SubSeq(s, 1, k), e) + Count(SubSeq(s, k + 1, Len(s)), e)
<1>1. /\ SubSeq(s, 1, k) \in Seq(S) /\ SubSeq(s, k + 1, Len(s)) \in Seq(S)
      /\ SubSeq(s, 1, k) \o SubSeq(s, k + 1, Len(s)) = s
  BY SplitAt
<1> DEFINE t == SubSeq(s, 1, k)
           u == SubSeq(s, k + 1, Len(s))
<1> HIDE DEF t, u
<1>2. t \in Seq(S) /\ u \in Seq(S)
  BY <1>1 DEF t, u
<1>3. Count(t \o u, e) = Count(t, e) + Count(u, e)
  BY <1>2, CountConcat
<1> QED
  BY <1>1, <1>3 DEF t, u

\* Taking the first element off counts one less.
LEMMA CountTail ==
  ASSUME NEW S, NEW s \in Seq(S), s # <<>>, NEW e
  PROVE  Count(s, e) = Count(Tail(s), e) + IF s[1] = e THEN 1 ELSE 0
<1>1. Head(s) = s[1] /\ Head(s) \in S /\ Tail(s) \in Seq(S) /\ <<Head(s)>> \in Seq(S)
  BY HeadTailProperties
<1>2. s = <<Head(s)>> \o Tail(s)
  <2>1. Len(s) \in Nat \ {0} /\ Len(<<Head(s)>>) = 1 /\ Len(Tail(s)) = Len(s) - 1
        /\ \A i \in 1 .. Len(Tail(s)) : Tail(s)[i] = s[i + 1]
    BY HeadTailProperties, EmptySeq
  <2> QED
    BY <1>1, <2>1, SeqEqual
<1>3. Count(<<Head(s)>> \o Tail(s), e) = Count(<<Head(s)>>, e) + Count(Tail(s), e)
  BY <1>1, CountConcat
<1>4. Count(<<Head(s)>>, e) = IF s[1] = e THEN 1 ELSE 0
  BY <1>1, CountOne
<1>5. Count(Tail(s), e) \in Nat
  BY <1>1, CountType
<1>6. Count(s, e) = Count(<<Head(s)>>, e) + Count(Tail(s), e)
  BY <1>2, <1>3
<1>7. Count(<<Head(s)>>, e) \in {0, 1}
  BY <1>4
<1> QED
  BY <1>4, <1>5, <1>6, <1>7

\* Filtering keeps every element of S as often as it was there.
LEMMA CountSelection ==
  ASSUME NEW T, NEW some \in Seq(T), NEW all \in Seq(T), NEW S, NEW e,
         IsSelection(some, all, S)
  PROVE  Count(some, e) = IF e \in S THEN Count(all, e) ELSE 0
<1>1. PICK from \in [DOMAIN some -> DOMAIN all] :
        /\ \A i, j \in DOMAIN some : i < j => from[i] < from[j]
        /\ \A i \in DOMAIN some : some[i] = all[from[i]]
        /\ {from[i] : i \in DOMAIN some} = {i \in DOMAIN all : all[i] \in S}
  BY DEF IsSelection
<1>2. CASE e \notin S
  <2>1. e \notin ToSet(some)
    BY <1>2, ToSetSelection
  <2> QED
    BY <1>2, <2>1, CountType
<1>3. CASE e \in S
  <2> DEFINE P == Positions(some, e)
             Q == Positions(all, e)
             f == [i \in P |-> from[i]]
  <2>1. f \in [P -> Q]
    BY <1>1 DEF Positions
  <2>2. \A i, j \in P : f[i] = f[j] => i = j
    <3>1. DOMAIN some \subseteq Int /\ DOMAIN all \subseteq Int
      OBVIOUS
    <3>2. ASSUME NEW i \in P, NEW j \in P, i < j PROVE from[i] # from[j]
      <4>1. from[i] < from[j] /\ from[i] \in Int /\ from[j] \in Int
        BY <1>1, <3>1, <3>2 DEF Positions
      <4> QED
        BY <4>1
    <3> QED
      BY <3>1, <3>2 DEF Positions
  <2>3. \A j \in Q : \E i \in P : f[i] = j
    BY <1>1, <1>3 DEF Positions
  <2>4. f \in Bijection(P, Q)
    BY <2>1, <2>2, <2>3 DEF Bijection, Injection, Surjection, IsInjective
  <2>5. ExistsBijection(P, Q)
    BY <2>4 DEF ExistsBijection
  <2>6. IsFiniteSet(P)
    BY CountType
  <2> QED
    BY <1>3, <2>5, <2>6, FS_Bijection DEF Count
<1> QED
  BY <1>2, <1>3

\* A finite set's elements can be listed, and the list has as many.
LEMMA SetToSeqOK ==
  ASSUME NEW S, IsFiniteSet(S)
  PROVE  /\ SetToSeq(S) \in Seq(S)
         /\ Len(SetToSeq(S)) = Cardinality(S)
<1>1. Cardinality(S) \in Nat /\ ExistsBijection(1 .. Cardinality(S), S)
  BY FS_CardinalityType
<1>2. \E f \in [1 .. Cardinality(S) -> S] : IsInjective(f)
  BY <1>1 DEF ExistsBijection, Bijection, Injection, IsInjective
<1>3. SetToSeq(S) \in [1 .. Cardinality(S) -> S]
  BY <1>2 DEF SetToSeq
<1> QED
  BY <1>1, <1>3

-----------------------------------------------------------------------------
(* Sums                                                                    *)

\* The sum of the numbers f[x] over the elements x of S.
SumOn(f, S) == SumFunctionOnSet(f, S)

\* The element the recursion takes out first.
Pick(s) == CHOOSE x \in s : TRUE

\* g gives the sums over the subsets of S as the recursion does.
Adds(g, f, S) ==
  g = [s \in SUBSET S |-> IF s = {} THEN 0 ELSE f[Pick(s)] + g[s \ {Pick(s)}]]

\* Such a g: what the recursion stands for.
Adder(f, S) == CHOOSE g : Adds(g, f, S)

\* The library's recursion computes the sum.
LEMMA SumIsAdder ==
  ASSUME NEW f, NEW S
  PROVE  SumOn(f, S) = Adder(f, S)[S]
  BY DEF SumOn, SumFunctionOnSet, FoldFunctionOnSet, MapThenFoldSet, Adder, Adds, Pick

(***************************************************************************)
(* Induction over the subsets of a finite set, for a set Q in the place of *)
(* a predicate: what holds of a subset when it holds of all smaller ones   *)
(* holds of all.                                                           *)
(***************************************************************************)
LEMMA SubsetInduction ==
  ASSUME NEW S, IsFiniteSet(S), NEW Q,
         \A T \in SUBSET S : (\A U \in SUBSET T : U # T => U \in Q) => T \in Q
  PROVE  SUBSET S \subseteq Q
<1> DEFINE Bad == (SUBSET S) \ Q
<1> SUFFICES ASSUME Bad # {} PROVE FALSE
  OBVIOUS
<1>1. Bad \subseteq FiniteSubsetsOf(S)
  BY FS_Subset DEF FiniteSubsetsOf
<1>2. IsWellFoundedOn(StrictSubsetOrdering(S), FiniteSubsetsOf(S))
  BY FS_StrictSubsetOrderingWellFounded
<1> HIDE DEF Bad
<1>3. PICK T \in Bad : \A U \in Bad : <<U, T>> \notin StrictSubsetOrdering(S)
  BY <1>1, <1>2, WFMin
<1>4. T \in SUBSET S /\ T \notin Q
  BY DEF Bad
<1>5. ASSUME NEW U \in SUBSET T, U # T PROVE U \in Q
  <2>1. U \in SUBSET S
    BY <1>4
  <2>2. <<U, T>> \in StrictSubsetOrdering(S)
    BY <2>1, <1>4, <1>5 DEF StrictSubsetOrdering
  <2> QED
    BY <2>1, <2>2, <1>3 DEF Bad
<1> QED
  BY <1>4, <1>5

\* A set that is not empty has an element to begin with.
LEMMA PickIn ==
  ASSUME NEW s, s # {}
  PROVE  Pick(s) \in s
  BY DEF Pick

\* What the recursion says of the sum over a set.
Unfolded(f, s) == IF s = {} THEN 0 ELSE f[Pick(s)] + SumOn(f, s \ {Pick(s)})

\* The recursion has a solution on T if it has one on all that is smaller.
LEMMA AdderAdds ==
  ASSUME NEW f, NEW T, \A U \in SUBSET T : U # T => SumOn(f, U) = Unfolded(f, U)
  PROVE  Adds(Adder(f, T), f, T)
<1> DEFINE g == [s \in SUBSET T |-> Unfolded(f, s)]
<1>1. ASSUME NEW s \in SUBSET T, s # {}
      PROVE  g[s \ {Pick(s)}] = SumOn(f, s \ {Pick(s)})
  <2>1. s \ {Pick(s)} \in SUBSET T /\ s \ {Pick(s)} # T
    BY <1>1, PickIn
  <2> QED
    BY <2>1
<1>2. g = [s \in SUBSET T |-> IF s = {} THEN 0 ELSE f[Pick(s)] + g[s \ {Pick(s)}]]
  BY <1>1 DEF Unfolded
<1>3. Adds(g, f, T)
  BY <1>2 DEF Adds
<1> QED
  BY <1>3 DEF Adder

\* The sum over every subset is what the recursion says.
LEMMA SumUnfolds ==
  ASSUME NEW S, IsFiniteSet(S), NEW f
  PROVE  \A T \in SUBSET S : SumOn(f, T) = Unfolded(f, T)
<1> DEFINE Good == {T \in SUBSET S : SumOn(f, T) = Unfolded(f, T)}
<1> SUFFICES ASSUME NEW T \in SUBSET S, \A U \in SUBSET T : U # T => U \in Good
             PROVE  T \in Good
  <2> HIDE DEF Good
  <2>1. SUBSET S \subseteq Good
    BY SubsetInduction
  <2> QED
    BY <2>1 DEF Good
<1> DEFINE h == Adder(f, T)
<1>1. Adds(h, f, T)
  BY AdderAdds
<1>2. \A U \in SUBSET T : h[U] = IF U = {} THEN 0 ELSE f[Pick(U)] + h[U \ {Pick(U)}]
  <2> HIDE DEF h
  <2> QED
    BY <1>1 DEF Adds
<1> DEFINE Same == {U \in SUBSET T : U # T => h[U] = SumOn(f, U)}
<1>3. ASSUME NEW U \in SUBSET T, \A V \in SUBSET U : V # U => V \in Same
      PROVE  U \in Same
  <2> SUFFICES ASSUME U # T PROVE h[U] = SumOn(f, U)
    OBVIOUS
  <2>1. SumOn(f, U) = Unfolded(f, U)
    OBVIOUS
  <2>2. CASE U = {}
    BY <2>1, <2>2, <1>2 DEF Unfolded
  <2>3. CASE U # {}
    <3>1. /\ U \ {Pick(U)} \in SUBSET U /\ U \ {Pick(U)} # U
          /\ U \ {Pick(U)} # T
      BY <2>3, PickIn
    <3>2. h[U \ {Pick(U)}] = SumOn(f, U \ {Pick(U)})
      BY <3>1, <1>3
    <3> QED
      BY <2>1, <2>3, <3>2, <1>2 DEF Unfolded
  <2> QED
    BY <2>2, <2>3
<1>4. IsFiniteSet(T)
  BY FS_Subset
<1>5. SUBSET T \subseteq Same
  <2> HIDE DEF Same
  <2> QED
    BY <1>3, <1>4, SubsetInduction
<1>6. SumOn(f, T) = h[T]
  BY SumIsAdder
<1>7. CASE T = {}
  BY <1>6, <1>7, <1>2 DEF Unfolded
<1>8. CASE T # {}
  <2>1. T \ {Pick(T)} \in SUBSET T /\ T \ {Pick(T)} # T
    BY <1>8, PickIn
  <2>2. h[T \ {Pick(T)}] = SumOn(f, T \ {Pick(T)})
    BY <2>1, <1>5
  <2> QED
    BY <1>6, <1>8, <2>2, <1>2 DEF Unfolded
<1> QED
  BY <1>7, <1>8

\* The same, one element at a time.
LEMMA ElementInduction ==
  ASSUME NEW S, IsFiniteSet(S), NEW Q, {} \in Q,
         \A T \in SUBSET S : \A x \in T : T \ {x} \in Q => T \in Q
  PROVE  SUBSET S \subseteq Q
<1>1. ASSUME NEW T \in SUBSET S, \A U \in SUBSET T : U # T => U \in Q
      PROVE  T \in Q
  <2>1. CASE T = {}
    BY <2>1
  <2>2. CASE T # {}
    <3>1. PICK x : x \in T
      BY <2>2
    <3>2. T \ {x} \in SUBSET T /\ T \ {x} # T
      BY <3>1
    <3> QED
      BY <3>1, <3>2, <1>1
  <2> QED
    BY <2>1, <2>2
<1> QED
  BY <1>1, SubsetInduction

\* The sum over nothing is zero.
LEMMA SumOfNothing == ASSUME NEW f PROVE SumOn(f, {}) = 0
  BY FS_EmptySet, SumUnfolds DEF Unfolded

\* Sums of natural numbers are natural numbers.
LEMMA SumsNat ==
  ASSUME NEW S, IsFiniteSet(S), NEW f, \A x \in S : f[x] \in Nat
  PROVE  \A T \in SUBSET S : SumOn(f, T) \in Nat
<1> DEFINE Good == {T \in SUBSET S : SumOn(f, T) \in Nat}
<1>1. ASSUME NEW T \in SUBSET S, \A U \in SUBSET T : U # T => U \in Good
      PROVE  T \in Good
  <2>1. SumOn(f, T) = Unfolded(f, T)
    BY SumUnfolds
  <2>2. CASE T = {}
    BY <2>1, <2>2 DEF Unfolded
  <2>3. CASE T # {}
    <3>1. Pick(T) \in T /\ T \ {Pick(T)} \in SUBSET T /\ T \ {Pick(T)} # T
      BY <2>3, PickIn
    <3>2. SumOn(f, T \ {Pick(T)}) \in Nat /\ f[Pick(T)] \in Nat
      BY <3>1, <1>1
    <3> QED
      BY <2>1, <2>3, <3>2 DEF Unfolded
  <2> QED
    BY <2>2, <2>3
<1> HIDE DEF Good
<1>2. SUBSET S \subseteq Good
  BY <1>1, SubsetInduction
<1> QED
  BY <1>2 DEF Good

\* The same for one set.
LEMMA SumNat ==
  ASSUME NEW S, IsFiniteSet(S), NEW f, \A x \in S : f[x] \in Nat
  PROVE  SumOn(f, S) \in Nat
  BY SumsNat

(***************************************************************************)
(* Any element can be taken out of a sum first, not only the one the       *)
(* recursion picks.                                                        *)
(***************************************************************************)
LEMMA SumsSplit ==
  ASSUME NEW S, IsFiniteSet(S), NEW f, \A x \in S : f[x] \in Nat
  PROVE  \A T \in SUBSET S : \A x \in T : SumOn(f, T) = f[x] + SumOn(f, T \ {x})
<1> DEFINE Good ==
             {T \in SUBSET S : \A x \in T : SumOn(f, T) = f[x] + SumOn(f, T \ {x})}
<1>1. ASSUME NEW T \in SUBSET S, \A U \in SUBSET T : U # T => U \in Good,
             NEW x \in T
      PROVE  SumOn(f, T) = f[x] + SumOn(f, T \ {x})
  <2> DEFINE p == Pick(T)
             Rest == T \ {p}
             Both == T \ {p, x}
  <2>1. p \in T
    BY PickIn
  <2>2. SumOn(f, T) = f[p] + SumOn(f, Rest)
    BY SumUnfolds DEF Unfolded
  <2> HIDE DEF p
  <2>3. CASE x = p
    BY <2>2, <2>3
  <2>4. CASE x # p
    <3>1. /\ Rest \in SUBSET T /\ Rest # T /\ x \in Rest /\ Rest \ {x} = Both
          /\ T \ {x} \in SUBSET T /\ T \ {x} # T /\ p \in T \ {x}
          /\ (T \ {x}) \ {p} = Both
      BY <2>1, <2>4
    <3>2. Rest \in Good /\ (T \ {x}) \in Good
      BY <3>1, <1>1
    <3>3. SumOn(f, Rest) = f[x] + SumOn(f, Both)
      BY <3>1, <3>2
    <3>4. SumOn(f, T \ {x}) = f[p] + SumOn(f, Both)
      BY <3>1, <3>2
    <3>5. f[x] \in Nat /\ f[p] \in Nat /\ SumOn(f, Both) \in Nat
      BY <2>1, SumsNat
    <3> QED
      BY <2>2, <3>3, <3>4, <3>5
  <2> QED
    BY <2>3, <2>4
<1>2. ASSUME NEW T \in SUBSET S, \A U \in SUBSET T : U # T => U \in Good
      PROVE  T \in Good
  BY <1>1, <1>2
<1> HIDE DEF Good
<1>3. SUBSET S \subseteq Good
  BY <1>2, SubsetInduction
<1> QED
  BY <1>3 DEF Good

\* The same for one set.
LEMMA SumSplit ==
  ASSUME NEW S, IsFiniteSet(S), NEW f, \A x \in S : f[x] \in Nat, NEW x \in S
  PROVE  SumOn(f, S) = f[x] + SumOn(f, S \ {x})
  BY SumsSplit

\* A sum grows with its terms.
LEMMA SumMonotone ==
  ASSUME NEW S, IsFiniteSet(S), NEW f, NEW g,
         \A x \in S : f[x] \in Nat /\ g[x] \in Nat /\ f[x] <= g[x]
  PROVE  SumOn(f, S) <= SumOn(g, S)
<1> DEFINE Good == {T \in SUBSET S : SumOn(f, T) <= SumOn(g, T)}
<1>1. ASSUME NEW T \in SUBSET S, NEW x \in T, T \ {x} \in Good
      PROVE  T \in Good
  <2>1. /\ SumOn(f, T) = f[x] + SumOn(f, T \ {x})
        /\ SumOn(g, T) = g[x] + SumOn(g, T \ {x})
    BY SumsSplit
  <2>2. /\ SumOn(f, T \ {x}) \in Nat /\ SumOn(g, T \ {x}) \in Nat
        /\ f[x] \in Nat /\ g[x] \in Nat /\ f[x] <= g[x]
    BY SumsNat
  <2>3. SumOn(f, T \ {x}) <= SumOn(g, T \ {x})
    BY <1>1
  <2> QED
    BY <2>1, <2>2, <2>3
<1>2. {} \in Good
  BY SumOfNothing
<1> HIDE DEF Good
<1>3. SUBSET S \subseteq Good
  BY <1>1, <1>2, ElementInduction
<1> QED
  BY <1>3 DEF Good

\* A sum depends on the terms only.
LEMMA SumsAgree ==
  ASSUME NEW S, IsFiniteSet(S), NEW f, NEW g, \A x \in S : f[x] \in Nat /\ f[x] = g[x]
  PROVE  SumOn(f, S) = SumOn(g, S)
<1>1. SumOn(f, S) <= SumOn(g, S) /\ SumOn(g, S) <= SumOn(f, S)
  BY SumMonotone
<1>2. SumOn(f, S) \in Nat /\ SumOn(g, S) \in Nat
  BY SumNat
<1> QED
  BY <1>1, <1>2

\* Nothing at every element is nothing in all.
LEMMA SumOfZeros ==
  ASSUME NEW S, IsFiniteSet(S), NEW f, \A x \in S : f[x] = 0
  PROVE  SumOn(f, S) = 0
<1> DEFINE Good == {T \in SUBSET S : SumOn(f, T) = 0}
<1>1. ASSUME NEW T \in SUBSET S, NEW x \in T, T \ {x} \in Good
      PROVE  T \in Good
  <2>1. \A y \in S : f[y] \in Nat
    OBVIOUS
  <2>2. SumOn(f, T) = f[x] + SumOn(f, T \ {x})
    BY <2>1, SumsSplit
  <2> QED
    BY <1>1, <2>2
<1>2. {} \in Good
  BY SumOfNothing
<1> HIDE DEF Good
<1>3. SUBSET S \subseteq Good
  BY <1>1, <1>2, ElementInduction
<1> QED
  BY <1>3 DEF Good

\* A sum grows with its set.
LEMMA SumOfMore ==
  ASSUME NEW S, IsFiniteSet(S), NEW f, \A x \in S : f[x] \in Nat, NEW R \in SUBSET S
  PROVE  SumOn(f, R) <= SumOn(f, S)
<1> DEFINE Good == {T \in SUBSET S : R \subseteq T => SumOn(f, R) <= SumOn(f, T)}
<1>1. ASSUME NEW T \in SUBSET S, \A U \in SUBSET T : U # T => U \in Good
      PROVE  T \in Good
  <2> SUFFICES ASSUME R \subseteq T PROVE SumOn(f, R) <= SumOn(f, T)
    OBVIOUS
  <2>1. CASE R = T
    BY <2>1, SumsNat
  <2>2. CASE R # T
    <3>1. PICK x \in T : x \notin R
      BY <2>2
    <3>2. SumOn(f, R) <= SumOn(f, T \ {x})
      BY <3>1, <1>1
    <3>3. SumOn(f, T) = f[x] + SumOn(f, T \ {x})
      BY SumsSplit
    <3>4. SumOn(f, R) \in Nat /\ SumOn(f, T \ {x}) \in Nat /\ f[x] \in Nat
      BY SumsNat
    <3> QED
      BY <3>2, <3>3, <3>4
  <2> QED
    BY <2>1, <2>2
<1> HIDE DEF Good
<1>2. SUBSET S \subseteq Good
  BY <1>1, SubsetInduction
<1> QED
  BY <1>2 DEF Good

\* One more at one element is one more in all.
LEMMA SumOneMore ==
  ASSUME NEW S, IsFiniteSet(S), NEW f, NEW g, NEW x \in S,
         \A y \in S : f[y] \in Nat /\ g[y] = IF y = x THEN f[y] + 1 ELSE f[y]
  PROVE  SumOn(g, S) = SumOn(f, S) + 1
<1>1. /\ SumOn(f, S) = f[x] + SumOn(f, S \ {x})
      /\ SumOn(g, S) = g[x] + SumOn(g, S \ {x})
  BY SumSplit
<1>2. SumOn(f, S \ {x}) = SumOn(g, S \ {x})
  <2>1. IsFiniteSet(S \ {x})
    BY FS_Subset
  <2> QED
    BY <2>1, SumsAgree
<1>3. SumOn(f, S \ {x}) \in Nat /\ f[x] \in Nat
  BY SumsNat
<1> QED
  BY <1>1, <1>2, <1>3

\* Terms that all move on by one, behind a new zero, have the same sum.
LEMMA SumShifted ==
  ASSUME NEW d \in Nat, NEW f, NEW g, \A n \in 0 .. d : f[n] \in Nat /\ g[n + 1] = f[n],
         g[0] = 0
  PROVE  SumOn(g, 0 .. d + 1) = SumOn(f, 0 .. d)
<1> DEFINE Moved(T) == {n + 1 : n \in T}
           From == 0 .. d
           To == 0 .. d + 1
           Good == {T \in SUBSET From : SumOn(g, Moved(T)) = SumOn(f, T)}
<1>1. IsFiniteSet(From) /\ IsFiniteSet(To)
  BY FS_Interval
<1>2. \A n \in To : g[n] \in Nat
  <2>1. ASSUME NEW n \in To, n # 0 PROVE g[n] \in Nat
    <3>1. n - 1 \in From /\ (n - 1) + 1 = n
      BY <2>1
    <3> QED
      BY <3>1
  <2> QED
    BY <2>1
<1>3. \A n \in From : f[n] \in Nat
  OBVIOUS
<1>4. ASSUME NEW T \in SUBSET From, NEW n \in T
      PROVE  /\ Moved(T) \in SUBSET To /\ n + 1 \in Moved(T)
             /\ Moved(T) \ {n + 1} = Moved(T \ {n})
             /\ g[n + 1] = f[n]
  OBVIOUS
<1>5. /\ 0 \in To
      /\ To \ {0} = Moved(From)
  <2>1. ASSUME NEW n \in To \ {0} PROVE n \in Moved(From)
    <3>1. n - 1 \in From /\ n = (n - 1) + 1
      OBVIOUS
    <3> QED
      BY <3>1
  <2> QED
    BY <2>1
<1> HIDE DEF From, To
<1>6. ASSUME NEW T \in SUBSET From, NEW n \in T, T \ {n} \in Good
      PROVE  T \in Good
  <2>1. SumOn(f, T) = f[n] + SumOn(f, T \ {n})
    BY <1>1, <1>3, SumsSplit
  <2> DEFINE M == Moved(T)
             m == n + 1
  <2>2. M \in SUBSET To /\ m \in M
    BY <1>4
  <2>3. M \ {m} = Moved(T \ {n}) /\ g[m] = f[n]
    BY <1>4
  <2>4. SumOn(g, M) = g[m] + SumOn(g, M \ {m})
    <3> HIDE DEF M, m
    <3> QED
      BY <2>2, <1>1, <1>2, SumsSplit
  <2> QED
    BY <1>6, <2>1, <2>3, <2>4
<1>7. {} \in Good
  <2>1. Moved({}) = {}
    OBVIOUS
  <2> QED
    BY <2>1, SumOfNothing
<1>8. From \in Good
  <2> HIDE DEF Good
  <2> QED
    BY <1>1, <1>6, <1>7, ElementInduction
<1>9. SumOn(g, To) = g[0] + SumOn(g, To \ {0})
  BY <1>1, <1>2, <1>5, SumSplit
<1>10. SumOn(g, To) = SumOn(f, From)
  <2>1. SumOn(f, From) \in Nat
    BY <1>1, <1>3, SumNat
  <2> QED
    BY <1>5, <1>8, <1>9, <2>1
<1> QED
  BY <1>10 DEF From, To

\* A sum over a set is the sum over a part of it and that over the rest.
LEMMA SumOfParts ==
  ASSUME NEW S, IsFiniteSet(S), NEW f, \A x \in S : f[x] \in Nat, NEW R \in SUBSET S
  PROVE  SumOn(f, S) = SumOn(f, R) + SumOn(f, S \ R)
<1>0. /\ \A T \in SUBSET S : \A x \in T : SumOn(f, T) = f[x] + SumOn(f, T \ {x})
      /\ \A T \in SUBSET S : SumOn(f, T) \in Nat
  BY SumsSplit, SumsNat
<1> DEFINE Good == {T \in SUBSET S : SumOn(f, T) = SumOn(f, T \cap R) + SumOn(f, T \ R)}
<1>1. ASSUME NEW T \in SUBSET S, NEW x \in T, T \ {x} \in Good
      PROVE  T \in Good
  <2> DEFINE U == T \ {x}
             A == T \cap R
             B == T \ R
  <2>1. SumOn(f, T) = f[x] + SumOn(f, U)
    BY <1>0
  <2>2. SumOn(f, U) = SumOn(f, U \cap R) + SumOn(f, U \ R)
    BY <1>1
  <2> HIDE DEF Good
  <2>3. /\ A \in SUBSET S /\ B \in SUBSET S
        /\ SumOn(f, A) \in Nat /\ SumOn(f, B) \in Nat
        /\ SumOn(f, U \cap R) \in Nat /\ SumOn(f, U \ R) \in Nat /\ f[x] \in Nat
    BY <1>0
  <2>4. CASE x \in R
    <3>1. x \in A /\ A \ {x} = U \cap R /\ B = U \ R
      BY <2>4
    <3> HIDE DEF A, B, U
    <3>2. SumOn(f, A) = f[x] + SumOn(f, U \cap R) /\ SumOn(f, B) = SumOn(f, U \ R)
      BY <1>0, <2>3, <3>1
    <3>3. SumOn(f, T) = SumOn(f, A) + SumOn(f, B)
      BY <2>1, <2>2, <2>3, <3>2
    <3> QED
      BY <3>3 DEF A, B, Good
  <2>5. CASE x \notin R
    <3>1. x \in B /\ B \ {x} = U \ R /\ A = U \cap R
      BY <2>5
    <3> HIDE DEF A, B, U
    <3>2. SumOn(f, B) = f[x] + SumOn(f, B \ {x})
      BY <1>0, <2>3, <3>1
    <3>3. SumOn(f, T) = SumOn(f, A) + SumOn(f, B)
      BY <2>1, <2>2, <2>3, <3>1, <3>2
    <3> QED
      BY <3>3 DEF A, B, Good
  <2> QED
    BY <2>4, <2>5
<1>2. {} \in Good
  BY SumOfNothing
<1> HIDE DEF Good
<1>3. S \in Good
  BY <1>1, <1>2, ElementInduction
<1>4. S \cap R = R
  OBVIOUS
<1> QED
  BY <1>3, <1>4 DEF Good

\* The elements whose key is in T.
Keyed(S, key, T) == {x \in S : key[x] \in T}

\* part has, for every key, the sum over the elements with that key.
Grouped(part, f, S, key, K) == \A k \in K : part[k] = SumOn(f, Keyed(S, key, {k}))

(***************************************************************************)
(* A sum over a set is the sum, over the keys, of the sums over the        *)
(* elements with that key: what a GROUP BY adds up to.                     *)
(***************************************************************************)
LEMMA SumByKey ==
  ASSUME NEW S, IsFiniteSet(S), NEW f, \A x \in S : f[x] \in Nat,
         NEW K, IsFiniteSet(K), NEW key, NEW part, Grouped(part, f, S, key, K)
  PROVE  SumOn(part, K) = SumOn(f, Keyed(S, key, K))
<1>0. \A T : Keyed(S, key, T) \in SUBSET S /\ IsFiniteSet(Keyed(S, key, T))
  <2>1. \A T : Keyed(S, key, T) \in SUBSET S
    BY DEF Keyed
  <2> QED
    BY <2>1, FS_Subset
<1>00. \A k \in K : part[k] \in Nat
  <2>1. \A T \in SUBSET S : SumOn(f, T) \in Nat
    BY SumsNat
  <2> QED
    BY <1>0, <2>1 DEF Grouped
<1> DEFINE Good == {T \in SUBSET K : SumOn(part, T) = SumOn(f, Keyed(S, key, T))}
<1>1. ASSUME NEW T \in SUBSET K, NEW k \in T, T \ {k} \in Good
      PROVE  T \in Good
  <2> DEFINE U == T \ {k}
             A == Keyed(S, key, T)
             B == Keyed(S, key, {k})
             C == Keyed(S, key, U)
  <2>1. SumOn(part, T) = part[k] + SumOn(part, U)
    BY <1>00, SumsSplit
  <2>2. SumOn(part, U) = SumOn(f, C) /\ part[k] = SumOn(f, B)
    BY <1>1 DEF Grouped
  <2>3. B \in SUBSET A /\ A \ B = C
    BY DEF Keyed
  <2>4. A \in SUBSET S /\ IsFiniteSet(A)
    BY <1>0
  <2> HIDE DEF A, B, C, U
  <2>5. SumOn(f, A) = SumOn(f, B) + SumOn(f, A \ B)
    BY <2>3, <2>4, SumOfParts
  <2> QED
    BY <2>1, <2>2, <2>3, <2>5 DEF A
<1>2. {} \in Good
  <2>1. Keyed(S, key, {}) = {}
    BY DEF Keyed
  <2> QED
    BY <2>1, SumOfNothing
<1> HIDE DEF Good
<1>3. K \in Good
  BY <1>1, <1>2, ElementInduction
<1> QED
  BY <1>3 DEF Good

\* Counting is adding ones.
LEMMA SumOfOnes ==
  ASSUME NEW S, IsFiniteSet(S), NEW f, \A x \in S : f[x] = 1
  PROVE  \A T \in SUBSET S : SumOn(f, T) = Cardinality(T)
<1> DEFINE Good == {T \in SUBSET S : SumOn(f, T) = Cardinality(T)}
<1>1. ASSUME NEW T \in SUBSET S, NEW x \in T, T \ {x} \in Good
      PROVE  T \in Good
  <2>1. SumOn(f, T) = f[x] + SumOn(f, T \ {x}) /\ f[x] = 1
    BY SumsSplit
  <2>2. IsFiniteSet(T)
    BY FS_Subset
  <2>3. Cardinality(T \ {x}) = Cardinality(T) - 1 /\ Cardinality(T) \in Nat
    BY <2>2, FS_RemoveElement, FS_CardinalityType
  <2>4. SumOn(f, T \ {x}) = Cardinality(T \ {x})
    BY <1>1
  <2> QED
    BY <2>1, <2>3, <2>4
<1>2. {} \in Good
  BY SumOfNothing, FS_EmptySet
<1> HIDE DEF Good
<1>3. SUBSET S \subseteq Good
  BY <1>1, <1>2, ElementInduction
<1> QED
  BY <1>3 DEF Good

\* A set is as large as its parts by key together.
LEMMA CountByKey ==
  ASSUME NEW S, IsFiniteSet(S), NEW K, IsFiniteSet(K), NEW key, NEW part,
         \A k \in K : part[k] = Cardinality(Keyed(S, key, {k}))
  PROVE  SumOn(part, K) = Cardinality(Keyed(S, key, K))
<1> DEFINE f == [x \in S |-> 1]
<1>1. \A x \in S : f[x] \in Nat /\ f[x] = 1
  OBVIOUS
<1> HIDE DEF f
<1>2. \A T \in SUBSET S : SumOn(f, T) = Cardinality(T)
  BY <1>1, SumOfOnes
<1>3. \A T : Keyed(S, key, T) \in SUBSET S
  BY DEF Keyed
<1>4. Grouped(part, f, S, key, K)
  <2>1. SUFFICES ASSUME NEW k \in K PROVE part[k] = SumOn(f, Keyed(S, key, {k}))
    BY DEF Grouped
  <2> DEFINE T == Keyed(S, key, {k})
  <2>2. T \in SUBSET S /\ part[k] = Cardinality(T)
    BY <1>3
  <2> HIDE DEF T
  <2>3. part[k] = SumOn(f, T)
    BY <1>2, <2>2
  <2> QED
    BY <2>3 DEF T
<1>5. \A x \in S : f[x] \in Nat
  BY <1>1
<1>6. SumOn(part, K) = SumOn(f, Keyed(S, key, K))
  BY <1>4, <1>5, SumByKey
<1> QED
  BY <1>2, <1>3, <1>6

-----------------------------------------------------------------------------
(* Numbers from 1 to n                                                     *)

\* A nonempty set of them has a greatest element, and a least one.
LEMMA MaxIn ==
  ASSUME NEW n \in Nat, NEW T \in SUBSET (1 .. n), T # {}
  PROVE  Max(T) \in T /\ \A y \in T : y <= Max(T)
<1> DEFINE N == 1 .. n
           Good == {U \in SUBSET N : U # {} => \E x \in U : \A y \in U : x >= y}
<1>1. ASSUME NEW U \in SUBSET N, NEW x \in U, U \ {x} \in Good
      PROVE  U \in Good
  <2>1. CASE U \ {x} = {}
    <3>1. \A y \in U : x >= y
      BY <2>1
    <3> QED
      BY <3>1
  <2>2. CASE U \ {x} # {}
    <3>1. PICK m \in U \ {x} : \A y \in U \ {x} : m >= y
      BY <1>1, <2>2
    <3>2. (\A y \in U : m >= y) \/ (\A y \in U : x >= y)
      BY <3>1
    <3> QED
      BY <3>1, <3>2
  <2> QED
    BY <2>1, <2>2
<1>2. {} \in Good
  OBVIOUS
<1>3. IsFiniteSet(N)
  BY FS_Interval
<1>4. SUBSET N \subseteq Good
  <2> HIDE DEF N, Good
  <2> QED
    BY <1>1, <1>2, <1>3, ElementInduction
<1>5. Max(T) \in T /\ \A y \in T : Max(T) >= y
  BY <1>4 DEF Max
<1> QED
  BY <1>5

LEMMA LeastIn ==
  ASSUME NEW n \in Nat, NEW T \in SUBSET (1 .. n), T # {}
  PROVE  \E x \in T : \A y \in T : x <= y
<1> DEFINE U == {n + 1 - x : x \in T}
<1>1. U \in SUBSET (1 .. n) /\ U # {}
  <2>1. \A x \in T : n + 1 - x \in 1 .. n
    OBVIOUS
  <2>2. PICK x \in T : TRUE
    OBVIOUS
  <2>3. n + 1 - x \in U
    OBVIOUS
  <2> QED
    BY <2>1, <2>3
<1>2. Max(U) \in U /\ \A y \in U : y <= Max(U)
  BY <1>1, MaxIn
<1>3. PICK x \in T : Max(U) = n + 1 - x
  BY <1>2
<1>4. \A y \in T : n + 1 - y <= n + 1 - x
  BY <1>2, <1>3
<1> QED
  BY <1>4

\* A set that has every number below one of its own is an interval.
LEMMA InitialSegment ==
  ASSUME NEW n \in Nat, NEW T \in SUBSET (1 .. n), \A i \in T : 1 .. i \subseteq T
  PROVE  T = 1 .. Cardinality(T) /\ Cardinality(T) \in 0 .. n
<1>1. CASE T = {}
  BY <1>1, FS_EmptySet
<1>2. CASE T # {}
  <2> DEFINE m == Max(T)
  <2>1. m \in T /\ \A y \in T : y <= m
    BY <1>2, MaxIn
  <2> HIDE DEF m
  <2>2. T = 1 .. m /\ m \in 1 .. n
    <3>1. m \in 1 .. n
      BY <2>1
    <3>2. T \subseteq 1 .. m
      BY <2>1, <3>1
    <3>3. 1 .. m \subseteq T
      BY <2>1
    <3> QED
      BY <3>1, <3>2, <3>3
  <2>3. Cardinality(1 .. m) = m
    BY <2>2, FS_Interval
  <2>4. Cardinality(T) = m
    BY <2>2, <2>3
  <2> QED
    BY <2>2, <2>4
<1> QED
  BY <1>1, <1>2

-----------------------------------------------------------------------------
(* Folds                                                                   *)

(***************************************************************************)
(* The library folds a sequence by a recursion over the subsets of its     *)
(* domain, taking out the greatest position first.  The operator folded is *)
(* given as a function `step` of a value and a position, since a theorem   *)
(* with an operator for a parameter cannot be used.  There is a solution,  *)
(* and it is unique.                                                       *)
(***************************************************************************)
FoldsOn(h, T, base, step) ==
  /\ h[{}] = base
  /\ \A s \in SUBSET T : s # {} => h[s] = step[<<h[s \ {Max(s)}], Max(s)>>]

LEMMA FoldExists ==
  ASSUME NEW A, NEW n \in Nat, NEW base \in A, NEW step \in [A \X (1 .. n) -> A]
  PROVE  \E h \in [SUBSET (1 .. n) -> A] : FoldsOn(h, 1 .. n, base, step)
<1> DEFINE N == 1 .. n
           Solves(h, T) == FoldsOn(h, T, base, step)
           Good == {T \in SUBSET N : \E h \in [SUBSET T -> A] : Solves(h, T)}
<1>1. ASSUME NEW T \in SUBSET N, \A U \in SUBSET T : U # T => U \in Good
      PROVE  T \in Good
  <2>1. CASE T = {}
    <3> DEFINE h == [s \in SUBSET T |-> base]
    <3>1. h \in [SUBSET T -> A] /\ Solves(h, T)
      BY <2>1 DEF FoldsOn
    <3> QED
      BY <3>1
  <2>2. CASE T # {}
    <3> DEFINE m == Max(T)
    <3>1. m \in T /\ \A y \in T : y <= m
      BY <2>2, MaxIn
    <3>2. PICK h0 \in [SUBSET (T \ {m}) -> A] : Solves(h0, T \ {m})
      <4>1. T \ {m} \in SUBSET T /\ T \ {m} # T
        BY <3>1
      <4>2. T \ {m} \in Good
        <5> HIDE DEF Good, m
        <5> QED
          BY <4>1, <1>1
      <4> HIDE DEF m, Solves
      <4> QED
        BY <4>2
    <3> DEFINE h == [s \in SUBSET T |->
                       IF m \in s THEN step[<<h0[s \ {m}], m>>] ELSE h0[s]]
    <3> HIDE DEF m
    <3>3. \A s \in SUBSET T : m \notin s => s \in SUBSET (T \ {m}) /\ h[s] = h0[s]
      OBVIOUS
    <3>4. \A s \in SUBSET T : m \in s =>
            /\ s \ {m} \in SUBSET (T \ {m}) /\ s \ {m} \in SUBSET T
            /\ h[s] = step[<<h0[s \ {m}], m>>] /\ h[s \ {m}] = h0[s \ {m}]
      OBVIOUS
    <3>5. h \in [SUBSET T -> A]
      <4>1. ASSUME NEW s \in SUBSET T, m \in s PROVE step[<<h0[s \ {m}], m>>] \in A
        BY <3>1, <3>2, <4>1
      <4>2. ASSUME NEW s \in SUBSET T, m \notin s PROVE h0[s] \in A
        BY <3>2, <4>2
      <4> QED
        BY <4>1, <4>2
    <3>6. ASSUME NEW s \in SUBSET T, m \in s PROVE Max(s) = m
      <4>1. s \in SUBSET (1 .. n) /\ s # {}
        BY <3>6
      <4>2. Max(s) \in s /\ m <= Max(s)
        BY <3>6, <4>1, MaxIn
      <4>3. Max(s) \in 1 .. n /\ m \in 1 .. n /\ Max(s) <= m
        BY <3>1, <4>2
      <4> QED
        BY <4>2, <4>3
    <3> HIDE DEF h
    <3>7. h[{}] = base
      BY <3>2, <3>3 DEF FoldsOn
    <3>8. ASSUME NEW s \in SUBSET T, s # {}
          PROVE  h[s] = step[<<h[s \ {Max(s)}], Max(s)>>]
      <4>1. CASE m \in s
        BY <3>4, <3>6, <4>1
      <4>2. CASE m \notin s
        <5>1. s \in SUBSET (T \ {m}) /\ h[s] = h0[s]
          BY <3>3, <4>2
        <5>2. h0[s] = step[<<h0[s \ {Max(s)}], Max(s)>>]
          BY <3>2, <3>8, <5>1 DEF FoldsOn
        <5>3. s \ {Max(s)} \in SUBSET T /\ m \notin s \ {Max(s)}
          BY <4>2
        <5>4. h[s \ {Max(s)}] = h0[s \ {Max(s)}]
          BY <3>3, <5>3
        <5> QED
          BY <5>1, <5>2, <5>4
      <4> QED
        BY <4>1, <4>2
    <3> QED
      BY <3>5, <3>7, <3>8 DEF FoldsOn
  <2> QED
    BY <2>1, <2>2
<1>2. IsFiniteSet(N) /\ N \in SUBSET N
  BY FS_Interval
<1>3. N \in Good
  <2> HIDE DEF N, Good
  <2>1. SUBSET N \subseteq Good
    BY <1>1, <1>2, SubsetInduction
  <2> QED
    BY <1>2, <2>1
<1> QED
  BY <1>3

LEMMA FoldUnique ==
  ASSUME NEW n \in Nat, NEW h, NEW k, k[{}] = h[{}],
         \A s \in SUBSET (1 .. n) :
           s # {} /\ k[s \ {Max(s)}] = h[s \ {Max(s)}] => k[s] = h[s]
  PROVE  k[1 .. n] = h[1 .. n]
<1> DEFINE N == 1 .. n
           Good == {T \in SUBSET N : k[T] = h[T]}
<1>1. ASSUME NEW T \in SUBSET N, \A U \in SUBSET T : U # T => U \in Good
      PROVE  T \in Good
  <2>1. CASE T # {}
    <3>1. Max(T) \in T
      BY <2>1, MaxIn
    <3>2. T \ {Max(T)} \in SUBSET T /\ T \ {Max(T)} # T
      BY <3>1
    <3> QED
      BY <1>1, <2>1, <3>2
  <2> QED
    BY <2>1
<1>2. IsFiniteSet(N) /\ N \in SUBSET N
  BY FS_Interval
<1>3. N \in Good
  <2> HIDE DEF N, Good
  <2>1. SUBSET N \subseteq Good
    BY <1>1, <1>2, SubsetInduction
  <2> QED
    BY <1>2, <2>1
<1> QED
  BY <1>3

\* What a solution says of the positions up to i.
LEMMA FoldByPosition ==
  ASSUME NEW n \in Nat, NEW h, NEW base, NEW step, FoldsOn(h, 1 .. n, base, step),
         NEW i \in 1 .. n
  PROVE  h[1 .. i] = step[<<h[1 .. i - 1], i>>]
<1> DEFINE s == 1 .. i
<1>1. s \in SUBSET (1 .. n) /\ s # {} /\ i \in s
  <2>1. i \in 1 .. i /\ 1 .. i \subseteq 1 .. n
    OBVIOUS
  <2> QED
    BY <2>1
<1>2. Max(s) \in s /\ i <= Max(s)
  BY <1>1, MaxIn
<1>3. Max(s) = i
  BY <1>2
<1>4. s \ {i} = 1 .. i - 1
  <2>1. \A j : j \in s \ {i} <=> j \in 1 .. i - 1
    OBVIOUS
  <2> HIDE DEF s
  <2> QED
    BY <2>1
<1> QED
  BY <1>1, <1>3, <1>4 DEF FoldsOn

\* So folding the first n positions takes n steps.
InSteps(h, n, step) == \A i \in 1 .. n : h[1 .. i] = step[<<h[1 .. i - 1], i>>]

LEMMA FoldInSteps ==
  ASSUME NEW A, NEW n \in Nat, NEW base \in A, NEW step \in [A \X (1 .. n) -> A]
  PROVE  \E h \in [SUBSET (1 .. n) -> A] :
           FoldsOn(h, 1 .. n, base, step) /\ InSteps(h, n, step)
<1>1. PICK h \in [SUBSET (1 .. n) -> A] : FoldsOn(h, 1 .. n, base, step)
  BY FoldExists
<1>2. \A i \in 1 .. n : h[1 .. i] = step[<<h[1 .. i - 1], i>>]
  <2>1. TAKE i \in 1 .. n
  <2> QED
    BY <1>1, FoldByPosition
<1> QED
  BY <1>1, <1>2 DEF InSteps
-----------------------------------------------------------------------------
(* Images, unions and the first few                                        *)

\* The image of a finite set is finite.
LEMMA ImageFinite ==
  ASSUME NEW S, IsFiniteSet(S), NEW f
  PROVE  IsFiniteSet({f[x] : x \in S})
<1> DEFINE T == {f[x] : x \in S}
           g == [x \in S |-> f[x]]
<1>1. g \in Surjection(S, T)
  BY DEF Surjection
<1> HIDE DEF g, T
<1>2. IsFiniteSet(T)
  BY <1>1, FS_Surjection
<1> QED
  BY <1>2 DEF T

\* A union is finite, and not larger than its parts together.
LEMMA UnionNoLarger ==
  ASSUME NEW A, IsFiniteSet(A), NEW B, IsFiniteSet(B)
  PROVE  /\ IsFiniteSet(A \cup B)
         /\ Cardinality(A) \in Nat /\ Cardinality(B) \in Nat
         /\ Cardinality(A \cup B) \in Nat
         /\ Cardinality(A \cup B) <= Cardinality(A) + Cardinality(B)
<1>1. /\ IsFiniteSet(A \cup B)
      /\ Cardinality(A \cup B)
           = Cardinality(A) + Cardinality(B) - Cardinality(A \cap B)
  BY FS_Union
<1>2. IsFiniteSet(A \cap B)
  BY FS_Subset
<1>3. /\ Cardinality(A) \in Nat /\ Cardinality(B) \in Nat
      /\ Cardinality(A \cap B) \in Nat /\ Cardinality(A \cup B) \in Nat
  BY <1>1, <1>2, FS_CardinalityType
<1> QED
  BY <1>1, <1>3

\* A size of the subsets of S that is no larger for a union than for its parts
\* together, and the sizes of the parts by key.
Subadditive(size, S) ==
  /\ \A A \in SUBSET S : size[A] \in Nat
  /\ \A A, B \in SUBSET S : size[A \cup B] <= size[A] + size[B]

Sized(part, size, S, key, K) == \A k \in K : part[k] = size[Keyed(S, key, {k})]

\* The sizes of the parts by key add up to at least the whole's.
LEMMA SumCovers ==
  ASSUME NEW S, NEW K, IsFiniteSet(K), K # {}, NEW key, NEW part, NEW size,
         Subadditive(size, S), Sized(part, size, S, key, K)
  PROVE  size[Keyed(S, key, K)] <= SumOn(part, K)
<1>1. \A T : Keyed(S, key, T) \in SUBSET S
  BY DEF Keyed
<1>2. \A k \in K : part[k] \in Nat
  BY <1>1 DEF Subadditive, Sized
<1> DEFINE Good == {T \in SUBSET K : T = {} \/ size[Keyed(S, key, T)] <= SumOn(part, T)}
<1>3. ASSUME NEW T \in SUBSET K, NEW k \in T, T \ {k} \in Good
      PROVE  T \in Good
  <2> DEFINE U == T \ {k}
             A == Keyed(S, key, T)
             B == Keyed(S, key, {k})
             C == Keyed(S, key, U)
  <2>1. SumOn(part, T) = part[k] + SumOn(part, U)
    BY <1>2, SumsSplit
  <2>2. part[k] = size[B] /\ size[B] \in Nat /\ size[C] \in Nat /\ size[A] \in Nat
    BY <1>1 DEF Sized, Subadditive
  <2>3. U = {} \/ size[C] <= SumOn(part, U)
    BY <1>3
  <2>4. SumOn(part, U) \in Nat
    BY <1>2, SumsNat
  <2> SUFFICES size[A] <= SumOn(part, T)
    OBVIOUS
  <2>5. CASE U = {}
    <3>1. T = {k} /\ SumOn(part, U) = 0
      BY <2>5, SumOfNothing
    <3>2. A = B
      BY <3>1
    <3> HIDE DEF A, B, U
    <3> QED
      BY <2>1, <2>2, <3>1, <3>2
  <2>6. CASE U # {}
    <3>1. A = B \cup C
      BY DEF Keyed
    <3>2. size[A] <= size[B] + size[C]
      <4>1. A \in SUBSET S /\ B \in SUBSET S /\ C \in SUBSET S
        BY <1>1
      <4> HIDE DEF A, B, C
      <4> QED
        BY <3>1, <4>1 DEF Subadditive
    <3> HIDE DEF A, B, C, U
    <3> QED
      BY <2>1, <2>2, <2>3, <2>4, <2>6, <3>2
  <2> QED
    BY <2>5, <2>6
<1>4. {} \in Good
  OBVIOUS
<1> HIDE DEF Good
<1>5. K \in Good
  BY <1>3, <1>4, ElementInduction
<1> QED
  BY <1>5 DEF Good

\* Those before which, in the order R, there are fewer than n.
FirstFew(S, R, n) == {x \in S : Cardinality({y \in S : <<y, x>> \in R}) < n}

\* R is a strict order on S.
StrictOrder(S, R) ==
  /\ \A x \in S : <<x, x>> \notin R
  /\ \A x, y, z \in S : <<x, y>> \in R /\ <<y, z>> \in R => <<x, z>> \in R

\* If these are fewer than n, they are all.
LEMMA FewAreAll ==
  ASSUME NEW S, IsFiniteSet(S), NEW R, StrictOrder(S, R), NEW n \in Nat,
         Cardinality(FirstFew(S, R, n)) < n
  PROVE  FirstFew(S, R, n) = S
<1> DEFINE Before(x) == {y \in S : <<y, x>> \in R}
           Few == FirstFew(S, R, n)
           Others == S \ Few
           rank == [x \in S |-> Cardinality(Before(x))]
<1>1. \A x \in S : Before(x) \in SUBSET S /\ IsFiniteSet(Before(x)) /\ rank[x] \in Nat
  <2>1. ASSUME NEW x \in S
        PROVE  Before(x) \in SUBSET S /\ IsFiniteSet(Before(x)) /\ rank[x] \in Nat
    <3> DEFINE B == Before(x)
    <3>1. B \in SUBSET S /\ rank[x] = Cardinality(B)
      OBVIOUS
    <3> HIDE DEF B
    <3>2. IsFiniteSet(B) /\ Cardinality(B) \in Nat
      BY <3>1, FS_Subset, FS_CardinalityType
    <3> QED
      BY <3>1, <3>2 DEF B
  <2> QED
    BY <2>1
<1>10. \A x \in S : rank[x] \in Nat
  BY <1>1
<1>2. \A x \in Others : ~(rank[x] < n)
  BY DEF FirstFew
<1>3. \A x \in S, y \in S : <<y, x>> \in R => rank[y] < rank[x]
  <2> SUFFICES ASSUME NEW x \in S, NEW y \in S, <<y, x>> \in R
               PROVE  rank[y] < rank[x]
    OBVIOUS
  <2> DEFINE A == Before(x)
             B == Before(y)
  <2>1. B \in SUBSET A /\ y \in A /\ y \notin B
    BY DEF StrictOrder
  <2>2. IsFiniteSet(A) /\ rank[x] = Cardinality(A) /\ rank[y] = Cardinality(B)
        /\ rank[x] \in Nat /\ rank[y] \in Nat
    BY <1>1
  <2> HIDE DEF A, B, rank
  <2>3. Cardinality(B) <= Cardinality(A) /\ (Cardinality(A) = Cardinality(B) => A = B)
    BY <2>1, <2>2, FS_Subset
  <2> QED
    BY <2>1, <2>2, <2>3
<1>4. ASSUME Others # {} PROVE FALSE
  <2> DEFINE Ranks == {rank[x] + 1 : x \in Others}
             N == Cardinality(S) + 1
  <2>1. N \in Nat /\ \A x \in S : rank[x] + 1 \in 1 .. N
    <3>1. Cardinality(S) \in Nat
      BY FS_CardinalityType
    <3>2. ASSUME NEW x \in S PROVE rank[x] <= Cardinality(S)
      <4> DEFINE B == Before(x)
      <4>1. B \in SUBSET S /\ rank[x] = Cardinality(B)
        OBVIOUS
      <4> HIDE DEF B
      <4> QED
        BY <4>1, FS_Subset
    <3> HIDE DEF rank
    <3>3. \A x \in S : rank[x] \in Nat /\ rank[x] <= Cardinality(S)
      BY <1>10, <3>2
    <3> HIDE DEF Before
    <3> QED
      BY <3>1, <3>3
  <2>2. Ranks \in SUBSET (1 .. N) /\ Ranks # {}
    <3>1. Others \subseteq S
      OBVIOUS
    <3> HIDE DEF rank, N, Others
    <3> QED
      BY <1>4, <2>1, <3>1
  <2> HIDE DEF Ranks, N
  <2>3. PICK r \in Ranks : \A s \in Ranks : r <= s
    BY <2>1, <2>2, LeastIn
  <2>4. PICK x \in Others : r = rank[x] + 1
    BY <2>3 DEF Ranks
  <2>5. \A y \in Others : rank[x] <= rank[y]
    <3>1. \A y \in Others : r <= rank[y] + 1 /\ rank[y] \in Nat /\ rank[x] \in Nat
      BY <1>1, <2>3, <2>4 DEF Ranks
    <3> HIDE DEF rank, Others
    <3> QED
      BY <2>4, <3>1
  <2>6. Before(x) \in SUBSET Few
    <3> SUFFICES ASSUME NEW y \in Before(x), y \notin Few PROVE FALSE
      OBVIOUS
    <3>1. y \in Others /\ y \in S /\ x \in S /\ rank[y] < rank[x]
      BY <1>3
    <3> HIDE DEF rank, Others
    <3>2. rank[x] <= rank[y] /\ rank[x] \in Nat /\ rank[y] \in Nat
      BY <1>10, <2>5, <3>1
    <3> QED
      BY <3>1, <3>2
  <2>7. Few \in SUBSET S
    BY DEF FirstFew
  <2> DEFINE A == Before(x)
  <2>8. rank[x] = Cardinality(A) /\ rank[x] \in Nat /\ ~(rank[x] < n)
    BY <1>1, <1>2
  <2>9. Cardinality(A) <= Cardinality(Few)
    <3>1. A \in SUBSET Few
      BY <2>6
    <3> HIDE DEF A, Few
    <3> QED
      BY <2>7, <3>1, FS_Subset
  <2>10. Cardinality(Few) \in Nat /\ Cardinality(Few) < n
    <3>1. IsFiniteSet(Few)
      BY <2>7, FS_Subset
    <3> QED
      BY <3>1, FS_CardinalityType
  <2> HIDE DEF A, Few, rank
  <2> QED
    BY <2>8, <2>9, <2>10
<1> QED
  BY <1>4 DEF FirstFew
=============================================================================
