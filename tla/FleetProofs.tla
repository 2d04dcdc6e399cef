---------------------------- MODULE FleetProofs -----------------------------
(***************************************************************************)
(* What is proved of the two daemons, for any fleet, any number of         *)
(* overlapping cycles, any targets and amounts.  The monitor's alerts and  *)
(* active issues are in step, and the bot spends and tops up as planned.   *)
(* A behaviour moves one daemon, so each has an invariant of its own.      *)
(***************************************************************************)
EXTENDS Fleet, CollectionProofs

-----------------------------------------------------------------------------
(* The monitor's probes                                                    *)

\* The probes of one kind.
ProbesFor(kind, names) == {[kind |-> kind, who |-> n] : n \in names}

\* The probes of a cycle over the fleet f.
ProbesOf(f) ==
  ProbesFor("relay", f.relays) \cup ProbesFor("cosigner", f.cosigners)
  \cup ProbesFor("chain", {"chain"}) \cup ProbesFor("gas", f.accounts)

\* A finite set of names gives a list of probes, one for each.
LEMMA ProbesListed ==
  ASSUME NEW names, IsFiniteSet(names), NEW kind
  PROVE  /\ Probes(kind, names) \in Seq(ProbesFor(kind, names))
         /\ names # {} => Probes(kind, names) # <<>>
<1> DEFINE S == ProbesFor(kind, names)
<1>1. IsFiniteSet(S)
  <2>1. [n \in names |-> [kind |-> kind, who |-> n]] \in Surjection(names, S)
    BY DEF Surjection, ProbesFor
  <2> QED
    BY <2>1, FS_Surjection
<1>2. names # {} => S # {}
  BY DEF ProbesFor
<1>3. Probes(kind, names) = SetToSeq(S)
  BY DEF Probes, ProbesFor
<1> HIDE DEF S
<1>4. SetToSeq(S) \in Seq(S) /\ Len(SetToSeq(S)) = Cardinality(S)
  BY <1>1, SetToSeqOK
<1>5. S # {} => Cardinality(S) # 0
  BY <1>1, FS_EmptySet
<1> QED
  BY <1>2, <1>3, <1>4, <1>5 DEF S

\* A sequence over a set is one over a larger set.
LEMMA SeqOfMore ==
  ASSUME NEW S, NEW T, S \subseteq T, NEW s \in Seq(S)
  PROVE  s \in Seq(T)
  OBVIOUS

\* A cycle's list holds probes of the watched fleet; it probes the chain at least.
LEMMA ProbeListOK ==
  ASSUME watched \in Fleets
  PROVE  ProbeList \in Seq(ProbesOf(watched)) /\ ProbeList # <<>>
<1>1. /\ IsFiniteSet(watched.relays) /\ IsFiniteSet(watched.cosigners)
      /\ IsFiniteSet(watched.accounts) /\ IsFiniteSet({"chain"})
  BY MonitorAssumption, FS_Singleton
<1> DEFINE a == Probes("relay", watched.relays)
           b == Probes("cosigner", watched.cosigners)
           c == Probes("chain", {"chain"})
           d == Probes("gas", watched.accounts)
           P == ProbesOf(watched)
<1>2. a \in Seq(P) /\ b \in Seq(P) /\ c \in Seq(P) /\ d \in Seq(P) /\ c # <<>>
  <2>1. a \in Seq(ProbesFor("relay", watched.relays))
    BY <1>1, ProbesListed
  <2>2. b \in Seq(ProbesFor("cosigner", watched.cosigners))
    BY <1>1, ProbesListed
  <2>3. c \in Seq(ProbesFor("chain", {"chain"})) /\ c # <<>>
    BY <1>1, ProbesListed
  <2>4. d \in Seq(ProbesFor("gas", watched.accounts))
    BY <1>1, ProbesListed
  <2> HIDE DEF a, b, c, d
  <2> QED
    BY <2>1, <2>2, <2>3, <2>4, SeqOfMore DEF ProbesOf
<1>3. ProbeList = a \o b \o c \o d
  BY DEF ProbeList
<1> HIDE DEF a, b, c, d, P
<1>4. a \o b \o c \o d \in Seq(P) /\ a \o b \o c \o d # <<>>
  BY <1>2
<1> QED
  BY <1>3, <1>4 DEF P

(***************************************************************************)
(* What is left of a cycle's probes: the first is a probe of the watched   *)
(* fleet, and the rest is again what may be left.                          *)
(***************************************************************************)
ProbesLeft == {SubSeq(ProbeList, i, Len(ProbeList)) : i \in 1 .. Len(ProbeList) + 1}

LEMMA ProbesLeftOK ==
  ASSUME watched \in Fleets
  PROVE  /\ ProbeList \in ProbesLeft /\ <<>> \in ProbesLeft
         /\ \A s \in ProbesLeft :
              s # <<>> => /\ Len(s) \in Nat \ {0}
                          /\ Head(s) \in ProbesOf(watched)
                          /\ Tail(s) \in ProbesLeft
                          /\ Len(s) # 1 => Tail(s) # <<>>
<1> DEFINE L == ProbeList
           n == Len(ProbeList)
           P == ProbesOf(watched)
<1>1. L \in Seq(P) /\ n \in Nat \ {0} /\ n = Len(L)
  BY ProbeListOK
<1> HIDE DEF L, n, P
<1>2. SubSeq(L, 1, n) = L /\ SubSeq(L, n + 1, n) = <<>>
  BY <1>1
<1>3. ASSUME NEW i \in 1 .. n + 1, SubSeq(L, i, n) # <<>>
      PROVE  /\ Len(SubSeq(L, i, n)) \in Nat \ {0}
             /\ Head(SubSeq(L, i, n)) \in P
             /\ i + 1 \in 1 .. n + 1
             /\ Tail(SubSeq(L, i, n)) = SubSeq(L, i + 1, n)
             /\ Len(SubSeq(L, i, n)) # 1 => Tail(SubSeq(L, i, n)) # <<>>
  <2>1. i <= n
    BY <1>1, <1>3
  <2> DEFINE s == SubSeq(L, i, n)
  <2>2. s \in Seq(P) /\ Len(s) = n - i + 1 /\ \A j \in 1 .. n - i + 1 : s[j] = L[i + j - 1]
    BY <1>1, <2>1
  <2>3. Head(s) \in P /\ Len(s) \in Nat \ {0} /\ i + 1 \in 1 .. n + 1
    BY <1>1, <2>1, <2>2
  <2> DEFINE t == SubSeq(L, i + 1, n)
  <2>4. t \in Seq(P) /\ Len(t) = n - i /\ \A j \in 1 .. n - i : t[j] = L[i + j]
    <3>1. /\ i + 1 \in Int /\ n \in Int /\ \A j \in i + 1 .. n : L[j] \in P
      BY <1>1, <2>1
    <3>2. /\ t \in Seq(P) /\ Len(t) = IF i + 1 <= n THEN n - (i + 1) + 1 ELSE 0
          /\ \A j \in 1 .. n - (i + 1) + 1 : t[j] = L[(i + 1) + j - 1]
      BY <3>1, SubSeqProperties
    <3> HIDE DEF t
    <3>3. n - (i + 1) + 1 = n - i /\ \A j \in 1 .. n - i : (i + 1) + j - 1 = i + j
      BY <1>1, <2>1
    <3>4. Len(t) = n - i
      BY <1>1, <2>1, <3>2
    <3> QED
      BY <3>2, <3>3, <3>4
  <2>5. Tail(s) \in Seq(P) /\ Len(Tail(s)) = n - i /\ \A j \in 1 .. n - i : Tail(s)[j] = s[j + 1]
    <3>1. Len(s) # 0 /\ Len(s) - 1 = n - i /\ Len(s) \in Nat
      BY <1>1, <2>1, <2>2
    <3> HIDE DEF s
    <3>2. /\ Tail(s) \in Seq(P) /\ Len(Tail(s)) = Len(s) - 1
          /\ \A j \in 1 .. Len(s) - 1 : Tail(s)[j] = s[j + 1]
      BY <2>2, <3>1
    <3> QED
      BY <3>1, <3>2
  <2>6. \A j \in 1 .. n - i : Tail(s)[j] = t[j]
    <3> TAKE j \in 1 .. n - i
    <3>1. j + 1 \in 1 .. n - i + 1 /\ i + (j + 1) - 1 = i + j
      BY <1>1, <2>1
    <3> HIDE DEF s, t
    <3> QED
      BY <2>2, <2>4, <2>5, <3>1
  <2> HIDE DEF s, t
  <2>7. Tail(s) = t
    BY <2>4, <2>5, <2>6, <2>1, <1>1
  <2>8. Len(s) # 1 => Tail(s) # <<>>
    <3>1. Tail(s) = <<>> => n - i = 0
      BY <2>5
    <3> QED
      BY <2>2, <3>1
  <2> QED
    BY <2>3, <2>7, <2>8 DEF s, t
<1>4. 1 \in 1 .. n + 1 /\ n + 1 \in 1 .. n + 1
  BY <1>1
<1>5. ProbesLeft = {SubSeq(L, i, n) : i \in 1 .. n + 1}
  BY DEF ProbesLeft, L, n
<1>6. L \in ProbesLeft /\ <<>> \in ProbesLeft
  BY <1>2, <1>4, <1>5
<1>7. ASSUME NEW s \in ProbesLeft, s # <<>>
      PROVE  /\ Len(s) \in Nat \ {0} /\ Head(s) \in P /\ Tail(s) \in ProbesLeft
             /\ Len(s) # 1 => Tail(s) # <<>>
  <2>1. PICK i \in 1 .. n + 1 : s = SubSeq(L, i, n)
    BY <1>5
  <2> QED
    BY <1>3, <1>5, <1>7, <2>1
<1> QED
  BY <1>6, <1>7 DEF L, P

-----------------------------------------------------------------------------
(* The monitor's invariant                                                 *)

RelayHealth == [up : BOOLEAN, backlog : BOOLEAN, errors : 0 .. MaxErrors]

HealthOf(f) ==
  [relay : [f.relays -> RelayHealth],
   cosigner : [f.cosigners -> BOOLEAN], rpc : BOOLEAN, newBlock : BOOLEAN,
   low : [f.accounts -> BOOLEAN]]

\* What the probes read and remember.
Watched ==
  /\ watched \in Fleets
  /\ health \in HealthOf(watched)
  /\ prevErrors \in [watched.relays -> -1 .. MaxErrors]
  /\ stallCycles \in 0 .. CHAIN_STALL_CYCLES

\* A cycle that probes has a probe left.
Cycles ==
  /\ cycles \in [1 .. MaxOverlap -> CycleType]
  /\ \A k \in 1 .. MaxOverlap : cycles[k].pc = "probe" => cycles[k].probes # <<>>

Alerts ==
  /\ issues \subseteq IssuesOf(watched)
  /\ alerted \in [IssuesOf(watched) -> {"FIRING", "RESOLVED"}]
  /\ noted \in {"apart", "repeated", "overlapped"}

(***************************************************************************)
(* As long as no cycles have overlapped, one runs at most, and what it has *)
(* listed to be resolved is still active.                                  *)
(***************************************************************************)
Apart ==
  noted = "apart" =>
    /\ \A j, k \in 1 .. MaxOverlap :
         cycles[j].pc # "idle" /\ cycles[k].pc # "idle" => j = k
    /\ \A k \in 1 .. MaxOverlap : cycles[k].pc = "resolve" => cycles[k].todo \subseteq issues

Reconciled == Cycles /\ Alerts /\ Apart /\ AlertsMatchIssues

MonitorInv == Watched /\ Reconciled

\* The records a cycle goes through are cycles.
LEMMA CycleRecords ==
  ASSUME watched \in Fleets, NEW pc \in {"idle", "probe", "fire", "resolve"},
         NEW probes \in ProbesLeft, NEW current \in SUBSET IssuesOf(watched),
         NEW todo \in SUBSET IssuesOf(watched)
  PROVE  [pc |-> pc, probes |-> probes, current |-> current, todo |-> todo] \in CycleType
  BY DEF CycleType, ProbesLeft

\* A cycle at rest is one.
LEMMA IdleOK ==
  ASSUME watched \in Fleets
  PROVE  Idle \in CycleType /\ Idle.pc = "idle"
<1>1. <<>> \in ProbesLeft
  BY ProbesLeftOK
<1> QED
  BY <1>1, CycleRecords DEF Idle

\* A cycle goes on, the others stay.
LEMMA ContinuesOK ==
  ASSUME watched \in Fleets, watched' = watched, Cycles,
         NEW k \in 1 .. MaxOverlap, NEW c \in CycleType,
         c.pc = "probe" => c.probes # <<>>, Continues(k, c)
  PROVE  /\ Cycles'
         /\ \A j \in 1 .. MaxOverlap : cycles'[j] = IF j = k THEN c ELSE cycles[j]
<1>1. \A j \in 1 .. MaxOverlap : cycles'[j] = IF j = k THEN c ELSE cycles[j]
  BY DEF Continues, Cycles
<1>2. CycleType' = CycleType
  BY DEF CycleType, ProbeList
<1>3. cycles' \in [1 .. MaxOverlap -> CycleType]
  BY DEF Continues, Cycles
<1> QED
  BY <1>1, <1>2, <1>3 DEF Cycles

\* Nothing is listed, alerted or resolved.
LEMMA NothingReconciled ==
  ASSUME watched \in Fleets, watched' = watched, Reconciled,
         NEW k \in 1 .. MaxOverlap, cycles[k].pc # "idle", NEW c \in CycleType,
         c.pc \in {"idle", "probe"}, c.pc = "probe" => c.probes # <<>>,
         Continues(k, c), UNCHANGED reconciled
  PROVE  Reconciled'
<1>1. issues' = issues /\ alerted' = alerted /\ noted' = noted
  BY DEF reconciled
<1>2. /\ Cycles'
      /\ \A j \in 1 .. MaxOverlap : cycles'[j] = IF j = k THEN c ELSE cycles[j]
  BY ContinuesOK DEF Reconciled
<1>3. Alerts'
  BY <1>1 DEF Reconciled, Alerts
<1>4. Apart'
  BY <1>1, <1>2 DEF Reconciled, Apart
<1>5. AlertsMatchIssues'
  BY <1>1 DEF Reconciled, AlertsMatchIssues
<1> QED
  BY <1>2, <1>3, <1>4, <1>5 DEF Reconciled

(***************************************************************************)
(* The second loop: what it resolves is listed; as long as no cycles have  *)
(* overlapped it is still active, so the alert does not repeat one.        *)
(***************************************************************************)
LEMMA ResolveKeeps ==
  ASSUME watched \in Fleets, watched' = watched, Reconciled,
         NEW k \in 1 .. MaxOverlap, cycles[k].pc # "idle",
         NEW current \in SUBSET IssuesOf(watched),
         NEW listed \in SUBSET IssuesOf(watched),
         noted = "apart" => listed \subseteq issues,
         Resolve(k, current, listed)
  PROVE  Reconciled'
<1>1. CASE listed \subseteq current
  <2>1. Continues(k, Idle) /\ UNCHANGED reconciled
    BY <1>1 DEF Resolve
  <2> QED
    BY <2>1, IdleOK, NothingReconciled
<1>2. CASE ~(listed \subseteq current)
  <2> DEFINE next(i) == [pc |-> "resolve", probes |-> <<>>,
                         current |-> current, todo |-> listed \ {i}]
  <2>1. PICK i \in listed \ current :
          /\ issues' = issues \ {i}
          /\ Alert("RESOLVED", i)
          /\ Continues(k, next(i))
    BY <1>2 DEF Resolve
  <2> DEFINE c == next(i)
  <2>2. <<>> \in ProbesLeft /\ listed \ {i} \in SUBSET IssuesOf(watched)
    BY ProbesLeftOK
  <2>3. c \in CycleType
    BY <2>2, CycleRecords
  <2>4. c.pc = "resolve" /\ c.todo = listed \ {i}
    OBVIOUS
  <2> HIDE DEF c
  <2>5. /\ Cycles'
        /\ \A j \in 1 .. MaxOverlap : cycles'[j] = IF j = k THEN c ELSE cycles[j]
    <3>1. Continues(k, c)
      BY <2>1 DEF c
    <3> QED
      BY <2>3, <2>4, <3>1, ContinuesOK DEF Reconciled
  <2>6. /\ alerted' = [alerted EXCEPT ![i] = "RESOLVED"]
        /\ noted' = IF noted = "apart" /\ alerted[i] = "RESOLVED"
                    THEN "repeated" ELSE noted
    BY <2>1 DEF Alert
  <2>7. i \in IssuesOf(watched) /\ IssuesOf(watched)' = IssuesOf(watched)
    BY DEF IssuesOf
  <2>8. Alerts'
    BY <2>1, <2>6, <2>7 DEF Reconciled, Alerts
  <2>9. noted = "apart" => alerted[i] = "FIRING"
    BY <2>1, <2>7 DEF Reconciled, AlertsMatchIssues
  <2>10. AlertsMatchIssues'
    BY <2>1, <2>6, <2>7, <2>9 DEF Reconciled, Alerts, AlertsMatchIssues
  <2>11. Apart'
    BY <2>1, <2>4, <2>5, <2>6, <2>9 DEF Reconciled, Apart
  <2> QED
    BY <2>5, <2>8, <2>10, <2>11 DEF Reconciled
<1> QED
  BY <1>1, <1>2

(***************************************************************************)
(* The first loop: what it fires is not active, so its last alert was not  *)
(* FIRING; when nothing is left to fire the second loop lists the issues.  *)
(***************************************************************************)
LEMMA FireKeeps ==
  ASSUME watched \in Fleets, watched' = watched, Reconciled,
         NEW k \in 1 .. MaxOverlap, cycles[k].pc # "idle",
         NEW current \in SUBSET IssuesOf(watched),
         NEW todo \in SUBSET IssuesOf(watched),
         Fire(k, current, todo)
  PROVE  Reconciled'
<1>1. CASE todo \subseteq issues
  <2>1. Resolve(k, current, issues) /\ issues \in SUBSET IssuesOf(watched)
    BY <1>1 DEF Fire, Reconciled, Alerts
  <2> QED
    BY <2>1, ResolveKeeps
<1>2. CASE ~(todo \subseteq issues)
  <2> DEFINE next(i, passed) == [pc |-> "fire", probes |-> <<>>, current |-> current,
                                 todo |-> todo \ ({i} \cup passed)]
  <2>1. PICK i \in todo \ issues, passed \in SUBSET (todo \cap issues) :
          /\ issues' = issues \cup {i}
          /\ Alert("FIRING", i)
          /\ Continues(k, next(i, passed))
    BY <1>2 DEF Fire
  <2> DEFINE c == next(i, passed)
  <2>2. <<>> \in ProbesLeft /\ todo \ ({i} \cup passed) \in SUBSET IssuesOf(watched)
    BY ProbesLeftOK
  <2>3. c \in CycleType
    BY <2>2, CycleRecords
  <2>4. c.pc = "fire"
    OBVIOUS
  <2> HIDE DEF c
  <2>5. /\ Cycles'
        /\ \A j \in 1 .. MaxOverlap : cycles'[j] = IF j = k THEN c ELSE cycles[j]
    <3>1. Continues(k, c)
      BY <2>1 DEF c
    <3> QED
      BY <2>3, <2>4, <3>1, ContinuesOK DEF Reconciled
  <2>6. /\ alerted' = [alerted EXCEPT ![i] = "FIRING"]
        /\ noted' = IF noted = "apart" /\ alerted[i] = "FIRING"
                    THEN "repeated" ELSE noted
    BY <2>1 DEF Alert
  <2>7. i \in IssuesOf(watched) /\ IssuesOf(watched)' = IssuesOf(watched)
    BY DEF IssuesOf
  <2>8. Alerts'
    BY <2>1, <2>6, <2>7 DEF Reconciled, Alerts
  <2>9. alerted[i] # "FIRING"
    BY <2>1, <2>7 DEF Reconciled, AlertsMatchIssues
  <2>10. AlertsMatchIssues'
    BY <2>1, <2>6, <2>7, <2>9 DEF Reconciled, Alerts, AlertsMatchIssues
  <2>11. Apart'
    BY <2>1, <2>4, <2>5, <2>6, <2>9 DEF Reconciled, Apart
  <2> QED
    BY <2>5, <2>8, <2>10, <2>11 DEF Reconciled
<1> QED
  BY <1>1, <1>2

\* A cycle moves on to its next probe.
LEMMA NextProbeOK ==
  ASSUME watched \in Fleets, NEW c \in CycleType, c.pc = "probe",
         c.probes # <<>>, Len(c.probes) # 1, NEW current \in SUBSET IssuesOf(watched)
  PROVE  LET d == [c EXCEPT !.probes = Tail(@), !.current = current]
         IN  d \in CycleType /\ d.pc = "probe" /\ d.probes # <<>>
<1>1. c.probes \in ProbesLeft
  BY DEF CycleType, ProbesLeft
<1>2. Tail(c.probes) \in ProbesLeft /\ Tail(c.probes) # <<>>
  BY <1>1, ProbesLeftOK
<1> DEFINE t == Tail(c.probes)
<1> HIDE DEF t
<1>3. [c EXCEPT !.probes = t, !.current = current] \in CycleType
  BY <1>2 DEF CycleType, ProbesLeft, t
<1>4. /\ [c EXCEPT !.probes = t, !.current = current].pc = "probe"
      /\ [c EXCEPT !.probes = t, !.current = current].probes = t
  BY DEF CycleType
<1> QED
  BY <1>2, <1>3, <1>4 DEF t

\* A probe's return: on to the next one, or to the first loop.
LEMMA SawKeeps ==
  ASSUME watched \in Fleets, watched' = watched, Reconciled,
         NEW k \in 1 .. MaxOverlap, cycles[k].pc = "probe",
         NEW seen \in SUBSET IssuesOf(watched), Saw(k, seen)
  PROVE  Reconciled'
<1> DEFINE c == cycles[k]
           current == c.current \cup seen
           d == [c EXCEPT !.probes = Tail(@), !.current = current]
<1>1. c \in CycleType /\ c.probes # <<>> /\ c.probes \in ProbesLeft
      /\ current \in SUBSET IssuesOf(watched)
  BY DEF Reconciled, Cycles, CycleType, ProbesLeft
<1>2. CASE Len(c.probes) = 1
  <2>1. Fire(k, current, current)
    BY <1>2 DEF Saw
  <2> HIDE DEF current
  <2> QED
    BY <1>1, <2>1, FireKeeps
<1>3. CASE Len(c.probes) # 1
  <2>1. Continues(k, d) /\ UNCHANGED reconciled
    BY <1>3 DEF Saw
  <2>2. d \in CycleType /\ d.pc = "probe" /\ d.probes # <<>>
    <3> HIDE DEF current
    <3> QED
      BY <1>1, <1>3, NextProbeOK
  <2> HIDE DEF d
  <2> QED
    BY <2>1, <2>2, NothingReconciled
<1> QED
  BY <1>2, <1>3

-----------------------------------------------------------------------------
(* The monitor's steps                                                     *)

\* The head of a probing cycle's list is a probe of the watched fleet.
LEMMA ProbingOK ==
  ASSUME MonitorInv, NEW k \in 1 .. MaxOverlap, NEW kind, Probing(k, kind)
  PROVE  /\ cycles[k].pc = "probe"
         /\ \/ kind = "relay" /\ Head(cycles[k].probes).who \in watched.relays
            \/ kind = "cosigner" /\ Head(cycles[k].probes).who \in watched.cosigners
            \/ kind = "chain"
            \/ kind = "gas" /\ Head(cycles[k].probes).who \in watched.accounts
<1>1. cycles[k].pc = "probe" /\ Head(cycles[k].probes).kind = kind
  BY DEF Probing
<1>2. cycles[k].probes \in ProbesLeft /\ cycles[k].probes # <<>>
  BY <1>1 DEF MonitorInv, Reconciled, Cycles, CycleType, ProbesLeft
<1>3. Head(cycles[k].probes) \in ProbesOf(watched)
  BY <1>2, ProbesLeftOK DEF MonitorInv, Watched
<1> QED
  BY <1>1, <1>3 DEF ProbesOf, ProbesFor

\* Every alert of a cycle keeps the alerts in step.
LEMMA AlertReturnsKeeps ==
  ASSUME MonitorInv, NEW k \in 1 .. MaxOverlap, AlertReturns(k)
  PROVE  MonitorInv'
<1>1. watched \in Fleets /\ watched' = watched /\ Reconciled
  BY DEF AlertReturns, MonitorInv, Watched
<1>2. Watched'
  BY DEF AlertReturns, MonitorInv, Watched, HealthOf
<1>3. cycles[k].current \in SUBSET IssuesOf(watched)
      /\ cycles[k].todo \in SUBSET IssuesOf(watched)
  BY DEF MonitorInv, Reconciled, Cycles, CycleType
<1>4. CASE cycles[k].pc = "fire"
  <2>1. Fire(k, cycles[k].current, cycles[k].todo)
    BY <1>4 DEF AlertReturns
  <2> QED
    BY <1>1, <1>2, <1>3, <1>4, <2>1, FireKeeps DEF MonitorInv
<1>5. CASE cycles[k].pc = "resolve"
  <2>1. Resolve(k, cycles[k].current, cycles[k].todo)
    BY <1>5 DEF AlertReturns
  <2>2. noted = "apart" => cycles[k].todo \subseteq issues
    BY <1>5 DEF MonitorInv, Reconciled, Apart
  <2> QED
    BY <1>1, <1>2, <1>3, <1>5, <2>1, <2>2, ResolveKeeps DEF MonitorInv
<1> QED
  BY <1>4, <1>5 DEF AlertReturns

\* A cycle that starts while another runs makes them overlap.
LEMMA StartCycleKeeps ==
  ASSUME MonitorInv, NEW k \in 1 .. MaxOverlap, StartCycle(k)
  PROVE  MonitorInv'
<1> DEFINE c == [pc |-> "probe", probes |-> ProbeList, current |-> {}, todo |-> {}]
<1>1. watched \in Fleets /\ watched' = watched
  BY DEF StartCycle, MonitorInv, Watched
<1>2. Watched'
  BY DEF StartCycle, MonitorInv, Watched, HealthOf
<1>3. c \in CycleType
  BY <1>1, ProbesLeftOK, CycleRecords
<1>4. ProbeList # <<>>
  BY <1>1, ProbeListOK
<1>5. Continues(k, c)
  BY DEF StartCycle
<1>6. c.pc = "probe" /\ c.probes # <<>>
  BY <1>4
<1> HIDE DEF c
<1>7. /\ Cycles'
      /\ \A j \in 1 .. MaxOverlap : cycles'[j] = IF j = k THEN c ELSE cycles[j]
  BY <1>1, <1>3, <1>5, <1>6, ContinuesOK DEF MonitorInv, Reconciled
<1>8. Alerts' /\ AlertsMatchIssues'
  BY <1>1 DEF StartCycle, MonitorInv, Reconciled, Alerts, AlertsMatchIssues, IssuesOf
<1>9. Apart'
  <2> SUFFICES ASSUME noted' = "apart"
               PROVE  \A j \in 1 .. MaxOverlap : cycles[j].pc = "idle"
    BY <1>6, <1>7 DEF Apart
  <2>1. DOMAIN cycles = 1 .. MaxOverlap
    BY DEF MonitorInv, Reconciled, Cycles
  <2>2. ~\E j \in DOMAIN cycles : cycles[j].pc # "idle"
    BY DEF StartCycle
  <2> QED
    BY <2>1, <2>2
<1> QED
  BY <1>2, <1>7, <1>8, <1>9 DEF MonitorInv, Reconciled

\* A relay's probe.
LEMMA ProbeRelayKeeps ==
  ASSUME MonitorInv, NEW k \in 1 .. MaxOverlap, ProbeRelay(k)
  PROVE  MonitorInv'
<1> DEFINE n == Head(cycles[k].probes).who
           h == health.relay[n]
<1>1. cycles[k].pc = "probe" /\ n \in watched.relays
  <2>1. Probing(k, "relay")
    BY DEF ProbeRelay
  <2> QED
    BY <2>1, ProbingOK
<1>2. watched \in Fleets /\ watched' = watched /\ Reconciled
      /\ health' = health /\ stallCycles' = stallCycles
  BY DEF ProbeRelay, MonitorInv, Watched
<1>3. h.errors \in 0 .. MaxErrors
  BY <1>1 DEF MonitorInv, Watched, HealthOf, RelayHealth
<1>4. \A what \in {"relay.down", "relay.backlog", "relay.errors"} :
        Issue(what, n) \in IssuesOf(watched)
  BY <1>1 DEF IssuesOf
<1> DEFINE seen == When(h.backlog, "relay.backlog", n)
                   \cup When(NewErrors(n) >= ErrorBurst, "relay.errors", n)
           down == {Issue("relay.down", n)}
<1>5. seen \in SUBSET IssuesOf(watched) /\ down \in SUBSET IssuesOf(watched)
  BY <1>4 DEF When
<1>6. /\ Saw(k, seen) \/ Saw(k, down)
      /\ prevErrors' = prevErrors \/ prevErrors' = [prevErrors EXCEPT ![n] = h.errors]
  BY DEF ProbeRelay
<1> HIDE DEF seen, down
<1>7. Reconciled'
  BY <1>1, <1>2, <1>5, <1>6, SawKeeps
<1>8. prevErrors' \in [watched.relays -> -1 .. MaxErrors]
  <2>1. h.errors \in -1 .. MaxErrors
    <3> DEFINE x == h.errors
    <3>1. x \in 0 .. MaxErrors /\ MaxErrors \in Nat
      BY <1>3, MonitorAssumption
    <3> HIDE DEF x
    <3>2. x \in -1 .. MaxErrors
      BY <3>1
    <3> QED
      BY <3>2 DEF x
  <2> HIDE DEF h
  <2> QED
    BY <1>6, <2>1 DEF MonitorInv, Watched
<1>9. Watched'
  BY <1>2, <1>8 DEF MonitorInv, Watched, HealthOf
<1> QED
  BY <1>7, <1>9 DEF MonitorInv

\* A co-signer's probe.
LEMMA ProbeCosignerKeeps ==
  ASSUME MonitorInv, NEW k \in 1 .. MaxOverlap, ProbeCosigner(k)
  PROVE  MonitorInv'
<1> DEFINE n == Head(cycles[k].probes).who
           seen == When(~health.cosigner[n], "cosigner.down", n)
<1>1. cycles[k].pc = "probe" /\ n \in watched.cosigners
  BY ProbingOK DEF ProbeCosigner
<1>2. watched \in Fleets /\ watched' = watched /\ Reconciled
  BY DEF ProbeCosigner, MonitorInv, Watched
<1>3. Watched'
  BY DEF ProbeCosigner, MonitorInv, Watched, HealthOf
<1>4. seen \in SUBSET IssuesOf(watched)
  BY <1>1 DEF When, IssuesOf
<1>5. Saw(k, seen)
  BY DEF ProbeCosigner
<1> HIDE DEF seen
<1>6. Reconciled'
  BY <1>1, <1>2, <1>4, <1>5, SawKeeps
<1> QED
  BY <1>3, <1>6 DEF MonitorInv

\* An account's probe.
LEMMA ProbeGasKeeps ==
  ASSUME MonitorInv, NEW k \in 1 .. MaxOverlap, ProbeGas(k)
  PROVE  MonitorInv'
<1> DEFINE n == Head(cycles[k].probes).who
           seen == When(health.rpc /\ health.low[n], "gas.low", n)
<1>1. cycles[k].pc = "probe" /\ n \in watched.accounts
  BY ProbingOK DEF ProbeGas
<1>2. watched \in Fleets /\ watched' = watched /\ Reconciled
  BY DEF ProbeGas, MonitorInv, Watched
<1>3. Watched'
  BY DEF ProbeGas, MonitorInv, Watched, HealthOf
<1>4. seen \in SUBSET IssuesOf(watched)
  BY <1>1 DEF When, IssuesOf
<1>5. Saw(k, seen)
  BY DEF ProbeGas
<1> HIDE DEF seen
<1>6. Reconciled'
  BY <1>1, <1>2, <1>4, <1>5, SawKeeps
<1> QED
  BY <1>3, <1>6 DEF MonitorInv

\* The chain's probe.
LEMMA ProbeChainKeeps ==
  ASSUME MonitorInv, NEW k \in 1 .. MaxOverlap, ProbeChain(k)
  PROVE  MonitorInv'
<1> DEFINE seen == IF ~health.rpc THEN {Rpc}
                   ELSE IF stallCycles' >= CHAIN_STALL_CYCLES THEN {Stalled} ELSE {}
<1>1. cycles[k].pc = "probe"
  BY ProbingOK DEF ProbeChain
<1>2. watched \in Fleets /\ watched' = watched /\ Reconciled
  BY DEF ProbeChain, MonitorInv, Watched
<1>3. stallCycles' \in 0 .. CHAIN_STALL_CYCLES
  BY MonitorAssumption DEF ProbeChain, MonitorInv, Watched, Saturated
<1>4. health' \in HealthOf(watched)
  BY DEF ProbeChain, MonitorInv, Watched, HealthOf
<1>5. Watched'
  BY <1>2, <1>3, <1>4 DEF ProbeChain, MonitorInv, Watched, HealthOf
<1>6. seen \in SUBSET IssuesOf(watched)
  BY DEF IssuesOf
<1>7. Saw(k, seen)
  BY DEF ProbeChain
<1> HIDE DEF seen
<1>8. PICK s \in SUBSET IssuesOf(watched) : Saw(k, s)
  BY <1>6, <1>7
<1>9. Reconciled'
  BY <1>1, <1>2, <1>8, SawKeeps
<1> QED
  BY <1>5, <1>9 DEF MonitorInv

\* One part of what the services answer changes.
LEMMA HealthParts ==
  ASSUME NEW f, NEW h \in HealthOf(f), NEW v \in BOOLEAN
  PROVE  /\ \A n \in f.cosigners : [h EXCEPT !.cosigner[n] = v] \in HealthOf(f)
         /\ [h EXCEPT !.rpc = v] \in HealthOf(f)
         /\ [h EXCEPT !.newBlock = v] \in HealthOf(f)
         /\ \A n \in f.accounts : [h EXCEPT !.low[n] = v] \in HealthOf(f)
         /\ \A n \in f.relays, r \in RelayHealth :
              [h EXCEPT !.relay[n] = r] \in HealthOf(f)
<1>1. \A n \in f.cosigners : [h EXCEPT !.cosigner[n] = v] \in HealthOf(f)
  <2> TAKE n \in f.cosigners
  <2>1. [h.cosigner EXCEPT ![n] = v] \in [f.cosigners -> BOOLEAN]
    BY DEF HealthOf
  <2> QED
    BY <2>1 DEF HealthOf
<1>2. [h EXCEPT !.rpc = v] \in HealthOf(f) /\ [h EXCEPT !.newBlock = v] \in HealthOf(f)
  BY DEF HealthOf
<1>3. \A n \in f.accounts : [h EXCEPT !.low[n] = v] \in HealthOf(f)
  <2> TAKE n \in f.accounts
  <2>1. [h.low EXCEPT ![n] = v] \in [f.accounts -> BOOLEAN]
    BY DEF HealthOf
  <2> QED
    BY <2>1 DEF HealthOf
<1>4. \A n \in f.relays, r \in RelayHealth : [h EXCEPT !.relay[n] = r] \in HealthOf(f)
  <2> TAKE n \in f.relays, r \in RelayHealth
  <2>1. [h.relay EXCEPT ![n] = r] \in [f.relays -> RelayHealth]
    BY DEF HealthOf
  <2> QED
    BY <2>1 DEF HealthOf
<1> QED
  BY <1>1, <1>2, <1>3, <1>4

\* Nothing that changes in the fleet is an alert.
LEMMA FleetChangesKeeps ==
  ASSUME MonitorInv, FleetChanges
  PROVE  MonitorInv'
<1>1. /\ watched' = watched /\ prevErrors' = prevErrors
      /\ stallCycles' = stallCycles /\ cycles' = cycles
      /\ issues' = issues /\ alerted' = alerted /\ noted' = noted
  BY DEF FleetChanges, reconciled
<1>2. health' \in HealthOf(watched)
  <2>1. health \in HealthOf(watched) /\ MaxErrors \in Nat
    BY MonitorAssumption DEF MonitorInv, Watched
  <2>2. ASSUME NEW n \in watched.relays, RelayChanges(n)
        PROVE  health' \in HealthOf(watched)
    <3>1. \A r \in RelayHealth : [health EXCEPT !.relay[n] = r] \in HealthOf(watched)
      BY <2>1, HealthParts
    <3>2. health.relay[n] \in RelayHealth
      BY <2>1 DEF HealthOf
    <3> DEFINE h == health.relay[n]
    <3>3. ASSUME NEW up \in BOOLEAN, NEW backlog \in BOOLEAN,
                 health' = [health EXCEPT !.relay[n] = [@ EXCEPT !.up = up, !.backlog = backlog]]
          PROVE  health' \in HealthOf(watched)
      <4> DEFINE r == [h EXCEPT !.up = up, !.backlog = backlog]
      <4>1. r \in RelayHealth /\ health' = [health EXCEPT !.relay[n] = r]
        BY <3>2, <3>3 DEF RelayHealth
      <4> HIDE DEF r
      <4> QED
        BY <3>1, <4>1
    <3>4. ASSUME health.relay[n].errors < MaxErrors,
                 health' = [health EXCEPT !.relay[n] =
                           [@ EXCEPT !.errors = health.relay[n].errors + 1]]
          PROVE  health' \in HealthOf(watched)
      <4> DEFINE r == [h EXCEPT !.errors = h.errors + 1]
      <4>1. r \in RelayHealth
        <5>1. h \in RelayHealth /\ h.errors < MaxErrors
          BY <3>2, <3>4
        <5> HIDE DEF h
        <5>2. h.errors + 1 \in 0 .. MaxErrors
          BY <2>1, <5>1 DEF RelayHealth
        <5> QED
          BY <5>1, <5>2 DEF RelayHealth
      <4>2. health' = [health EXCEPT !.relay[n] = r]
        BY <3>4
      <4> HIDE DEF r
      <4> QED
        BY <3>1, <4>1, <4>2
    <3>5. ASSUME health' = [health EXCEPT !.relay[n] =
                              [up |-> FALSE, backlog |-> FALSE, errors |-> 0]]
          PROVE  health' \in HealthOf(watched)
      <4> DEFINE r == [up |-> FALSE, backlog |-> FALSE, errors |-> 0]
      <4>1. r \in RelayHealth /\ health' = [health EXCEPT !.relay[n] = r]
        BY <2>1, <3>5 DEF RelayHealth
      <4> HIDE DEF r
      <4> QED
        BY <3>1, <4>1
    <3> QED
      BY <2>2, <3>3, <3>4, <3>5 DEF RelayChanges
  <2>3. ASSUME NEW n \in watched.cosigners, health' = [health EXCEPT !.cosigner[n] = ~@]
        PROVE  health' \in HealthOf(watched)
    <3> DEFINE v == ~health.cosigner[n]
    <3>1. health' = [health EXCEPT !.cosigner[n] = v] /\ v \in BOOLEAN
      BY <2>3
    <3> HIDE DEF v
    <3> QED
      BY <2>1, <3>1, HealthParts
  <2>4. ASSUME \/ health' = [health EXCEPT !.rpc = ~@]
               \/ health' = [health EXCEPT !.newBlock = TRUE]
        PROVE  health' \in HealthOf(watched)
    <3> DEFINE v == ~health.rpc
    <3>1. /\ v \in BOOLEAN
          /\ \/ health' = [health EXCEPT !.rpc = v]
             \/ health' = [health EXCEPT !.newBlock = TRUE]
      BY <2>4
    <3> HIDE DEF v
    <3> QED
      BY <2>1, <3>1, HealthParts
  <2>5. ASSUME NEW n \in watched.accounts, health' = [health EXCEPT !.low[n] = ~@]
        PROVE  health' \in HealthOf(watched)
    <3> DEFINE v == ~health.low[n]
    <3>1. health' = [health EXCEPT !.low[n] = v] /\ v \in BOOLEAN
      BY <2>5
    <3> HIDE DEF v
    <3> QED
      BY <2>1, <3>1, HealthParts
  <2> QED
    BY <2>2, <2>3, <2>4, <2>5 DEF FleetChanges
<1>3. Watched'
  BY <1>1, <1>2 DEF MonitorInv, Watched, HealthOf
<1>4. Reconciled'
  BY <1>1 DEF MonitorInv, Reconciled, Cycles, CycleType, ProbeList, Alerts, Apart,
              AlertsMatchIssues, IssuesOf
<1> QED
  BY <1>3, <1>4 DEF MonitorInv

\* Every step of the monitor and of the fleet keeps the invariant.
LEMMA MonitorInvStep ==
  ASSUME MonitorInv, MonitorNext
  PROVE  MonitorInv'
<1>1. CASE FleetChanges
  BY <1>1, FleetChangesKeeps
<1>2. ASSUME NEW k \in 1 .. MaxOverlap, StartCycle(k) \/ CycleStep(k)
      PROVE  MonitorInv'
  BY <1>2, StartCycleKeeps, AlertReturnsKeeps, ProbeRelayKeeps, ProbeCosignerKeeps,
     ProbeChainKeeps, ProbeGasKeeps DEF CycleStep
<1> QED
  BY <1>1, <1>2 DEF MonitorNext

\* No issue is active when the monitor starts.
LEMMA MonitorInvInit == MonitorInit => MonitorInv
<1> SUFFICES ASSUME MonitorInit PROVE MonitorInv
  OBVIOUS
<1>1. Watched
  <2>1. /\ watched \in Fleets
        /\ prevErrors \in [watched.relays -> -1 .. MaxErrors]
        /\ stallCycles \in 0 .. CHAIN_STALL_CYCLES
    BY MonitorAssumption DEF MonitorInit
  <2>2. health \in HealthOf(watched)
    BY MonitorAssumption DEF MonitorInit, HealthOf, RelayHealth
  <2> QED
    BY <2>1, <2>2 DEF Watched
<1>2. Cycles /\ \A k \in 1 .. MaxOverlap : cycles[k].pc = "idle"
  <2>1. Idle \in CycleType /\ Idle.pc = "idle"
    BY <1>1, IdleOK DEF Watched
  <2> HIDE DEF Idle
  <2> QED
    BY <2>1 DEF MonitorInit, Cycles
<1>3. Alerts /\ AlertsMatchIssues
  BY DEF MonitorInit, Alerts, AlertsMatchIssues
<1>4. Apart
  BY <1>2 DEF Apart
<1> QED
  BY <1>1, <1>2, <1>3, <1>4 DEF MonitorInv, Reconciled

\* A step of the bot leaves the monitor as it is.
LEMMA MonitorInvStutters ==
  ASSUME MonitorInv, UNCHANGED monitorVars
  PROVE  MonitorInv'
<1>1. /\ watched' = watched /\ prevErrors' = prevErrors /\ health' = health
      /\ stallCycles' = stallCycles /\ cycles' = cycles
      /\ issues' = issues /\ alerted' = alerted /\ noted' = noted
  BY DEF monitorVars
<1>2. Watched'
  BY <1>1 DEF MonitorInv, Watched, HealthOf
<1>3. Reconciled /\ ProbeList' = ProbeList /\ IssuesOf(watched)' = IssuesOf(watched)
  BY <1>1 DEF MonitorInv, ProbeList, IssuesOf
<1>4. Cycles'
  BY <1>1, <1>3 DEF Reconciled, Cycles, CycleType, ProbesLeft
<1>5. Alerts' /\ Apart' /\ AlertsMatchIssues'
  BY <1>1, <1>3 DEF Reconciled, Alerts, Apart, AlertsMatchIssues
<1> QED
  BY <1>2, <1>4, <1>5 DEF MonitorInv, Reconciled

-----------------------------------------------------------------------------
(* The bot's targets                                                       *)

(***************************************************************************)
(* resolveTargets is a fold over the listed addresses.  As for the sums of *)
(* CollectionProofs, the library's recursion is shown to have a solution,  *)
(* and what it computes follows by induction on the subsets.               *)
(***************************************************************************)
Keep(kept, a) == IF a \in ToSet(kept) \cup {Master} THEN kept ELSE Append(kept, a)

\* g gives the targets among the first, second, ... as the recursion does.
Keeps(g, S) ==
  g = [s \in SUBSET S |->
         IF s = {} THEN <<>> ELSE Keep(g[s \ {Max(s)}], Listed[Max(s)])]

Keeper(S) == CHOOSE g : Keeps(g, S)

\* The targets among the addresses at the positions in S.
Kept(S) == Keeper(S)[S]

LEMMA TargetsKept == Targets = Kept(DOMAIN Listed)
  BY DEF Targets, FoldLeft, MapThenFoldSet, Kept, Keeper, Keeps, Keep

KeptAfter(s) == IF s = {} THEN <<>> ELSE Keep(Kept(s \ {Max(s)}), Listed[Max(s)])

\* The positions of the listed addresses.
LEMMA Positioned ==
  /\ DOMAIN Listed = 1 .. Len(Listed) /\ Len(Listed) \in Nat
  /\ IsFiniteSet(DOMAIN Listed)
  /\ \A T \in SUBSET DOMAIN Listed :
       T # {} => /\ Max(T) \in T /\ T \ {Max(T)} # T
                 /\ Listed[Max(T)] \in ToSet(Listed)
<1>1. DOMAIN Listed = 1 .. Len(Listed) /\ Len(Listed) \in Nat
  BY TopUpAssumption
<1>2. ASSUME NEW T \in SUBSET DOMAIN Listed, T # {} PROVE Max(T) \in T
  BY <1>1, <1>2, MaxIn
<1>3. IsFiniteSet(DOMAIN Listed)
  BY <1>1, FS_Interval
<1>4. \A i \in DOMAIN Listed : Listed[i] \in ToSet(Listed)
  BY DEF ToSet
<1> QED
  BY <1>1, <1>2, <1>3, <1>4

\* The recursion has a solution on T if it has one on all that is smaller.
LEMMA KeeperKeeps ==
  ASSUME NEW T \in SUBSET DOMAIN Listed,
         \A U \in SUBSET T : U # T => Kept(U) = KeptAfter(U)
  PROVE  Keeps(Keeper(T), T)
<1> DEFINE g == [s \in SUBSET T |-> KeptAfter(s)]
<1>1. ASSUME NEW s \in SUBSET T, s # {}
      PROVE  g[s \ {Max(s)}] = Kept(s \ {Max(s)})
  <2>1. s \ {Max(s)} \in SUBSET T /\ s \ {Max(s)} # T
    BY <1>1, Positioned
  <2> QED
    BY <2>1
<1>2. g = [s \in SUBSET T |->
             IF s = {} THEN <<>> ELSE Keep(g[s \ {Max(s)}], Listed[Max(s)])]
  BY <1>1 DEF KeptAfter
<1>3. Keeps(g, T)
  BY <1>2 DEF Keeps
<1> QED
  BY <1>3 DEF Keeper

\* What is kept of every subset is what the recursion says.
LEMMA KeptUnfolds == \A T \in SUBSET DOMAIN Listed : Kept(T) = KeptAfter(T)
<1> DEFINE D == DOMAIN Listed
           Good == {T \in SUBSET D : Kept(T) = KeptAfter(T)}
<1> SUFFICES ASSUME NEW T \in SUBSET D, \A U \in SUBSET T : U # T => U \in Good
             PROVE  T \in Good
  <2>1. IsFiniteSet(D)
    BY Positioned
  <2> HIDE DEF Good, D
  <2>2. SUBSET D \subseteq Good
    BY <2>1, SubsetInduction
  <2> QED
    BY <2>2 DEF Good, D
<1> DEFINE h == Keeper(T)
<1>1. Keeps(h, T)
  BY KeeperKeeps
<1>2. \A U \in SUBSET T :
        h[U] = IF U = {} THEN <<>> ELSE Keep(h[U \ {Max(U)}], Listed[Max(U)])
  <2> HIDE DEF h
  <2> QED
    BY <1>1 DEF Keeps
<1> DEFINE Same == {U \in SUBSET T : U # T => h[U] = Kept(U)}
<1>3. ASSUME NEW U \in SUBSET T, \A V \in SUBSET U : V # U => V \in Same
      PROVE  U \in Same
  <2> SUFFICES ASSUME U # T PROVE h[U] = Kept(U)
    OBVIOUS
  <2>1. Kept(U) = KeptAfter(U)
    OBVIOUS
  <2>2. CASE U = {}
    BY <2>1, <2>2, <1>2 DEF KeptAfter
  <2>3. CASE U # {}
    <3>1. /\ U \ {Max(U)} \in SUBSET U /\ U \ {Max(U)} # U
          /\ U \ {Max(U)} # T
      BY <2>3, Positioned
    <3>2. h[U \ {Max(U)}] = Kept(U \ {Max(U)})
      BY <3>1, <1>3
    <3> QED
      BY <2>1, <2>3, <3>2, <1>2 DEF KeptAfter
  <2> QED
    BY <2>2, <2>3
<1>4. IsFiniteSet(T)
  BY FS_Subset, Positioned
<1>5. SUBSET T \subseteq Same
  <2> HIDE DEF Same
  <2> QED
    BY <1>3, <1>4, SubsetInduction
<1>6. Kept(T) = h[T]
  BY DEF Kept
<1>7. CASE T = {}
  BY <1>6, <1>7, <1>2 DEF KeptAfter
<1>8. CASE T # {}
  <2>1. T \ {Max(T)} \in SUBSET T /\ T \ {Max(T)} # T
    BY <1>8, Positioned
  <2>2. h[T \ {Max(T)}] = Kept(T \ {Max(T)})
    BY <2>1, <1>5
  <2> QED
    BY <1>6, <1>8, <2>2, <1>2 DEF KeptAfter
<1> QED
  BY <1>7, <1>8

(***************************************************************************)
(* The targets are the listed addresses without the master, each once: at  *)
(* least one, and none is the master's.                                    *)
(***************************************************************************)
THEOREM TargetsOK ==
  /\ Targets \in Seq(Target)
  /\ Targets # <<>>
  /\ Target = ToSet(Listed) \ {Master}
  /\ \A i, j \in DOMAIN Targets : Targets[i] = Targets[j] => i = j
<1> DEFINE D == DOMAIN Listed
           A == ToSet(Listed)
           ListedAt(T) == {Listed[i] : i \in T}
           Once(s) == \A i, j \in DOMAIN s : s[i] = s[j] => i = j
           Good == {T \in SUBSET D : /\ Kept(T) \in Seq(A) /\ Once(Kept(T))
                                     /\ ToSet(Kept(T)) = ListedAt(T) \ {Master}}
<1>1. ASSUME NEW T \in SUBSET D, \A U \in SUBSET T : U # T => U \in Good
      PROVE  T \in Good
  <2>1. Kept(T) = KeptAfter(T)
    BY KeptUnfolds
  <2>2. CASE T = {}
    <3>1. Kept(T) = <<>> /\ ListedAt(T) = {}
      BY <2>1, <2>2 DEF KeptAfter
    <3>2. <<>> \in Seq(A) /\ Once(<<>>)
      OBVIOUS
    <3> QED
      BY <3>1, <3>2, ToSetEmpty
  <2>3. CASE T # {}
    <3> DEFINE m == Max(T)
               a == Listed[m]
               k == Kept(T \ {m})
    <3>1. m \in T /\ T \ {m} \in SUBSET T /\ T \ {m} # T /\ a \in A
      BY <2>3, Positioned
    <3>2. k \in Seq(A) /\ Once(k) /\ ToSet(k) = ListedAt(T \ {m}) \ {Master}
      BY <3>1, <1>1
    <3>3. ListedAt(T) = ListedAt(T \ {m}) \cup {a}
      BY <3>1
    <3>4. Kept(T) = Keep(k, a)
      BY <2>1, <2>3 DEF KeptAfter
    <3> HIDE DEF m, a, k, A
    <3>5. CASE a \in ToSet(k) \cup {Master}
      <4>1. Kept(T) = k
        BY <3>4, <3>5 DEF Keep
      <4> QED
        BY <4>1, <3>2, <3>3, <3>5
    <3>6. CASE a \notin ToSet(k) \cup {Master}
      <4>1. Kept(T) = Append(k, a)
        BY <3>4, <3>6 DEF Keep
      <4>2. ToSet(Append(k, a)) = ToSet(k) \cup {a} /\ Append(k, a) \in Seq(A)
        BY <3>1, <3>2, ToSetAppend
      <4>3. Once(Append(k, a))
        <5>1. /\ DOMAIN Append(k, a) = 1 .. Len(k) + 1 /\ DOMAIN k = 1 .. Len(k)
              /\ Len(k) \in Nat
              /\ \A i \in 1 .. Len(k) : Append(k, a)[i] = k[i] /\ k[i] # a
              /\ Append(k, a)[Len(k) + 1] = a
          BY <3>1, <3>2, <3>6 DEF ToSet
        <5> QED
          BY <5>1, <3>2
      <4> QED
        BY <4>1, <4>2, <4>3, <3>2, <3>3, <3>6
    <3> QED
      BY <3>5, <3>6
  <2> QED
    BY <2>2, <2>3
<1>2. SUBSET D \subseteq Good
  <2>1. IsFiniteSet(D)
    BY Positioned
  <2> HIDE DEF D, Good
  <2> QED
    BY <1>1, <2>1, SubsetInduction
<1>3. Targets \in Seq(A) /\ Once(Targets) /\ Target = ListedAt(D) \ {Master}
  BY <1>2, TargetsKept DEF Target
<1>4. ListedAt(D) = A
  BY DEF ToSet
<1>5. Target # {} /\ Target = A \ {Master}
  BY <1>3, <1>4, TopUpAssumption
<1>6. Targets # <<>>
  BY <1>5, ToSetEmpty DEF Target
<1>7. Targets \in Seq(Target)
  BY <1>3 DEF Target, ToSet
<1> QED
  BY <1>3, <1>5, <1>6, <1>7

-----------------------------------------------------------------------------
(* The bot's invariant                                                     *)

Payload == [to : Target, value : Nat]

Bot ==
  [pc : {"down", "sleep", "balance", "nonce", "target", "send", "confirm"},
   first : BOOLEAN, left : Seq(Target), masterWei : Nat, nonce : Nat, valueWei : Nat]

\* The node's pool holds payments, none with a nonce that is mined.
Pooled ==
  /\ IsFiniteSet(DOMAIN pool)
  /\ \A n \in DOMAIN pool : n \in Nat /\ n >= Latest /\ pool[n] \in Payload

\* The bot has a target in hand when, and only when, it deals with one.
BotOK ==
  /\ bot \in Bot
  /\ Len(bot.left) <= Len(Targets)
  /\ bot.pc \in {"target", "send", "confirm"} <=> bot.left # <<>>
  /\ bot.pc \in {"send", "confirm"} =>
       bot.nonce > 0 /\ bot.masterWei - bot.valueWei >= ReserveWei

Kinds ==
  /\ mined \in Seq({"paid", "reverted"})
  /\ Pooled
  /\ master \in Nat
  /\ balance \in [Target -> Nat]
  /\ BotOK
  /\ stray \subseteq Nat
  /\ troubles \in 0 .. MaxTroubles

\* What is in the pool is stray, or what the bot is waiting for.
Accounted ==
  DOMAIN pool \subseteq stray \cup (IF At("confirm") THEN {SentNonce} ELSE {})

\* The targets the cycle has dealt with.
Done == Len(Targets) - Len(bot.left)

\* What the bot does not count of what the master has paid: a fee for each of n.
Fees(n) == n * Fee

(***************************************************************************)
(* As long as nothing is stray: what the bot takes the master to hold is   *)
(* never more than it holds and the fees of the targets dealt with; and a  *)
(* payment in hand never lifts its target to --to plus a unit.             *)
(***************************************************************************)
Affordable == bot.masterWei <= master + Fees(Done)

FillsUp == balance[Head(bot.left)] + bot.valueWei < ToWei + STEP

Waiting ==
  /\ SentNonce \in DOMAIN pool =>
       /\ pool[SentNonce] = [to |-> Head(bot.left), value |-> bot.valueWei]
       /\ FillsUp /\ Affordable
  /\ bot.masterWei - bot.valueWei <= master + Fees(Done + 1)
  /\ Confirmed /\ mined[SentNonce + 1] = "reverted" =>
       bot.masterWei <= master + Fees(Done + 1)

Planned ==
  stray = {} =>
    /\ At("nonce") => bot.masterWei <= master
    /\ bot.pc \in {"target", "send"} => Affordable
    /\ At("send") => FillsUp
    /\ At("confirm") => Waiting

TopUpInv == Kinds /\ Accounted /\ Planned

\* Fees add up.
LEMMA FeesAddUp ==
  /\ Fees(0) = 0
  /\ \A n \in Nat : Fees(n) \in Nat /\ Fees(n + 1) = Fees(n) + Fee
<1>1. Fee \in Nat
  BY TopUpAssumption
<1>2. ASSUME NEW n \in Nat PROVE n * Fee \in Nat /\ (n + 1) * Fee = n * Fee + Fee
  BY <1>1
<1> QED
  BY <1>1, <1>2 DEF Fees

LEMMA FeesOfMore ==
  ASSUME NEW m \in Nat, NEW n \in Nat, m <= n
  PROVE  Fees(m) <= Fees(n)
<1>1. Fee \in Nat
  BY TopUpAssumption
<1>2. PICK d \in Nat : n = m + d
  <2>1. n - m \in Nat /\ n = m + (n - m)
    OBVIOUS
  <2> QED
    BY <2>1
<1>3. d * Fee \in Nat
  BY <1>1
<1>4. n * Fee = m * Fee + d * Fee /\ m * Fee \in Nat
  BY <1>1, <1>2
<1> QED
  BY <1>3, <1>4 DEF Fees

(***************************************************************************)
(* A deficit rounded down to the unit: never nothing, and never more than  *)
(* what lifts the balance to --to, or a unit.                              *)
(***************************************************************************)
LEMMA ValueFills ==
  ASSUME NEW bal \in Nat, bal < MinWei
  PROVE  ValueFor(bal) \in Nat /\ bal + ValueFor(bal) < ToWei + STEP
<1>1. MinWei \in Nat /\ ToWei \in Nat /\ STEP \in Nat \ {0} /\ MinWei < ToWei
  BY TopUpAssumption
<1> DEFINE d == ToWei - bal
           r == d % STEP
<1>2. d \in Nat /\ bal + d = ToWei
  BY <1>1
<1> HIDE DEF d
<1>3. r \in Nat /\ r <= d
  BY <1>1, <1>2
<1>4. RoundStep(d) = d - r
  BY DEF RoundStep
<1> HIDE DEF r
<1>5. ValueFor(bal) = IF d - r = 0 THEN STEP ELSE d - r
  BY <1>4 DEF ValueFor, d
<1> QED
  BY <1>1, <1>2, <1>3, <1>5

\* The bot at rest.
LEMMA AtRest ==
  \A b \in {Asleep, Down} : b \in Bot /\ b.left = <<>> /\ b.pc \in {"down", "sleep"}
<1>1. Down \in Bot /\ Down.left = <<>> /\ Down.pc = "down"
  BY DEF Down, Bot
<1>2. Asleep \in Bot /\ Asleep.left = Down.left /\ Asleep.pc = "sleep"
  <2> HIDE DEF Down
  <2> QED
    BY <1>1 DEF Asleep, Bot
<1> QED
  BY <1>1, <1>2

LEMMA ThrownRests == Thrown \in {Asleep, Down}
  BY DEF Thrown

\* What comes from outside is counted.
LEMMA TroubleCounts ==
  ASSUME TopUpInv
  PROVE  /\ Trouble => troubles' \in 0 .. MaxTroubles
         /\ UNCHANGED troubles => troubles' \in 0 .. MaxTroubles
  BY TopUpAssumption DEF Trouble, TopUpInv, Kinds

\* A step of the bot alone.
LEMMA BotMoves ==
  ASSUME TopUpInv, OnChain, BotOK', stray' \subseteq Nat, troubles' \in 0 .. MaxTroubles
  PROVE  Kinds'
<1>1. mined' = mined /\ pool' = pool /\ master' = master /\ balance' = balance
  BY DEF OnChain
<1>2. Pooled'
  BY <1>1 DEF TopUpInv, Kinds, Pooled, Latest
<1> QED
  BY <1>1, <1>2 DEF TopUpInv, Kinds

\* The end of a cycle, when nothing of the pool goes unaccounted for.
LEMMA RestKeeps ==
  ASSUME TopUpInv, OnChain, bot' \in {Asleep, Down}, stray' \subseteq Nat,
         DOMAIN pool \subseteq stray', troubles' \in 0 .. MaxTroubles
  PROVE  TopUpInv'
<1>1. bot' \in Bot /\ bot'.left = <<>> /\ bot'.pc \in {"down", "sleep"}
  BY AtRest
<1>2. BotOK'
  <2>1. Len(Targets) \in Nat /\ Len(bot'.left) = 0
    BY <1>1, TargetsOK
  <2> QED
    BY <1>1, <2>1 DEF BotOK
<1>3. Kinds'
  BY <1>2, BotMoves
<1>4. Accounted'
  BY <1>1 DEF Accounted, OnChain
<1>5. Planned'
  BY <1>1 DEF Planned, At
<1> QED
  BY <1>3, <1>4, <1>5 DEF TopUpInv

\* On to the next target.
LEMMA NextTargetOK ==
  ASSUME NEW b \in Bot, b.left # <<>>
  PROVE  \/ NextTarget(b) = Asleep
         \/ /\ NextTarget(b) \in Bot /\ NextTarget(b).pc = "target"
            /\ NextTarget(b).left # <<>> /\ NextTarget(b).masterWei = b.masterWei
            /\ Len(NextTarget(b).left) = Len(b.left) - 1
<1>1. b.left \in Seq(Target) /\ Len(b.left) \in Nat \ {0}
  BY DEF Bot
<1>2. CASE Len(b.left) = 1
  BY <1>2 DEF NextTarget
<1>3. CASE Len(b.left) # 1
  <2> DEFINE t == Tail(b.left)
  <2>1. t \in Seq(Target) /\ Len(t) = Len(b.left) - 1
    BY <1>1
  <2> HIDE DEF t
  <2>2. t # <<>>
    <3>1. Len(t) # 0
      BY <2>1, <1>1, <1>3
    <3> QED
      BY <3>1
  <2>3. NextTarget(b) = [b EXCEPT !.pc = "target", !.left = t, !.valueWei = 0]
    BY <1>3 DEF NextTarget, t
  <2>4. [b EXCEPT !.pc = "target", !.left = t, !.valueWei = 0] \in Bot
    BY <2>1 DEF Bot
  <2>5. /\ NextTarget(b).pc = "target" /\ NextTarget(b).left = t
        /\ NextTarget(b).masterWei = b.masterWei
    BY <2>3 DEF Bot
  <2> QED
    BY <2>1, <2>2, <2>3, <2>4, <2>5
<1> QED
  BY <1>2, <1>3

(***************************************************************************)
(* Done with a target: b is the bot with what it has counted as spent.     *)
(***************************************************************************)
LEMMA NextTargetKeeps ==
  ASSUME TopUpInv, OnChain, bot.left # <<>>, NEW b \in Bot, b.left = bot.left,
         bot' = NextTarget(b), stray' \subseteq Nat, DOMAIN pool \subseteq stray',
         troubles' \in 0 .. MaxTroubles,
         stray' = {} => b.masterWei <= master + Fees(Done + 1)
  PROVE  TopUpInv'
<1>1. CASE bot' = Asleep
  BY <1>1, RestKeeps
<1>2. CASE bot' # Asleep
  <2>1. /\ bot' \in Bot /\ bot'.pc = "target" /\ bot'.left # <<>>
        /\ bot'.masterWei = b.masterWei /\ Len(bot'.left) = Len(bot.left) - 1
    BY <1>2, NextTargetOK
  <2>2. /\ Len(Targets) \in Nat /\ Len(bot.left) \in Nat
        /\ Len(bot.left) <= Len(Targets)
    <3>1. bot \in Bot /\ Len(bot.left) <= Len(Targets)
      BY DEF TopUpInv, Kinds, BotOK
    <3>2. bot.left \in Seq(Target) /\ Targets \in Seq(Target)
      BY <3>1, TargetsOK DEF Bot
    <3> QED
      BY <3>1, <3>2
  <2>3. BotOK'
    BY <2>1, <2>2 DEF BotOK
  <2>4. Kinds'
    BY <2>3, BotMoves
  <2>5. Accounted'
    BY <2>1 DEF Accounted, OnChain
  <2>6. Done' = Done + 1
    BY <2>1, <2>2 DEF Done
  <2>7. Planned'
    BY <2>1, <2>6 DEF Planned, At, Affordable, OnChain, Fees
  <2> QED
    BY <2>4, <2>5, <2>7 DEF TopUpInv
<1> QED
  BY <1>1, <1>2

-----------------------------------------------------------------------------
(* The bot's steps                                                         *)

\* A step of the bot that has no target in hand, before and after.
LEMMA FreeKeeps ==
  ASSUME TopUpInv, OnChain, bot' \in Bot, bot'.left = <<>>, bot'.pc \in {"balance", "nonce"},
         stray' \subseteq Nat, DOMAIN pool \subseteq stray', troubles' \in 0 .. MaxTroubles,
         stray' = {} /\ bot'.pc = "nonce" => bot'.masterWei <= master
  PROVE  TopUpInv'
<1>1. BotOK'
  <2>1. Len(Targets) \in Nat /\ Len(bot'.left) = 0
    BY TargetsOK
  <2> QED
    BY <2>1 DEF BotOK
<1>2. Kinds'
  BY <1>1, BotMoves
<1>3. Accounted'
  BY DEF Accounted, OnChain
<1>4. Planned'
  BY DEF Planned, At, OnChain
<1> QED
  BY <1>2, <1>3, <1>4 DEF TopUpInv

\* What is known of the bot in each state.
LEMMA BotFacts ==
  ASSUME TopUpInv
  PROVE  /\ bot \in Bot /\ stray \subseteq Nat /\ troubles \in 0 .. MaxTroubles
         /\ bot.pc \in {"target", "send", "confirm"} <=> bot.left # <<>>
         /\ bot.left # <<>> =>
              /\ Head(bot.left) \in Target /\ balance[Head(bot.left)] \in Nat
              /\ Done \in Nat /\ Done + 1 <= Len(Targets)
              /\ Fees(Done) \in Nat /\ Fees(Done + 1) = Fees(Done) + Fee
         /\ ~At("confirm") => DOMAIN pool \subseteq stray
         /\ bot.pc \in {"send", "confirm"} => SentNonce \in Nat
<1>1. /\ bot \in Bot /\ stray \subseteq Nat /\ troubles \in 0 .. MaxTroubles
      /\ bot.pc \in {"target", "send", "confirm"} <=> bot.left # <<>>
      /\ balance \in [Target -> Nat] /\ Len(bot.left) <= Len(Targets)
  BY DEF TopUpInv, Kinds, BotOK
<1>2. ASSUME bot.left # <<>>
      PROVE  /\ Head(bot.left) \in Target /\ Done \in Nat /\ Done + 1 <= Len(Targets)
  <2>1. /\ bot.left \in Seq(Target) /\ Len(bot.left) \in Nat \ {0}
        /\ Head(bot.left) \in Target /\ Len(Targets) \in Nat
    BY <1>1, <1>2, TargetsOK DEF Bot
  <2> QED
    BY <1>1, <2>1 DEF Done
<1>3. ~At("confirm") => DOMAIN pool \subseteq stray
  BY DEF TopUpInv, Accounted
<1>4. bot.pc \in {"send", "confirm"} => SentNonce \in Nat
  BY <1>1 DEF TopUpInv, Kinds, BotOK, Bot, SentNonce
<1> QED
  BY <1>1, <1>2, <1>3, <1>4, FeesAddUp

LEMMA WakeKeeps ==
  ASSUME TopUpInv, Wake
  PROVE  TopUpInv'
<1>1. bot.left = <<>> /\ ~At("confirm")
  BY BotFacts DEF Wake, At
<1>2. bot' \in Bot /\ bot'.left = <<>> /\ bot'.pc = "balance"
  BY <1>1, BotFacts DEF Wake, Bot
<1>3. OnChain /\ stray' = stray /\ troubles' = troubles
  BY DEF Wake
<1> QED
  BY <1>1, <1>2, <1>3, FreeKeeps, BotFacts

LEMMA ReadMasterKeeps ==
  ASSUME TopUpInv, ReadMaster
  PROVE  TopUpInv'
<1>1. bot.left = <<>> /\ ~At("confirm")
  BY BotFacts DEF ReadMaster, At
<1>2. master \in Nat /\ bot' = [bot EXCEPT !.pc = "nonce", !.masterWei = master]
  BY DEF ReadMaster, TopUpInv, Kinds
<1>3. bot' \in Bot /\ bot'.left = <<>> /\ bot'.pc = "nonce" /\ bot'.masterWei = master
  BY <1>1, <1>2, BotFacts DEF Bot
<1>4. OnChain /\ stray' = stray \cap DOMAIN pool /\ troubles' = troubles
  BY DEF ReadMaster
<1>5. DOMAIN pool \subseteq stray' /\ stray' \subseteq Nat /\ troubles' \in 0 .. MaxTroubles
  BY <1>1, <1>4, BotFacts
<1> QED
  BY <1>2, <1>3, <1>4, <1>5, FreeKeeps

LEMMA ReadNonceKeeps ==
  ASSUME TopUpInv, ReadNonce
  PROVE  TopUpInv'
<1>1. bot.left = <<>> /\ At("nonce")
  BY BotFacts DEF ReadNonce, At
<1>2. PICK n \in PendingCounts :
        bot' = [bot EXCEPT !.pc = "target", !.left = Targets, !.nonce = n]
  BY DEF ReadNonce
<1>3. n \in Nat
  <2>1. Latest \in Nat /\ Cardinality(DOMAIN pool) \in Nat
    BY FS_CardinalityType DEF TopUpInv, Kinds, Pooled, Latest
  <2> QED
    BY <2>1 DEF PendingCounts
<1>4. /\ bot' \in Bot /\ bot'.left = Targets /\ bot'.pc = "target"
      /\ bot'.masterWei = bot.masterWei
  BY <1>2, <1>3, BotFacts, TargetsOK DEF Bot
<1>5. OnChain /\ stray' = stray /\ troubles' = troubles
  BY DEF ReadNonce
<1>6. BotOK'
  <2>1. Len(Targets) \in Nat
    BY TargetsOK
  <2> QED
    BY <2>1, <1>4, TargetsOK DEF BotOK
<1>7. Kinds'
  BY <1>5, <1>6, BotFacts, BotMoves
<1>8. Accounted'
  BY <1>1, <1>4, <1>5, BotFacts DEF Accounted, OnChain, At
<1>9. Done' = 0
  BY <1>4, TargetsOK DEF Done
<1>10. Planned'
  <2> SUFFICES ASSUME stray' = {} PROVE bot'.masterWei <= master' + Fees(Done')
    BY <1>4 DEF Planned, At, Affordable, Fees
  <2>1. bot.masterWei <= master /\ master' = master /\ master \in Nat /\ bot.masterWei \in Nat
    BY <1>1, <1>5 DEF TopUpInv, Kinds, BotOK, Bot, Planned, OnChain
  <2> QED
    BY <2>1, <1>4, <1>9, FeesAddUp
<1> QED
  BY <1>7, <1>8, <1>10 DEF TopUpInv

LEMMA ReadTargetKeeps ==
  ASSUME TopUpInv, ReadTarget
  PROVE  TopUpInv'
<1> DEFINE bal == balance[Head(bot.left)]
           v == ValueFor(bal)
<1>1. /\ At("target") /\ bot.left # <<>> /\ ~At("confirm")
      /\ DOMAIN pool \subseteq stray /\ bal \in Nat /\ bot \in Bot
  BY BotFacts DEF ReadTarget, At
<1>2. OnChain /\ stray' = stray /\ troubles' = troubles
  BY DEF ReadTarget
<1>3. stray' \subseteq Nat /\ DOMAIN pool \subseteq stray' /\ troubles' \in 0 .. MaxTroubles
  BY <1>1, <1>2, BotFacts
<1>4. CASE bal >= MinWei
  <2>1. bot' = NextTarget(bot)
    BY <1>4 DEF ReadTarget
  <2>2. stray' = {} => bot.masterWei <= master + Fees(Done + 1)
    <3>1. stray = {} => bot.masterWei <= master + Fees(Done)
      BY <1>1 DEF TopUpInv, Planned, Affordable, At
    <3>2. /\ Fees(Done) \in Nat /\ Fees(Done + 1) = Fees(Done) + Fee /\ Fee \in Nat
          /\ bot.masterWei \in Nat /\ master \in Nat
      BY <1>1, BotFacts, TopUpAssumption DEF TopUpInv, Kinds, Bot
    <3> QED
      BY <1>2, <3>1, <3>2
  <2> QED
    BY <1>1, <1>2, <1>3, <2>1, <2>2, NextTargetKeeps
<1>5. CASE bal < MinWei /\ MasterLow(bal, bot.masterWei)
  <2>1. bot' = Asleep
    <3>1. ~(bal >= MinWei)
      BY <1>1, <1>5, TopUpAssumption
    <3> QED
      BY <1>5, <3>1 DEF ReadTarget
  <2> QED
    BY <1>2, <1>3, <2>1, RestKeeps
<1>6. CASE bal < MinWei /\ ~MasterLow(bal, bot.masterWei)
  <2>1. v \in Nat /\ bal + v < ToWei + STEP
    BY <1>1, <1>6, ValueFills
  <2>2. bot' = [bot EXCEPT !.pc = "send", !.valueWei = v, !.nonce = bot.nonce + 1]
    <3>1. ~(bal >= MinWei)
      BY <1>1, <1>6, TopUpAssumption
    <3> QED
      BY <1>6, <3>1 DEF ReadTarget
  <2>3. bot.masterWei - v >= ReserveWei
    <3>1. bot.masterWei \in Nat /\ ReserveWei \in Nat
      BY <1>1, TopUpAssumption DEF Bot
    <3> QED
      BY <1>6, <2>1, <3>1 DEF MasterLow
  <2> HIDE DEF v
  <2>4. /\ bot' \in Bot /\ bot'.pc = "send" /\ bot'.left = bot.left
        /\ bot'.masterWei = bot.masterWei /\ bot'.valueWei = v
        /\ bot'.nonce = bot.nonce + 1 /\ bot.nonce \in Nat
    <3>1. bot.nonce \in Nat /\ bot.nonce + 1 \in Nat
      BY <1>1 DEF Bot
    <3> DEFINE n == bot.nonce + 1
    <3> HIDE DEF n
    <3>2. bot' = [bot EXCEPT !.pc = "send", !.valueWei = v, !.nonce = n] /\ n \in Nat
      BY <2>2, <3>1 DEF n
    <3>3. bot' \in Bot
      BY <1>1, <2>1, <3>2 DEF Bot
    <3>4. /\ bot'.pc = "send" /\ bot'.left = bot.left /\ bot'.masterWei = bot.masterWei
          /\ bot'.valueWei = v /\ bot'.nonce = n
      BY <1>1, <3>2 DEF Bot
    <3> QED
      BY <3>1, <3>3, <3>4 DEF n
  <2>5. BotOK'
    BY <1>1, <2>3, <2>4 DEF BotOK, TopUpInv, Kinds
  <2>6. Kinds'
    BY <1>2, <1>3, <2>5, BotMoves
  <2>7. Accounted'
    BY <1>2, <1>3, <2>4 DEF Accounted, OnChain
  <2>8. Planned'
    <3>1. Done' = Done
      BY <2>4 DEF Done
    <3>2. stray = {} => Affordable
      BY <1>1 DEF TopUpInv, Planned, At
    <3>3. FillsUp'
      BY <1>2, <2>1, <2>4 DEF FillsUp, OnChain
    <3> QED
      BY <1>2, <2>4, <3>1, <3>2, <3>3 DEF Planned, At, Affordable, OnChain, Fees
  <2> QED
    BY <2>6, <2>7, <2>8 DEF TopUpInv
<1> QED
  BY <1>1, <1>4, <1>5, <1>6, TopUpAssumption

LEMMA ReadFailsKeeps ==
  ASSUME TopUpInv, ReadFails
  PROVE  TopUpInv'
<1>1. /\ ~At("confirm") /\ bot' = Thrown /\ OnChain /\ stray' = stray
      /\ troubles' \in 0 .. MaxTroubles
  BY TroubleCounts DEF ReadFails, At
<1> QED
  BY <1>1, ThrownRests, BotFacts, RestKeeps

LEMMA ReadTargetFailsKeeps ==
  ASSUME TopUpInv, ReadTargetFails
  PROVE  TopUpInv'
<1>1. /\ At("target") /\ bot.left # <<>> /\ ~At("confirm")
      /\ DOMAIN pool \subseteq stray /\ bot \in Bot
  BY BotFacts DEF ReadTargetFails, At
<1>2. /\ bot' = NextTarget(bot) /\ OnChain /\ stray' = stray
      /\ troubles' \in 0 .. MaxTroubles
  BY TroubleCounts DEF ReadTargetFails
<1>3. stray' = {} => bot.masterWei <= master + Fees(Done + 1)
  <2>1. stray = {} => bot.masterWei <= master + Fees(Done)
    BY <1>1 DEF TopUpInv, Planned, Affordable, At
  <2>2. /\ Fees(Done) \in Nat /\ Fees(Done + 1) = Fees(Done) + Fee /\ Fee \in Nat
        /\ bot.masterWei \in Nat /\ master \in Nat
    BY <1>1, BotFacts, TopUpAssumption DEF TopUpInv, Kinds, Bot
  <2> QED
    BY <1>2, <2>1, <2>2
<1> QED
  BY <1>1, <1>2, <1>3, BotFacts, NextTargetKeeps

\* The node's pool with the bot's payment in it.
LEMMA TakenOK ==
  ASSUME TopUpInv, At("send"), Taken
  PROVE  /\ Pooled'
         /\ DOMAIN pool' = DOMAIN pool \cup {SentNonce}
         /\ pool'[SentNonce] = [to |-> Head(bot.left), value |-> bot.valueWei]
         /\ mined' = mined /\ master' = master /\ balance' = balance
<1> DEFINE paid == [to |-> Head(bot.left), value |-> bot.valueWei]
<1>1. bot.left # <<>> /\ SentNonce \in Nat /\ bot \in Bot /\ Head(bot.left) \in Target
  BY BotFacts DEF At
<1>2. paid \in Payload
  BY <1>1 DEF Payload, Bot
<1>3. /\ SentNonce >= Latest /\ pool' = PoolWith(SentNonce, paid)
      /\ mined' = mined /\ master' = master /\ balance' = balance
  BY DEF Taken, CanAccept
<1> HIDE DEF paid
<1>4. /\ DOMAIN pool' = DOMAIN pool \cup {SentNonce}
      /\ \A n \in DOMAIN pool' : pool'[n] = IF n = SentNonce THEN paid ELSE pool[n]
  BY <1>3 DEF PoolWith
<1>5. IsFiniteSet(DOMAIN pool')
  BY <1>4, FS_AddElement DEF TopUpInv, Kinds, Pooled
<1>6. Pooled'
  BY <1>1, <1>2, <1>3, <1>4, <1>5 DEF TopUpInv, Kinds, Pooled, Latest, Payload
<1> QED
  BY <1>3, <1>4, <1>6 DEF paid

LEMMA SendKeeps ==
  ASSUME TopUpInv, Send
  PROVE  TopUpInv'
<1>1. At("send") /\ Taken /\ stray' = stray /\ troubles' = troubles
  BY DEF Send
<1>2. /\ Pooled' /\ DOMAIN pool' = DOMAIN pool \cup {SentNonce}
      /\ pool'[SentNonce] = [to |-> Head(bot.left), value |-> bot.valueWei]
      /\ mined' = mined /\ master' = master /\ balance' = balance
  BY <1>1, TakenOK
<1>3. bot \in Bot /\ bot.left # <<>> /\ DOMAIN pool \subseteq stray
  BY <1>1, BotFacts DEF At
<1>4. bot' = [bot EXCEPT !.pc = "confirm"]
  BY DEF Send
<1>5. /\ bot' \in Bot /\ bot'.pc = "confirm" /\ bot'.left = bot.left
      /\ bot'.masterWei = bot.masterWei /\ bot'.valueWei = bot.valueWei
      /\ bot'.nonce = bot.nonce
  BY <1>3, <1>4 DEF Bot
<1>6. SentNonce' = SentNonce /\ Done' = Done
  BY <1>5 DEF SentNonce, Done
<1>7. Kinds'
  <2>1. BotOK'
    BY <1>1, <1>3, <1>5 DEF BotOK, TopUpInv, Kinds, At
  <2> QED
    BY <1>1, <1>2, <2>1 DEF TopUpInv, Kinds
<1>8. Accounted'
  BY <1>1, <1>2, <1>3, <1>5, <1>6 DEF Accounted, At
<1>9. Planned'
  <2> SUFFICES ASSUME stray = {} PROVE Waiting'
    BY <1>1, <1>5 DEF Planned, At
  <2>1. FillsUp /\ Affordable
    BY <1>1 DEF TopUpInv, Planned, At
  <2>2. FillsUp' /\ Affordable'
    BY <1>2, <1>5, <1>6, <2>1 DEF FillsUp, Affordable, Fees
  <2>3. bot.masterWei - bot.valueWei <= master + Fees(Done + 1)
    <3>1. /\ Fees(Done) \in Nat /\ Fees(Done + 1) = Fees(Done) + Fee /\ Fee \in Nat
          /\ bot.masterWei \in Nat /\ bot.valueWei \in Nat /\ master \in Nat
      BY <1>3, BotFacts, TopUpAssumption DEF TopUpInv, Kinds, Bot
    <3> QED
      BY <2>1, <3>1 DEF Affordable
  <2>4. ~Confirmed'
    <3>1. SentNonce >= Latest
      BY <1>1 DEF Taken, CanAccept
    <3>2. SentNonce \in Nat /\ Latest \in Nat
      BY <1>1, BotFacts DEF At, TopUpInv, Kinds, Latest
    <3> QED
      BY <1>2, <1>6, <3>1, <3>2 DEF Confirmed, Latest
  <2> QED
    BY <1>2, <1>5, <1>6, <2>2, <2>3, <2>4 DEF Waiting, Fees
<1> QED
  BY <1>7, <1>8, <1>9 DEF TopUpInv

LEMMA SendRefusedKeeps ==
  ASSUME TopUpInv, SendRefused \/ SendFails
  PROVE  TopUpInv'
<1>1. At("send") /\ bot' = Asleep /\ OnChain /\ stray' = stray
      /\ troubles' \in 0 .. MaxTroubles
  BY TroubleCounts DEF SendRefused, SendFails
<1>2. stray \subseteq Nat /\ DOMAIN pool \subseteq stray
  BY <1>1, BotFacts DEF At
<1> QED
  BY <1>1, <1>2, RestKeeps

(***************************************************************************)
(* A cycle that ends without hearing of the payment the node has taken.    *)
(***************************************************************************)
LEMMA TakenRests ==
  ASSUME TopUpInv, At("send"), Taken, bot' \in {Asleep, Down},
         stray' = stray \cup {SentNonce}, troubles' \in 0 .. MaxTroubles
  PROVE  TopUpInv'
<1>1. /\ Pooled' /\ DOMAIN pool' = DOMAIN pool \cup {SentNonce}
      /\ mined' = mined /\ master' = master /\ balance' = balance
  BY TakenOK
<1>2. DOMAIN pool \subseteq stray /\ stray \subseteq Nat /\ SentNonce \in Nat
  BY BotFacts DEF At
<1>3. bot' \in Bot /\ bot'.left = <<>> /\ bot'.pc \in {"down", "sleep"}
  BY AtRest
<1>4. BotOK'
  <2>1. Len(Targets) \in Nat /\ Len(bot'.left) = 0
    BY <1>3, TargetsOK
  <2> QED
    BY <1>3, <2>1 DEF BotOK
<1>5. Kinds'
  BY <1>1, <1>2, <1>4 DEF TopUpInv, Kinds
<1>6. Accounted'
  BY <1>1, <1>2 DEF Accounted
<1>7. Planned'
  BY <1>3 DEF Planned, At
<1> QED
  BY <1>5, <1>6, <1>7 DEF TopUpInv

LEMMA SendReplyLostKeeps ==
  ASSUME TopUpInv, SendReplyLost
  PROVE  TopUpInv'
  BY TroubleCounts, TakenRests DEF SendReplyLost

\* What the bot waits for, and what it counts as spent when that comes.
LEMMA WaitingFacts ==
  ASSUME TopUpInv, At("confirm")
  PROVE  /\ bot.left # <<>> /\ bot \in Bot /\ SentNonce \in Nat
         /\ DOMAIN pool \subseteq stray \cup {SentNonce}
         /\ Confirmed => SentNonce \notin DOMAIN pool
         /\ stray = {} => Waiting
         /\ Spent \in Bot /\ Spent.left = bot.left
         /\ Spent.masterWei = bot.masterWei - bot.valueWei
<1>1. bot.left # <<>> /\ bot \in Bot /\ SentNonce \in Nat
  BY BotFacts DEF At
<1>2. DOMAIN pool \subseteq stray \cup {SentNonce}
  BY DEF TopUpInv, Accounted
<1>3. Confirmed => SentNonce \notin DOMAIN pool
  <2>1. Latest \in Nat /\ \A n \in DOMAIN pool : n >= Latest
    BY DEF TopUpInv, Kinds, Pooled, Latest
  <2> QED
    BY <1>1, <2>1 DEF Confirmed
<1>4. stray = {} => Waiting
  BY DEF TopUpInv, Planned
<1>5. bot.masterWei - bot.valueWei \in Nat
  <2>1. /\ bot.masterWei \in Nat /\ bot.valueWei \in Nat /\ ReserveWei \in Nat
        /\ bot.masterWei - bot.valueWei >= ReserveWei
    BY <1>1, TopUpAssumption DEF TopUpInv, Kinds, BotOK, Bot, At
  <2> QED
    BY <2>1
<1> DEFINE w == bot.masterWei - bot.valueWei
<1>6. Spent = [bot EXCEPT !.masterWei = w]
  BY DEF Spent
<1> HIDE DEF w
<1>7. Spent \in Bot /\ Spent.left = bot.left /\ Spent.masterWei = w
  BY <1>1, <1>5, <1>6 DEF Bot, w
<1> QED
  BY <1>1, <1>2, <1>3, <1>4, <1>7 DEF w

LEMMA ConfirmReceiptKeeps ==
  ASSUME TopUpInv, ConfirmReceipt
  PROVE  TopUpInv'
<1> DEFINE b == IF mined[SentNonce + 1] = "reverted" THEN bot ELSE Spent
<1>1. /\ At("confirm") /\ Confirmed /\ bot' = NextTarget(b)
      /\ OnChain /\ stray' = stray /\ troubles' = troubles
  BY DEF ConfirmReceipt
<1>2. /\ bot.left # <<>> /\ b \in Bot /\ b.left = bot.left
      /\ DOMAIN pool \subseteq stray
  BY <1>1, WaitingFacts
<1>3. stray = {} => b.masterWei <= master + Fees(Done + 1)
  BY <1>1, WaitingFacts DEF Waiting
<1> HIDE DEF b
<1> QED
  BY <1>1, <1>2, <1>3, BotFacts, NextTargetKeeps

LEMMA ConfirmNonceKeeps ==
  ASSUME TopUpInv, ConfirmNonce
  PROVE  TopUpInv'
<1> DEFINE b == Spent
<1>1. /\ At("confirm") /\ Confirmed /\ bot' = NextTarget(b)
      /\ OnChain /\ stray' = stray /\ troubles' = troubles
  BY DEF ConfirmNonce
<1>2. /\ bot.left # <<>> /\ b \in Bot /\ b.left = bot.left
      /\ DOMAIN pool \subseteq stray
  BY <1>1, WaitingFacts
<1>3. stray = {} => b.masterWei <= master + Fees(Done + 1)
  BY <1>1, WaitingFacts DEF Waiting
<1> HIDE DEF b
<1> QED
  BY <1>1, <1>2, <1>3, BotFacts, NextTargetKeeps

LEMMA ConfirmTimeoutKeeps ==
  ASSUME TopUpInv, ConfirmTimeout
  PROVE  TopUpInv'
<1> DEFINE b == Spent
<1>1. /\ At("confirm") /\ bot' = NextTarget(b) /\ OnChain
      /\ stray' = stray \cup {SentNonce} /\ troubles' \in 0 .. MaxTroubles
  BY TroubleCounts DEF ConfirmTimeout
<1>2. /\ bot.left # <<>> /\ b \in Bot /\ b.left = bot.left
      /\ DOMAIN pool \subseteq stray' /\ stray' \subseteq Nat
  BY <1>1, WaitingFacts, BotFacts
<1> HIDE DEF b
<1>3. stray' # {}
  BY <1>1
<1> QED
  BY <1>1, <1>2, <1>3, NextTargetKeeps

LEMMA CrashKeeps ==
  ASSUME TopUpInv, Crash
  PROVE  TopUpInv'
<1>1. bot' \in {Asleep, Down} /\ troubles' \in 0 .. MaxTroubles
  BY TroubleCounts DEF Crash
<1>2. CASE OnChain /\ stray' = IF At("confirm") THEN stray \cup {SentNonce} ELSE stray
  <2>1. DOMAIN pool \subseteq stray' /\ stray' \subseteq Nat
    BY <1>2, WaitingFacts, BotFacts
  <2> QED
    BY <1>1, <1>2, <2>1, RestKeeps
<1>3. CASE At("send") /\ Taken /\ stray' = stray \cup {SentNonce}
  BY <1>1, <1>3, TakenRests
<1> QED
  BY <1>2, <1>3 DEF Crash

-----------------------------------------------------------------------------
(* The chain's steps                                                       *)

(***************************************************************************)
(* What is mined next: as long as nothing is stray, the payment the bot    *)
(* waits for, which it could afford and which fills its target up.         *)
(***************************************************************************)
LEMMA MinedFacts ==
  ASSUME TopUpInv, Minable
  PROVE  /\ Latest \in DOMAIN pool /\ Latest \in Nat /\ mined \in Seq({"paid", "reverted"})
         /\ pool[Latest].to \in Target /\ pool[Latest].value \in Nat
         /\ master \in Nat /\ Fee \in Nat /\ master >= pool[Latest].value + Fee
         /\ stray = {} =>
              /\ At("confirm") /\ SentNonce = Latest /\ FillsUp /\ Affordable
              /\ pool[Latest] = [to |-> Head(bot.left), value |-> bot.valueWei]
<1>1. /\ Latest \in DOMAIN pool /\ Latest \in Nat /\ mined \in Seq({"paid", "reverted"})
      /\ pool[Latest] \in Payload /\ master \in Nat /\ Fee \in Nat
      /\ master >= pool[Latest].value + Fee
  BY TopUpAssumption DEF TopUpInv, Kinds, Pooled, Latest, Minable
<1>2. pool[Latest].to \in Target /\ pool[Latest].value \in Nat
  BY <1>1 DEF Payload
<1>3. ASSUME stray = {}
      PROVE  /\ At("confirm") /\ SentNonce = Latest /\ FillsUp /\ Affordable
             /\ pool[Latest] = [to |-> Head(bot.left), value |-> bot.valueWei]
  <2>1. At("confirm") /\ SentNonce = Latest
    BY <1>1, <1>3 DEF TopUpInv, Accounted
  <2>2. Waiting
    BY <1>3, <2>1 DEF TopUpInv, Planned
  <2> QED
    BY <1>1, <2>1, <2>2 DEF Waiting
<1> QED
  BY <1>1, <1>2, <1>3

\* The pool without what is mined.
LEMMA MinedLeaves ==
  ASSUME TopUpInv, Latest \in DOMAIN pool, NEW how \in {"paid", "reverted"},
         mined' = Append(mined, how), pool' = PoolAfter, bot' = bot, stray' = stray
  PROVE  /\ mined' \in Seq({"paid", "reverted"}) /\ Pooled' /\ Accounted'
         /\ DOMAIN pool' = DOMAIN pool \ {Latest}
         /\ Latest' = Latest + 1 /\ mined'[Latest + 1] = how
<1>1. mined \in Seq({"paid", "reverted"}) /\ Pooled /\ Latest \in Nat
  BY DEF TopUpInv, Kinds, Latest
<1>2. /\ mined' \in Seq({"paid", "reverted"}) /\ Latest' = Latest + 1
      /\ mined'[Latest + 1] = how
  BY <1>1 DEF Latest
<1>3. /\ DOMAIN pool' = DOMAIN pool \ {Latest}
      /\ \A n \in DOMAIN pool' : pool'[n] = pool[n]
  BY DEF PoolAfter
<1>4. IsFiniteSet(DOMAIN pool')
  BY <1>1, <1>3, FS_Subset DEF Pooled
<1>5. \A n \in DOMAIN pool' : n \in Nat /\ n >= Latest' /\ pool'[n] \in Payload
  BY <1>1, <1>2, <1>3 DEF Pooled
<1>6. Payload' = Payload
  BY DEF Payload
<1>7. Pooled'
  BY <1>4, <1>5, <1>6 DEF Pooled
<1>8. Accounted'
  BY <1>3 DEF TopUpInv, Accounted, At, SentNonce
<1> QED
  BY <1>2, <1>3, <1>7, <1>8

\* The bot does not move, nor does what it has dealt with.
LEMMA BotStays ==
  ASSUME TopUpInv, bot' = bot
  PROVE  /\ BotOK' /\ Done' = Done /\ Fees(Done + 1)' = Fees(Done + 1)
         /\ SentNonce' = SentNonce /\ At("confirm")' = At("confirm")
  BY DEF TopUpInv, Kinds, BotOK, Done, Fees, SentNonce, At

LEMMA MinePaidKeeps ==
  ASSUME TopUpInv, MinePaid
  PROVE  TopUpInv'
<1> DEFINE v == pool[Latest].value
           to == pool[Latest].to
<1>1. /\ Minable /\ mined' = Append(mined, "paid") /\ pool' = PoolAfter
      /\ master' = master - v - Fee /\ bot' = bot /\ stray' = stray
      /\ troubles' = troubles /\ balance' = [balance EXCEPT ![to] = balance[to] + v]
  BY DEF MinePaid
<1>2. /\ Latest \in DOMAIN pool /\ Latest \in Nat /\ to \in Target /\ v \in Nat
      /\ master \in Nat /\ Fee \in Nat /\ master >= v + Fee
  BY <1>1, MinedFacts
<1>3. /\ mined' \in Seq({"paid", "reverted"}) /\ Pooled' /\ Accounted'
      /\ DOMAIN pool' = DOMAIN pool \ {Latest}
      /\ Latest' = Latest + 1 /\ mined'[Latest + 1] = "paid"
  BY <1>1, <1>2, MinedLeaves
<1>4. Kinds'
  <2> HIDE DEF v, to
  <2>1. master' \in Nat
    BY <1>1, <1>2
  <2>2. balance' \in [Target -> Nat]
    <3>1. balance \in [Target -> Nat] /\ balance[to] + v \in Nat
      BY <1>2 DEF TopUpInv, Kinds
    <3> QED
      BY <1>1, <3>1
  <2> QED
    BY <1>1, <1>3, <2>1, <2>2, BotStays DEF TopUpInv, Kinds
<1>5. Planned'
  <2> SUFFICES ASSUME stray = {} PROVE Waiting' /\ At("confirm")
    BY <1>1 DEF Planned, At
  <2>1. /\ At("confirm") /\ SentNonce = Latest /\ Affordable /\ v = bot.valueWei
    BY <1>1, MinedFacts
  <2>2. SentNonce' = Latest /\ SentNonce' \notin DOMAIN pool' /\ Done' = Done
    BY <1>1, <1>3, <2>1, BotStays
  <2>3. bot.masterWei - v <= master' + Fees(Done + 1)
    <3>1. /\ Fees(Done) \in Nat /\ Fees(Done + 1) = Fees(Done) + Fee /\ bot.masterWei \in Nat
          /\ bot.masterWei <= master + Fees(Done)
      BY <2>1, BotFacts DEF At, Bot, Affordable
    <3> HIDE DEF v
    <3> QED
      BY <1>1, <1>2, <3>1
  <2>4. mined'[SentNonce' + 1] # "reverted"
    BY <1>3, <2>2
  <2> QED
    BY <1>1, <2>1, <2>2, <2>3, <2>4, BotStays DEF Waiting
<1> QED
  BY <1>3, <1>4, <1>5 DEF TopUpInv

LEMMA MineRevertedKeeps ==
  ASSUME TopUpInv, MineReverted
  PROVE  TopUpInv'
<1>1. /\ Minable /\ mined' = Append(mined, "reverted") /\ pool' = PoolAfter
      /\ master' = master - Fee /\ bot' = bot /\ stray' = stray
      /\ troubles' \in 0 .. MaxTroubles /\ balance' = balance
  BY TroubleCounts DEF MineReverted
<1>2. /\ Latest \in DOMAIN pool /\ pool[Latest].value \in Nat
      /\ master \in Nat /\ Fee \in Nat /\ master >= pool[Latest].value + Fee
  BY <1>1, MinedFacts
<1>3. /\ mined' \in Seq({"paid", "reverted"}) /\ Pooled' /\ Accounted'
      /\ DOMAIN pool' = DOMAIN pool \ {Latest}
  BY <1>1, <1>2, MinedLeaves
<1>4. master' \in Nat
  BY <1>1, <1>2
<1>5. Kinds'
  BY <1>1, <1>3, <1>4, BotStays DEF TopUpInv, Kinds
<1>6. Planned'
  <2> SUFFICES ASSUME stray = {} PROVE Waiting' /\ At("confirm")
    BY <1>1 DEF Planned, At
  <2>1. At("confirm") /\ SentNonce = Latest /\ Affordable
    BY <1>1, MinedFacts
  <2>2. SentNonce' \notin DOMAIN pool' /\ Done' = Done
    BY <1>1, <1>3, <2>1, BotStays
  <2>3. /\ bot.masterWei <= master' + Fees(Done + 1)
        /\ bot.masterWei - bot.valueWei <= master' + Fees(Done + 1)
    <3>1. /\ Fees(Done) \in Nat /\ Fees(Done + 1) = Fees(Done) + Fee
          /\ bot.masterWei \in Nat /\ bot.valueWei \in Nat
          /\ bot.masterWei <= master + Fees(Done)
      BY <2>1, BotFacts DEF At, Bot, Affordable
    <3>2. master \in Nat /\ Fee \in Nat /\ master' = master - Fee
      BY <1>1, <1>2
    <3> QED
      BY <3>1, <3>2
  <2> QED
    BY <1>1, <2>1, <2>2, <2>3, BotStays DEF Waiting
<1> QED
  BY <1>3, <1>5, <1>6 DEF TopUpInv

LEMMA DroppedKeeps ==
  ASSUME TopUpInv, Dropped
  PROVE  TopUpInv'
<1>1. PICK n \in DOMAIN pool : pool' = [m \in DOMAIN pool \ {n} |-> pool[m]]
  BY DEF Dropped
<1>2. /\ mined' = mined /\ master' = master /\ balance' = balance /\ bot' = bot
      /\ stray' = stray /\ troubles' \in 0 .. MaxTroubles
  BY TroubleCounts DEF Dropped
<1>3. DOMAIN pool' \subseteq DOMAIN pool /\ \A m \in DOMAIN pool' : pool'[m] = pool[m]
  BY <1>1
<1>4. Pooled'
  <2>1. IsFiniteSet(DOMAIN pool')
    BY <1>3, FS_Subset DEF TopUpInv, Kinds, Pooled
  <2> QED
    BY <1>2, <1>3, <2>1 DEF TopUpInv, Kinds, Pooled, Latest, Payload
<1>5. Kinds'
  BY <1>2, <1>4, BotStays DEF TopUpInv, Kinds
<1>6. Accounted'
  BY <1>2, <1>3 DEF TopUpInv, Accounted, At, SentNonce
<1>7. Waiting => Waiting'
  BY <1>2, <1>3, BotStays DEF Waiting, FillsUp, Affordable, Confirmed, Latest, Fees
<1>8. Planned'
  BY <1>2, <1>7 DEF TopUpInv, Planned, At, FillsUp, Affordable, Done, Fees
<1> QED
  BY <1>5, <1>6, <1>8 DEF TopUpInv

LEMMA SpendKeeps ==
  ASSUME TopUpInv, NEW t \in Target, NEW amount \in 1 .. MinWei, Spend(t, amount)
  PROVE  TopUpInv'
<1>1. /\ mined' = mined /\ master' = master /\ pool' = pool /\ bot' = bot
      /\ stray' = stray /\ troubles' \in 0 .. MaxTroubles
      /\ balance[t] >= amount /\ balance' = [balance EXCEPT ![t] = balance[t] - amount]
  BY TroubleCounts DEF Spend
<1>2. /\ balance' \in [Target -> Nat]
      /\ \A u \in Target : balance[u] \in Nat /\ balance'[u] \in Nat /\ balance'[u] <= balance[u]
  <2>1. balance \in [Target -> Nat] /\ amount \in Nat
    BY TopUpAssumption DEF TopUpInv, Kinds
  <2>2. balance[t] - amount \in Nat /\ balance[t] - amount <= balance[t]
    BY <1>1, <2>1
  <2> QED
    BY <1>1, <2>1, <2>2
<1>3. Kinds' /\ Accounted'
  BY <1>1, <1>2, BotStays DEF TopUpInv, Kinds, Pooled, Latest, Payload, Accounted, At, SentNonce
<1>4. ASSUME FillsUp, bot.left # <<>> PROVE FillsUp'
  <2>1. Head(bot.left) \in Target /\ bot.valueWei \in Nat
    BY <1>4, BotFacts DEF Bot
  <2>2. ToWei + STEP \in Nat
    BY TopUpAssumption
  <2> QED
    BY <1>1, <1>2, <1>4, <2>1, <2>2 DEF FillsUp
<1>5. bot.left # <<>> /\ Waiting => Waiting'
  BY <1>1, <1>4, BotStays DEF Waiting, Affordable, Confirmed, Latest, Fees
<1>6. bot.pc \in {"send", "confirm"} => bot.left # <<>>
  BY BotFacts
<1>7. Planned'
  BY <1>1, <1>4, <1>5, <1>6 DEF TopUpInv, Planned, At, Affordable, Done, Fees
<1> QED
  BY <1>3, <1>7 DEF TopUpInv

LEMMA DonateKeeps ==
  ASSUME TopUpInv, Donate
  PROVE  TopUpInv'
<1>1. /\ mined' = mined /\ balance' = balance /\ pool' = pool /\ bot' = bot
      /\ stray' = stray /\ troubles' \in 0 .. MaxTroubles
      /\ master' = master + Faucet
  BY TroubleCounts DEF Donate
<1>2. master \in Nat /\ master' \in Nat /\ master <= master'
  BY <1>1, TopUpAssumption DEF TopUpInv, Kinds
<1>3. Kinds' /\ Accounted'
  BY <1>1, <1>2, BotStays DEF TopUpInv, Kinds, Pooled, Latest, Payload, Accounted, At, SentNonce
<1>4. bot.masterWei \in Nat /\ bot.valueWei \in Nat /\ bot.masterWei - bot.valueWei \in Int
  BY BotFacts DEF Bot
<1>5. \A w \in Int : \A f \in Nat : w <= master + f => w <= master' + f
  <2>1. PICK n \in Nat : n = master'
    BY <1>2
  <2>2. \A w \in Int : \A f \in Nat : w <= master + f => w <= n + f
    <3> TAKE w \in Int
    <3> TAKE f \in Nat
    <3>1. master \in Nat /\ master <= n
      BY <1>2, <2>1
    <3> QED
      BY <3>1
  <2> QED
    BY <2>1, <2>2
<1>6. ASSUME bot.left # <<>>
      PROVE  /\ Affordable => Affordable'
             /\ Waiting => Waiting'
  <2>1. Fees(Done) \in Nat /\ Fees(Done + 1) \in Nat
    BY <1>6, BotFacts, TopUpAssumption
  <2>2. Affordable => Affordable'
    BY <1>1, <1>4, <1>5, <2>1 DEF Affordable, Done, Fees
  <2>3. FillsUp' = FillsUp /\ Confirmed' = Confirmed /\ SentNonce' = SentNonce
    BY <1>1 DEF FillsUp, Confirmed, Latest, SentNonce
  <2>4. Waiting => Waiting'
    BY <1>1, <1>4, <1>5, <2>1, <2>2, <2>3, BotStays DEF Waiting
  <2> QED
    BY <2>2, <2>4
<1>7. /\ bot.pc \in {"target", "send", "confirm"} => bot.left # <<>>
      /\ bot.masterWei <= master => bot.masterWei <= master'
  BY <1>2, <1>4, BotFacts
<1>8. Planned'
  BY <1>1, <1>6, <1>7 DEF TopUpInv, Planned, At, FillsUp
<1> QED
  BY <1>3, <1>8 DEF TopUpInv

\* Every step of the bot and of its chain keeps the invariant.
LEMMA TopUpInvStep ==
  ASSUME TopUpInv, TopUpNext
  PROVE  TopUpInv'
<1>1. CASE BotStep
  BY <1>1, WakeKeeps, ReadMasterKeeps, ReadNonceKeeps, ReadTargetKeeps, SendKeeps,
     SendRefusedKeeps, ConfirmReceiptKeeps, ConfirmNonceKeeps, ConfirmTimeoutKeeps DEF BotStep
<1>2. CASE BotFails
  BY <1>2, ReadFailsKeeps, ReadTargetFailsKeeps, SendRefusedKeeps, SendReplyLostKeeps,
     CrashKeeps DEF BotFails
<1>3. CASE MinePaid \/ MineReverted \/ Dropped \/ Donate
  BY <1>3, MinePaidKeeps, MineRevertedKeeps, DroppedKeeps, DonateKeeps
<1>4. CASE \E t \in Target, amount \in 1 .. MinWei : Spend(t, amount)
  BY <1>4, SpendKeeps
<1> QED
  BY <1>1, <1>2, <1>3, <1>4 DEF TopUpNext

\* The bot starts with nothing sent.
LEMMA TopUpInvInit == TopUpInit => TopUpInv
<1> SUFFICES ASSUME TopUpInit PROVE TopUpInv
  OBVIOUS
<1>1. /\ mined = <<>> /\ pool = [n \in {} |-> <<>>] /\ master \in Nat
      /\ balance \in [Target -> Nat] /\ stray = {} /\ troubles \in 0 .. MaxTroubles
  BY TopUpAssumption DEF TopUpInit
<1>2. bot \in Bot /\ bot.left = <<>> /\ bot.pc = "down"
  <2>1. bot = Down
    BY DEF TopUpInit
  <2>2. Down.pc = "down"
    BY DEF Down
  <2> QED
    BY <2>1, <2>2, AtRest
<1>3. BotOK
  <2>1. Len(Targets) \in Nat /\ Len(bot.left) = 0
    BY <1>2, TargetsOK
  <2> QED
    BY <1>2, <2>1 DEF BotOK
<1>4. DOMAIN pool = {} /\ IsFiniteSet(DOMAIN pool)
  BY <1>1, FS_EmptySet
<1>5. Kinds
  BY <1>1, <1>3, <1>4 DEF Kinds, Pooled
<1>6. Accounted
  BY <1>4 DEF Accounted
<1>7. Planned
  BY <1>2 DEF Planned, At
<1> QED
  BY <1>5, <1>6, <1>7 DEF TopUpInv

\* A step of the monitor leaves the bot and its chain as they are.
LEMMA TopUpInvStutters ==
  ASSUME TopUpInv, UNCHANGED topUpVars
  PROVE  TopUpInv'
<1>1. /\ mined' = mined /\ pool' = pool /\ master' = master /\ balance' = balance
      /\ bot' = bot /\ stray' = stray /\ troubles' = troubles
  BY DEF topUpVars
<1>2. Kinds' /\ Accounted'
  BY <1>1, BotStays DEF TopUpInv, Kinds, Pooled, Latest, Payload, Accounted, At, SentNonce
<1>3. Planned'
  BY <1>1 DEF TopUpInv, Planned, Waiting, At, Affordable, FillsUp, Confirmed, Latest,
              SentNonce, Done, Fees
<1> QED
  BY <1>2, <1>3 DEF TopUpInv

(***************************************************************************)
(* With nothing stray only the payment the bot waits for is mined: it      *)
(* leaves the reserve but for the fees of the cycle, and does not lift its *)
(* target beyond --to and a unit.                                          *)
(***************************************************************************)
PaysAsPlanned ==
  stray = {} =>
    /\ master' < master => master' + Len(Targets) * Fee >= ReserveWei
    /\ \A t \in Target : balance'[t] > balance[t] => balance'[t] < ToWei + STEP

LEMMA MinedAsPlanned ==
  ASSUME TopUpInv, Minable, stray = {}
  PROVE  /\ master - pool[Latest].value - Fee + Fees(Len(Targets)) >= ReserveWei
         /\ pool[Latest].to = Head(bot.left)
         /\ balance[pool[Latest].to] + pool[Latest].value < ToWei + STEP
<1> DEFINE v == bot.valueWei
<1>1. /\ At("confirm") /\ FillsUp /\ Affordable
      /\ pool[Latest].to = Head(bot.left) /\ pool[Latest].value = v
      /\ master \in Nat /\ Fee \in Nat
  BY MinedFacts
<1>2. /\ bot.left # <<>> /\ bot \in Bot /\ bot.masterWei - v >= ReserveWei
  BY <1>1, BotFacts DEF TopUpInv, Kinds, BotOK, At
<1>3. /\ Fees(Done) \in Nat /\ Fees(Done) + Fee <= Fees(Len(Targets))
      /\ Fees(Len(Targets)) \in Nat
  <2>1. Done \in Nat /\ Done + 1 \in Nat /\ Done + 1 <= Len(Targets) /\ Len(Targets) \in Nat
    BY <1>2, BotFacts, TargetsOK
  <2> QED
    BY <2>1, FeesAddUp, FeesOfMore
<1>4. /\ bot.masterWei \in Nat /\ v \in Nat /\ ReserveWei \in Nat
      /\ bot.masterWei <= master + Fees(Done)
  BY <1>1, <1>2, TopUpAssumption DEF Bot, Affordable
<1>5. master - v - Fee + Fees(Len(Targets)) >= ReserveWei
  <2> HIDE DEF v
  <2> QED
    BY <1>1, <1>2, <1>3, <1>4
<1> QED
  BY <1>1, <1>5 DEF FillsUp

LEMMA StepPaysAsPlanned ==
  ASSUME TopUpInv, TopUpNext
  PROVE  PaysAsPlanned
<1> SUFFICES ASSUME stray = {}
             PROVE  /\ master' < master => master' + Len(Targets) * Fee >= ReserveWei
                    /\ \A t \in Target : balance'[t] > balance[t] => balance'[t] < ToWei + STEP
  BY DEF PaysAsPlanned
<1>1. master \in Nat /\ balance \in [Target -> Nat] /\ Fee \in Nat /\ Faucet \in Nat
  BY TopUpAssumption DEF TopUpInv, Kinds
<1>2. CASE MinePaid
  <2> DEFINE v == pool[Latest].value
             to == pool[Latest].to
  <2>1. /\ Minable /\ master' = master - v - Fee
        /\ balance' = [balance EXCEPT ![to] = balance[to] + v]
    BY <1>2 DEF MinePaid
  <2>2. to \in Target /\ v \in Nat
    BY <2>1, MinedFacts
  <2>3. /\ master - v - Fee + Fees(Len(Targets)) >= ReserveWei
        /\ balance[to] + v < ToWei + STEP
    BY <2>1, MinedAsPlanned
  <2> HIDE DEF v, to
  <2>4. \A t \in Target : balance'[t] = IF t = to THEN balance[to] + v ELSE balance[t]
    BY <1>1, <2>1
  <2>5. \A t \in Target : balance[t] \in Nat
    BY <1>1
  <2>6. \A t \in Target : balance'[t] > balance[t] => balance'[t] < ToWei + STEP
    BY <2>3, <2>4, <2>5
  <2> QED
    BY <2>1, <2>3, <2>6 DEF Fees
<1>3. CASE MineReverted
  <2>1. Minable /\ master' = master - Fee /\ balance' = balance
    BY <1>3 DEF MineReverted
  <2> DEFINE v == pool[Latest].value
             fees == Fees(Len(Targets))
  <2>2. v \in Nat /\ master - v - Fee + fees >= ReserveWei
    BY <2>1, MinedFacts, MinedAsPlanned
  <2>3. fees \in Nat /\ fees = Len(Targets) * Fee /\ ReserveWei \in Nat
    BY TargetsOK, FeesAddUp, TopUpAssumption DEF Fees
  <2> HIDE DEF v, fees
  <2>4. master' + fees >= ReserveWei
    BY <1>1, <2>1, <2>2, <2>3
  <2>5. \A t \in Target : balance'[t] = balance[t] /\ balance[t] \in Nat
    BY <1>1, <2>1
  <2> QED
    BY <2>3, <2>4, <2>5
<1>4. CASE \E t \in Target, amount \in 1 .. MinWei : Spend(t, amount)
  <2>1. PICK t \in Target, amount \in 1 .. MinWei : Spend(t, amount)
    BY <1>4
  <2>2. master' = master /\ balance' = [balance EXCEPT ![t] = balance[t] - amount]
    BY <2>1 DEF Spend
  <2>3. \A u \in Target : balance[u] \in Nat /\ balance'[u] <= balance[u] /\ balance'[u] \in Int
    BY <1>1, <2>2, TopUpAssumption
  <2> QED
    BY <1>1, <2>2, <2>3
<1>5. CASE Donate
  <2>1. master' = master + Faucet /\ balance' = balance
    BY <1>5 DEF Donate
  <2> QED
    BY <1>1, <2>1
<1>6. CASE BotStep \/ BotFails \/ Dropped
  <2>1. master' = master /\ balance' = balance
    BY <1>6 DEF BotStep, BotFails, Dropped, Wake, ReadMaster, ReadNonce, ReadTarget, Send,
                SendRefused, ConfirmReceipt, ConfirmNonce, ConfirmTimeout, ReadFails,
                ReadTargetFails, SendFails, SendReplyLost, Crash, OnChain, Taken
  <2> QED
    BY <1>1, <2>1
<1> QED
  BY <1>2, <1>3, <1>4, <1>5, <1>6 DEF TopUpNext

-----------------------------------------------------------------------------
(* The two daemons                                                         *)

FleetInv == daemon \in {"monitor", "topup"} /\ MonitorInv /\ TopUpInv

LEMMA FleetInvInit == FleetInit => FleetInv
  BY MonitorInvInit, TopUpInvInit DEF FleetInit, FleetInv

LEMMA FleetInvStep == FleetInv /\ [FleetNext]_fleetVars => FleetInv'
<1> SUFFICES ASSUME FleetInv, [FleetNext]_fleetVars
             PROVE  FleetInv'
  OBVIOUS
<1>1. CASE OfMonitor(MonitorNext)
  BY <1>1, MonitorInvStep, TopUpInvStutters DEF OfMonitor, FleetInv
<1>2. CASE OfTopUp(TopUpNext)
  BY <1>2, MonitorInvStutters, TopUpInvStep DEF OfTopUp, FleetInv
<1>3. CASE UNCHANGED fleetVars
  BY <1>3, MonitorInvStutters, TopUpInvStutters DEF fleetVars, FleetInv
<1> QED
  BY <1>1, <1>2, <1>3 DEF FleetNext

LEMMA FleetInvariant == FleetSpec => []FleetInv
  BY FleetInvInit, FleetInvStep, PTL DEF FleetSpec

(***************************************************************************)
(* THE MONITOR'S ALERTS.  Whatever cycles overlap and however the loops of *)
(* reconcileIssues interleave, the active issues are those whose last      *)
(* alert was FIRING, and no alert repeats one before cycles have           *)
(* overlapped (monitor.mjs:7-8, 96-107).                                   *)
(***************************************************************************)
THEOREM AlertsInStep == FleetSpec => []AlertsMatchIssues
<1>1. FleetInv => AlertsMatchIssues
  BY DEF FleetInv, MonitorInv, Reconciled
<1> QED
  BY <1>1, FleetInvariant, PTL

(***************************************************************************)
(* THE MASTER'S RESERVE.  With nothing left in the mempool by an earlier   *)
(* cycle, no payment takes the master below --reserve by more than a fee   *)
(* for each target, and none lifts a target's balance to --to plus a unit  *)
(* or beyond (topup.mjs:5-6), however reads fail, replies are lost,        *)
(* transactions revert and the process restarts.                           *)
(***************************************************************************)
THEOREM MasterSpendsAsPlanned == FleetSpec => PaidAsPlanned
<1>1. FleetInv /\ [FleetNext]_fleetVars => [PaysAsPlanned]_topUpVars
  BY StepPaysAsPlanned DEF FleetInv, FleetNext, OfMonitor, OfTopUp, fleetVars
<1>2. FleetSpec => [][PaysAsPlanned]_topUpVars
  BY <1>1, FleetInvariant, PTL DEF FleetSpec
<1> QED
  BY <1>2 DEF PaysAsPlanned, PaidAsPlanned

(***************************************************************************)
(* TYPES.  The two daemons keep their state in shape: a cycle's probes are *)
(* a rest of its list, the bot has a target in hand exactly when it deals  *)
(* with one, and no amount it reckons with falls below zero.               *)
(***************************************************************************)
THEOREM FleetTypes == FleetSpec => []FleetTypeOK
<1>1. FleetInv => FleetTypeOK
  <2> SUFFICES ASSUME FleetInv PROVE FleetTypeOK
    OBVIOUS
  <2>1. MonitorTypeOK
    BY DEF FleetInv, MonitorInv, Watched, Reconciled, Cycles, Alerts, MonitorTypeOK
  <2>2. TopUpTypeOK
    BY DEF FleetInv, TopUpInv, Kinds, Pooled, Payload, BotOK, Bot, TopUpTypeOK
  <2> QED
    BY <2>1, <2>2 DEF FleetInv, FleetTypeOK
<1> QED
  BY <1>1, FleetInvariant, PTL
=============================================================================
