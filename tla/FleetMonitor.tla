---------------------------- MODULE FleetMonitor -----------------------------
(***************************************************************************)
(* The fleet monitor: cycle, reconcileIssues and alert of                  *)
(* relay/scripts/monitor.mjs.                                              *)
(*                                                                         *)
(* A cycle awaits one probe after the other and then one alert after the   *)
(* other.  A timer starts the next one whether or not the last has ended,  *)
(* so cycles overlap; they share the issues, the error counts of the last  *)
(* probes and the stall count.  The services and the chain change at any   *)
(* time.  Both services answer /health with 503 while they are not ready,  *)
(* which getJson takes for unreachable: the monitor's two `unhealthy`      *)
(* issues cannot be raised and are not modelled.                           *)
(***************************************************************************)
EXTENDS Integers, FiniteSets, SequencesExt

CONSTANTS
  Fleets,              \* what the monitor may be started to watch, and
                       \* (unsteady) which kinds of it change
  CHAIN_STALL_CYCLES,  \* cycles without a new block before the alert
  ErrorBurst,          \* new claim errors between two probes that alert
  MaxErrors,           \* bound: a relay's claim errors before it restarts
  MaxOverlap           \* bound: cycles running at the same time

ASSUME MonitorAssumption ==
  /\ \A f \in Fleets :
       /\ DOMAIN f = {"relays", "cosigners", "accounts", "unsteady"}
       /\ IsFiniteSet(f.relays)
       /\ IsFiniteSet(f.cosigners)
       /\ IsFiniteSet(f.accounts)
  /\ CHAIN_STALL_CYCLES \in Nat \ {0}
  /\ ErrorBurst \in Nat \ {0}
  /\ MaxErrors \in Nat
  /\ MaxOverlap \in Nat \ {0}

VARIABLES
  watched,     \* RELAYS, COSIGNERS and GAS_WATCH (and what is unsteady)
  health,      \* the services' answers, the chain and the balances
  issues,      \* the active issues
  prevErrors,  \* relay -> claim errors at its last probe, -1 before
  stallCycles, \* probes of the chain in a row that saw no new block
  cycles,      \* the running cycles
  alerted,     \* history: issue -> the last alert about it
  noted        \* history: "apart" until an alert repeats the issue's last
               \* one ("repeated") or two cycles overlap ("overlapped")

monitorVars == <<watched, health, issues, prevErrors, stallCycles, cycles,
                 alerted, noted>>
reconciled == <<issues, alerted, noted>>

Issue(what, who) == [what |-> what, who |-> who]
Rpc == Issue("chain.rpc", "chain")
Stalled == Issue("chain.stalled", "chain")

IssuesOf(fleet) ==
  {Issue(what, n) : what \in {"relay.down", "relay.backlog", "relay.errors"},
                    n \in fleet.relays}
  \cup {Issue("cosigner.down", n) : n \in fleet.cosigners}
  \cup {Issue("gas.low", n) : n \in fleet.accounts}
  \cup {Rpc, Stalled}

Idle == [pc |-> "idle", probes |-> <<>>, current |-> {}, todo |-> {}]

(***************************************************************************)
(* The order of a cycle's probes.                                          *)
(***************************************************************************)
Probes(kind, names) == SetToSeq({[kind |-> kind, who |-> n] : n \in names})

ProbeList ==
  Probes("relay", watched.relays) \o Probes("cosigner", watched.cosigners)
  \o Probes("chain", {"chain"}) \o Probes("gas", watched.accounts)

MonitorInit ==
  /\ watched \in Fleets
  /\ health = [relay |-> [n \in watched.relays |->
                            [up |-> TRUE, backlog |-> FALSE, errors |-> 0]],
               cosigner |-> [n \in watched.cosigners |-> TRUE],
               rpc |-> TRUE, newBlock |-> TRUE,
               low |-> [n \in watched.accounts |-> FALSE]]
  /\ issues = {}
  /\ prevErrors = [n \in watched.relays |-> -1]
  /\ stallCycles = 0
  /\ cycles = [k \in 1 .. MaxOverlap |-> Idle]
  /\ alerted = [i \in IssuesOf(watched) |-> "RESOLVED"]
  /\ noted = "apart"

-----------------------------------------------------------------------------
(* Alerts                                                                  *)

Alert(level, issue) ==
  /\ alerted' = [alerted EXCEPT ![issue] = level]
  /\ noted' = IF noted = "apart" /\ alerted[issue] = level THEN "repeated" ELSE noted

Continues(k, cycle) == cycles' = [cycles EXCEPT ![k] = cycle]

(***************************************************************************)
(* reconcileIssues between two alerts.  First each issue seen is visited   *)
(* once: one that is active then is passed over, also when an overlapping  *)
(* cycle resolves it later, and one that is not fires.  Then those active  *)
(* when the first loop ended are resolved unless they were seen.  (The     *)
(* order of each loop is left open, and the optional reminders, which      *)
(* change nothing here, are left out.)                                     *)
(***************************************************************************)
ResolveKeeping(k, current, listed) ==  \* mutant: the issue is not deleted
  IF listed \subseteq current
  THEN Continues(k, Idle) /\ UNCHANGED reconciled
  ELSE \E i \in listed \ current :
         /\ Alert("RESOLVED", i)
         /\ Continues(k, [pc |-> "resolve", probes |-> <<>>,
                          current |-> current, todo |-> listed \ {i}])
         /\ UNCHANGED issues

Resolve(k, current, listed) ==
  IF listed \subseteq current
  THEN Continues(k, Idle) /\ UNCHANGED reconciled
  ELSE \E i \in listed \ current :
         /\ issues' = issues \ {i}
         /\ Alert("RESOLVED", i)
         /\ Continues(k, [pc |-> "resolve", probes |-> <<>>,
                          current |-> current, todo |-> listed \ {i}])

Fire(k, current, todo) ==
  IF todo \subseteq issues
  THEN Resolve(k, current, issues)
  ELSE \E i \in todo \ issues, passed \in SUBSET (todo \cap issues) :
         /\ issues' = issues \cup {i}
         /\ Alert("FIRING", i)
         /\ Continues(k, [pc |-> "fire", probes |-> <<>>, current |-> current,
                          todo |-> todo \ ({i} \cup passed)])

AlertReturns(k) ==
  /\ \/ cycles[k].pc = "fire" /\ Fire(k, cycles[k].current, cycles[k].todo)
     \/ cycles[k].pc = "resolve" /\ Resolve(k, cycles[k].current, cycles[k].todo)
  /\ UNCHANGED <<watched, health, prevErrors, stallCycles>>

-----------------------------------------------------------------------------
(* Probes                                                                  *)

(***************************************************************************)
(* The timer's cycle.  (The bound on overlapping ones is the model's.)     *)
(***************************************************************************)
StartCycle(k) ==
  /\ cycles[k].pc = "idle"
  /\ Continues(k, [pc |-> "probe", probes |-> ProbeList, current |-> {}, todo |-> {}])
  /\ noted' = IF noted = "apart" /\ \E j \in DOMAIN cycles : cycles[j].pc # "idle"
              THEN "overlapped" ELSE noted
  /\ UNCHANGED <<watched, health, issues, prevErrors, stallCycles, alerted>>

(***************************************************************************)
(* A probe returns with the issues it has seen; the last one's cycle goes  *)
(* on to reconcile without waiting.                                        *)
(***************************************************************************)
Saw(k, seen) ==
  LET c == cycles[k]
      current == c.current \cup seen
  IN IF Len(c.probes) = 1 THEN Fire(k, current, current)
     ELSE /\ Continues(k, [c EXCEPT !.probes = Tail(@), !.current = current])
          /\ UNCHANGED reconciled

Probing(k, kind) ==
  cycles[k].pc = "probe" /\ Head(cycles[k].probes).kind = kind

When(condition, what, who) == IF condition THEN {Issue(what, who)} ELSE {}

NewErrors(n) ==
  IF prevErrors[n] = -1 THEN 0 ELSE health.relay[n].errors - prevErrors[n]

ProbeRelay(k) ==
  /\ Probing(k, "relay")
  /\ LET n == Head(cycles[k].probes).who
         h == health.relay[n]
     IN IF h.up
        THEN /\ Saw(k, When(h.backlog, "relay.backlog", n)
                       \cup When(NewErrors(n) >= ErrorBurst, "relay.errors", n))
             /\ prevErrors' = [prevErrors EXCEPT ![n] = h.errors]
        ELSE /\ Saw(k, {Issue("relay.down", n)})
             /\ UNCHANGED prevErrors
  /\ UNCHANGED <<watched, health, stallCycles>>

ProbeCosigner(k) ==
  /\ Probing(k, "cosigner")
  /\ LET n == Head(cycles[k].probes).who
     IN Saw(k, When(~health.cosigner[n], "cosigner.down", n))
  /\ UNCHANGED <<watched, health, prevErrors, stallCycles>>

(***************************************************************************)
(* The head's number: above the last one seen when a block has come since  *)
(* (as one always has on a chain that is not unsteady).                    *)
(* A read that fails leaves the stall count as it is.                      *)
(***************************************************************************)
Unsteady(kind) == kind \in watched.unsteady

Saturated(n) == IF n < CHAIN_STALL_CYCLES THEN n ELSE CHAIN_STALL_CYCLES

ProbeChainForgetting(k) ==  \* mutant: the count is not kept between cycles
  /\ Probing(k, "chain")
  /\ stallCycles' = IF health.rpc /\ ~health.newBlock THEN 1 ELSE 0
  /\ health' = [health EXCEPT !.newBlock = @ /\ ~(health.rpc /\ Unsteady("chain"))]
  /\ Saw(k, IF ~health.rpc THEN {Rpc}
            ELSE IF stallCycles' >= CHAIN_STALL_CYCLES THEN {Stalled} ELSE {})
  /\ UNCHANGED <<watched, prevErrors>>

ProbeChain(k) ==
  /\ Probing(k, "chain")
  /\ stallCycles' = IF ~health.rpc THEN stallCycles
                    ELSE IF health.newBlock THEN 0 ELSE Saturated(stallCycles + 1)
  /\ health' = [health EXCEPT !.newBlock = @ /\ ~(health.rpc /\ Unsteady("chain"))]
  /\ Saw(k, IF ~health.rpc THEN {Rpc}
            ELSE IF stallCycles' >= CHAIN_STALL_CYCLES THEN {Stalled} ELSE {})
  /\ UNCHANGED <<watched, prevErrors>>

(***************************************************************************)
(* A balance that cannot be read is no issue: it even resolves a low one.  *)
(***************************************************************************)
ProbeGas(k) ==
  /\ Probing(k, "gas")
  /\ LET n == Head(cycles[k].probes).who
     IN Saw(k, When(health.rpc /\ health.low[n], "gas.low", n))
  /\ UNCHANGED <<watched, health, prevErrors, stallCycles>>

CycleStep(k) ==
  AlertReturns(k) \/ ProbeRelay(k) \/ ProbeCosigner(k) \/ ProbeChain(k) \/ ProbeGas(k)

-----------------------------------------------------------------------------
(* The fleet                                                               *)

RelayChanges(n) ==
  \/ \E up \in BOOLEAN, backlog \in BOOLEAN :
       health' = [health EXCEPT !.relay[n] = [@ EXCEPT !.up = up, !.backlog = backlog]]
  \/ /\ health.relay[n].errors < MaxErrors
     /\ health' = [health EXCEPT !.relay[n] =
                [@ EXCEPT !.errors = health.relay[n].errors + 1]]
  \/ health' = [health EXCEPT !.relay[n] =    \* a restart
                  [up |-> FALSE, backlog |-> FALSE, errors |-> 0]]

FleetChanges ==
  /\ \/ Unsteady("relay") /\ \E n \in watched.relays : RelayChanges(n)
     \/ /\ Unsteady("cosigner")
        /\ \E n \in watched.cosigners :
             health' = [health EXCEPT !.cosigner[n] = ~@]
     \/ /\ Unsteady("chain")
        /\ \/ health' = [health EXCEPT !.rpc = ~@]
           \/ health' = [health EXCEPT !.newBlock = TRUE]
     \/ /\ Unsteady("gas")
        /\ \E n \in watched.accounts : health' = [health EXCEPT !.low[n] = ~@]
  /\ UNCHANGED <<watched, prevErrors, stallCycles, cycles>>
  /\ UNCHANGED reconciled

MonitorNext ==
  \/ \E k \in 1 .. MaxOverlap : StartCycle(k) \/ CycleStep(k)
  \/ FleetChanges

-----------------------------------------------------------------------------
(* Properties                                                              *)

CycleType ==
  [pc : {"idle", "probe", "fire", "resolve"},
   probes : {SubSeq(ProbeList, i, Len(ProbeList)) : i \in 1 .. Len(ProbeList) + 1},
   current : SUBSET IssuesOf(watched), todo : SUBSET IssuesOf(watched)]

MonitorTypeOK ==
  /\ watched \in Fleets
  /\ issues \subseteq IssuesOf(watched)
  /\ prevErrors \in [watched.relays -> -1 .. MaxErrors]
  /\ stallCycles \in 0 .. CHAIN_STALL_CYCLES
  /\ \A k \in DOMAIN cycles : cycles[k] \in CycleType
  /\ alerted \in [IssuesOf(watched) -> {"FIRING", "RESOLVED"}]
  /\ noted \in {"apart", "repeated", "overlapped"}

(***************************************************************************)
(* "FIRING on a new issue, RESOLVED when it clears" (monitor.mjs:7-8): the *)
(* active issues are those whose last alert was FIRING, also while cycles  *)
(* with different findings reconcile them at the same time; and no alert   *)
(* repeats the issue's last one, unless cycles have overlapped (two may    *)
(* list an issue before either resolves it, monitor.mjs:103-104).          *)
(***************************************************************************)
AlertsMatchIssues ==
  /\ \A i \in IssuesOf(watched) : i \in issues <=> alerted[i] = "FIRING"
  /\ noted # "repeated"

Broken(i) ==
  CASE i.what = "relay.down" -> ~health.relay[i.who].up
    [] i.what = "relay.backlog" ->
         health.relay[i.who].up /\ health.relay[i.who].backlog
    [] i.what = "cosigner.down" -> ~health.cosigner[i.who]
    [] i.what = "gas.low" -> health.rpc /\ health.low[i.who]
    [] i = Rpc -> ~health.rpc
    [] i = Stalled -> health.rpc /\ ~health.newBlock

Watching(i) == i \in IssuesOf(watched)

(***************************************************************************)
(* A burst of errors is an event, not a condition that stays.              *)
(***************************************************************************)
Lasting ==
  {i \in UNION {IssuesOf(f) : f \in Fleets} : i.what # "relay.errors"}

(***************************************************************************)
(* "makes outages VISIBLE" (monitor.mjs:1-2): what stays broken is in the  *)
(* end reported for good, and what stays repaired is in the end reported   *)
(* no more, whatever older cycles still have to say; a chain that stands   *)
(* still is reported even when reads of it fail in between at first.       *)
(* (The second half leaves the stall out: a read uses up the block that    *)
(* has come, so no chain that is read stays clear of standing still.)      *)
(***************************************************************************)
IssuesFollow ==
  \A i \in Lasting :
    /\ <>[](Watching(i) /\ Broken(i)) => <>[](i \in issues)
    /\ i # Stalled /\ <>[](Watching(i) /\ ~Broken(i)) => <>[](i \notin issues)
=============================================================================
