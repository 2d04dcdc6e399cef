------------------------------- MODULE Fleet ---------------------------------
(***************************************************************************)
(* The operator's two daemons beside the relays: the monitor and the       *)
(* top-up bot.  They are processes of their own that only read or fund     *)
(* accounts and never talk to each other (the monitor's "TOP UP" alert is  *)
(* for a person), so a behaviour moves one of them, chosen at the start.   *)
(***************************************************************************)
EXTENDS FleetMonitor, TopUp

VARIABLE daemon  \* the daemon this behaviour moves

fleetVars == <<daemon, monitorVars, topUpVars>>

FleetInit ==
  /\ daemon \in {"monitor", "topup"}
  /\ IF daemon = "monitor" THEN MonitorInit
     ELSE watched = (CHOOSE f \in Fleets : TRUE) /\ MonitorInit
  /\ IF daemon = "topup" THEN TopUpInit
     ELSE master = (CHOOSE m \in InitialMaster : TRUE) /\ TopUpInit

OfMonitor(step) == daemon = "monitor" /\ step /\ UNCHANGED <<daemon, topUpVars>>
OfTopUp(step) == daemon = "topup" /\ step /\ UNCHANGED <<daemon, monitorVars>>

FleetNext == OfMonitor(MonitorNext) \/ OfTopUp(TopUpNext)

(***************************************************************************)
(* The fairness of the daemon that moves: the timer never stops and every  *)
(* probe and alert has a timeout; the unit restarts a bot that fails, its  *)
(* calls return or time out, and what can be mined is mined.               *)
(***************************************************************************)
FleetFairness ==
  /\ \A k \in 1 .. MaxOverlap :
       /\ WF_fleetVars(OfMonitor(StartCycle(k)))
       /\ WF_fleetVars(OfMonitor(CycleStep(k)))
  /\ WF_fleetVars(OfTopUp(BotStep))
  /\ WF_fleetVars(OfTopUp(MinePaid))

FleetSpec == FleetInit /\ [][FleetNext]_fleetVars /\ FleetFairness

-----------------------------------------------------------------------------

(***************************************************************************)
(* The types of the two daemons.                                           *)
(***************************************************************************)
FleetTypeOK ==
  /\ daemon \in {"monitor", "topup"}
  /\ MonitorTypeOK
  /\ TopUpTypeOK
=============================================================================
