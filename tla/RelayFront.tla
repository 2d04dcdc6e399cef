----------------------------- MODULE RelayFront ------------------------------
(***************************************************************************)
(* What stands in the relay between a post and its queues: the rate        *)
(* limiter, the operator's policy and the routing of the advertiser's      *)
(* signature.  The three are separate modules of the program that share    *)
(* no state and never call each other, so an interleaving of their steps   *)
(* shows nothing that each does not show alone: a behaviour moves one of   *)
(* them, chosen at the start, and leaves the others in an initial state.   *)
(***************************************************************************)
EXTENDS RateLimiter, RelayPolicy, CosignRouting

VARIABLE part  \* the part of the front this behaviour moves

frontVars == <<part, limiterVars, policyVars, routingVars>>

Parts == {"limiter", "policy", "routing"}

(***************************************************************************)
(* One initial state each for the parts that do not move.                  *)
(***************************************************************************)
PolicyAtRest == policy = NoPolicy /\ file = Missing /\ edited = "none"

RoutingAtRest ==
  /\ config = CHOOSE c \in Configurations : AssertConfig(c)
  /\ RoutingInit

FrontInit ==
  /\ part \in Parts
  /\ LimiterInit
  /\ IF part = "policy" THEN PolicyInit ELSE PolicyAtRest
  /\ IF part = "routing" THEN RoutingInit ELSE RoutingAtRest

LimiterStep ==
  part = "limiter" /\ LimiterNext /\ UNCHANGED <<part, policyVars, routingVars>>

PolicyStep ==
  part = "policy" /\ PolicyNext /\ UNCHANGED <<part, limiterVars, routingVars>>

RoutingStep ==
  part = "routing" /\ RoutingNext /\ UNCHANGED <<part, limiterVars, policyVars>>

FrontNext == LimiterStep \/ PolicyStep \/ RoutingStep

FrontSpec == FrontInit /\ [][FrontNext]_frontVars

-----------------------------------------------------------------------------

(***************************************************************************)
(* The types of the three parts.                                           *)
(***************************************************************************)
FrontTypeOK ==
  /\ part \in Parts
  /\ LimiterTypeOK
  /\ PolicyTypeOK
  /\ RoutingTypeOK
=============================================================================
