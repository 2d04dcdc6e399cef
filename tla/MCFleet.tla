------------------------------ MODULE MCFleet --------------------------------
(***************************************************************************)
(* The instance of Fleet that TLC checks: a monitor that watches a relay,  *)
(* a co-signer or an account and the chain, with two overlapping cycles;   *)
(* a bot with two targets, one of them listed twice and next to the        *)
(* master, that can afford one top-up or two.                              *)
(***************************************************************************)
EXTENDS Fleet

Watch(relays, cosigners, accounts, unsteady) ==
  [relays |-> relays, cosigners |-> cosigners, accounts |-> accounts,
   unsteady |-> unsteady]

MCFleets ==
  {Watch({"diana"}, {}, {}, {"relay"}),
   Watch({}, {"bob"}, {}, {"cosigner"}),
   Watch({}, {}, {"diana"}, {"chain", "gas"})}

MCListed == <<"relay", "master", "advertiser", "relay">>
=============================================================================
