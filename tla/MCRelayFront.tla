---------------------------- MODULE MCRelayFront -----------------------------
(***************************************************************************)
(* The instance of RelayFront that TLC checks: two clients and the         *)
(* operator's loopback address; one publisher, two campaigns, one of them  *)
(* in the environment's allowlist; two advertisers with a campaign and a   *)
(* co-signer each, the second of which signs with a relay signer's key.    *)
(***************************************************************************)
EXTENDS RelayFront, TLC

CONSTANTS i1, i2, local, p1, c1, c2, a1, a2, r1, s1, s2

MCOwner == c1 :> a1 @@ c2 :> a2
MCKeyOf == s1 :> a1 @@ s2 :> r1

Environment(wallet, url, table, exposed, override) ==
  [advertiserWallet |-> wallet, url |-> url, table |-> table,
   exposed |-> exposed, allowInsecureSelfCosign |-> override]

(***************************************************************************)
(* With and without the advertiser's key and no co-signer, under every     *)
(* exposure; a default co-signer, hidden by a key and not; and tables that *)
(* name every advertiser, one only, or the wrong process, with and without *)
(* a default.                                                              *)
(***************************************************************************)
MCConfigurations ==
  {Environment(k, NoService, <<>>, e, o) :
     k \in {a1, NoKey}, e \in BOOLEAN, o \in BOOLEAN}
  \cup {Environment(k, s1, <<>>, TRUE, FALSE) : k \in {a2, NoKey}}
  \cup {Environment(NoKey, u, t, TRUE, FALSE) :
          u \in {s1, NoService},
          t \in {a2 :> s1, a1 :> s2, a1 :> s1 @@ a2 :> s2}}

=============================================================================
