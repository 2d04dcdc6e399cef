----------------------------- MODULE RelayPolicy -----------------------------
(***************************************************************************)
(* The operator's policy: relay/src/policy.mjs, edited through the local   *)
(* console (relay/src/admin.mjs) and kept in relay.config.json.            *)
(*                                                                         *)
(* The copy in memory decides; every edit changes it first and then writes *)
(* the whole file.  An edit is one step (the handlers do not await once    *)
(* the body is read), but the write may fail, before or after the file was *)
(* emptied, and the process may die in it.  Display fields (publisherMeta, *)
(* source) are left out.                                                   *)
(***************************************************************************)
EXTENDS Integers

CONSTANTS
  Publisher,          \* publisher addresses
  Campaign,           \* campaign ids
  Cpm,                \* rates in wei
  CAMPAIGN_ALLOWLIST  \* campaigns the environment adds at every start

ASSUME PolicyAssumption ==
  /\ Cpm \subseteq Nat
  /\ 0 \in Cpm
  /\ CAMPAIGN_ALLOWLIST \subseteq Campaign

VARIABLES
  policy,  \* cfg, NoPolicy while the process is down
  file,    \* what relay.config.json holds
  edited   \* history: how the last edit of this process was answered

policyVars == <<policy, file, edited>>

NotANumber == -1   \* a rate BigInt() throws at
NoPolicy == [running |-> FALSE]

Mode == {"auto", "manual"}
Documents ==
  [publishers : SUBSET Publisher, campaigns : SUBSET Campaign,
   maxCpmWei : Cpm \cup {NotANumber}, mode : Mode,
   manualCampaigns : SUBSET Campaign]
Policies == {d \in Documents : d.maxCpmWei # NotANumber}

Torn == [whole |-> FALSE]       \* emptied or cut short: JSON.parse throws
Missing == [exists |-> FALSE]   \* no such file

Defaults ==
  [publishers |-> {}, campaigns |-> {}, maxCpmWei |-> 0, mode |-> "auto",
   manualCampaigns |-> {}]

-----------------------------------------------------------------------------
(* Reading and replacing a policy                                          *)

(***************************************************************************)
(* The assignments of setRaw and of loadPolicy, in the code's order: when  *)
(* BigInt throws, the lists are replaced and the rest is not.              *)
(***************************************************************************)
AssignedUnread(j, p) == j  \* mutant: the rate is kept as it was written

Assigned(j, p) ==
  IF j.maxCpmWei = NotANumber
  THEN [p EXCEPT !.publishers = j.publishers, !.campaigns = j.campaigns]
  ELSE j

WithEnvironment(p) ==
  [p EXCEPT !.campaigns = @ \cup CAMPAIGN_ALLOWLIST]

Loaded(f) ==
  WithEnvironment(IF f \in {Torn, Missing} THEN Defaults ELSE Assigned(f, Defaults))

(***************************************************************************)
(* acceptClaim and signingModeFor: what the policy decides.  An empty list *)
(* accepts everything, and so does a rate that cannot be compared.         *)
(***************************************************************************)
AcceptClaim(p, campaign, publisher, rateWei) ==
  /\ p.campaigns = {} \/ campaign \in p.campaigns
  /\ p.publishers = {} \/ publisher \in p.publishers
  /\ p.maxCpmWei <= 0 \/ rateWei = NotANumber \/ rateWei <= p.maxCpmWei

SigningModeFor(p, campaign) ==
  IF p.mode = "manual" \/ campaign \in p.manualCampaigns
  THEN "manual" ELSE "auto"

-----------------------------------------------------------------------------
(* Edits                                                                   *)

PolicyInit ==
  /\ file \in {Missing, Torn, Defaults,
               [Defaults EXCEPT !.campaigns = Campaign,
                                !.maxCpmWei = NotANumber]}
  /\ policy = NoPolicy
  /\ edited = "none"

Running == policy # NoPolicy

(***************************************************************************)
(* persist: the write succeeds and the edit is answered 200; it throws     *)
(* before the file is opened (the compose file mounts it read-only) or     *)
(* after it was emptied (a full disk), and the answer is 400 or 500; or    *)
(* the process dies in the write.                                          *)
(***************************************************************************)
Persisted(p) ==
  \/ policy' = p /\ file' = p /\ edited' = "ok"
  \/ policy' = p /\ file' \in {file, Torn} /\ edited' = "failed"
  \/ policy' = NoPolicy /\ file' = Torn /\ edited' = "none"

AddPublisher(a) ==
  Running /\ Persisted([policy EXCEPT !.publishers = @ \cup {a}])

RemovePublisher(a) ==
  Running /\ Persisted([policy EXCEPT !.publishers = @ \ {a}])

AddCampaign(id) ==
  Running /\ Persisted([policy EXCEPT !.campaigns = @ \cup {id}])

RemoveCampaign(id) ==
  Running /\ Persisted([policy EXCEPT !.campaigns = @ \ {id}])

(***************************************************************************)
(* BigInt is called before the assignment: a bad rate changes nothing.     *)
(***************************************************************************)
SetMaxCpm(v) ==
  /\ Running
  /\ IF v = NotANumber
     THEN edited' = "failed" /\ UNCHANGED <<policy, file>>
     ELSE Persisted([policy EXCEPT !.maxCpmWei = v])

SetSigningMode(mode) ==
  Running /\ Persisted([policy EXCEPT !.mode = mode])

ManualSet(id, manual) ==
  IF manual THEN policy.manualCampaigns \cup {id}
            ELSE policy.manualCampaigns \ {id}

SetCampaignManualUnsaved(id, manual) ==  \* mutant: persist is not called
  /\ Running
  /\ policy' = [policy EXCEPT !.manualCampaigns = ManualSet(id, manual)]
  /\ edited' = "ok"
  /\ UNCHANGED file

SetCampaignManual(id, manual) ==
  /\ Running
  /\ Persisted([policy EXCEPT !.manualCampaigns = ManualSet(id, manual)])

(***************************************************************************)
(* The editor's whole document.  One that does not parse changes nothing;  *)
(* one with a bad rate leaves the policy half replaced and the file alone. *)
(***************************************************************************)
SetRaw(j) ==
  /\ Running
  /\ IF j.maxCpmWei = NotANumber
     THEN /\ policy' = Assigned(j, policy)
          /\ edited' = "failed"
          /\ UNCHANGED file
     ELSE Persisted(Assigned(j, policy))

SetRawUnparsed ==
  /\ Running
  /\ edited' = "failed"
  /\ UNCHANGED <<policy, file>>

(***************************************************************************)
(* loadPolicy, and the process dying between two edits.                    *)
(***************************************************************************)
LoadPolicy ==
  /\ ~Running
  /\ policy' = Loaded(file)
  /\ edited' = "none"
  /\ UNCHANGED file

Stop ==
  /\ Running
  /\ policy' = NoPolicy
  /\ edited' = "none"
  /\ UNCHANGED file

Edit ==
  \/ \E a \in Publisher : AddPublisher(a) \/ RemovePublisher(a)
  \/ \E id \in Campaign : AddCampaign(id) \/ RemoveCampaign(id)
  \/ \E v \in Cpm \cup {NotANumber} : SetMaxCpm(v)
  \/ \E mode \in Mode : SetSigningMode(mode)
  \/ \E id \in Campaign, manual \in BOOLEAN : SetCampaignManual(id, manual)
  \/ \E j \in Documents : SetRaw(j)
  \/ SetRawUnparsed

PolicyNext == LoadPolicy \/ Stop \/ Edit

-----------------------------------------------------------------------------
(* Properties                                                              *)

PolicyTypeOK ==
  /\ policy \in Policies \cup {NoPolicy}
  /\ file \in Documents \cup {Torn, Missing}
  /\ edited \in {"none", "ok", "failed"}

SameDecisions(p, q) ==
  \A c \in Campaign :
    /\ SigningModeFor(p, c) = SigningModeFor(q, c)
    /\ \A a \in Publisher, r \in Cpm \cup {NotANumber} :
         AcceptClaim(p, c, a, r) <=> AcceptClaim(q, c, a, r)

(***************************************************************************)
(* What "persisted back to disk" (policy.mjs:4) is for: as long as the     *)
(* last edit was not answered with an error, a relay that restarts accepts *)
(* and holds exactly the claims it did before, but for the campaigns the   *)
(* environment adds again.  Failed edits may leave memory and file apart,  *)
(* half-replaced documents included; the next good edit joins them.        *)
(***************************************************************************)
DecisionsSurvive ==
  Running /\ edited # "failed" =>
    SameDecisions(Loaded(file), WithEnvironment(policy))
=============================================================================
