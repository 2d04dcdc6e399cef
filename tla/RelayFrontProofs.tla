-------------------------- MODULE RelayFrontProofs --------------------------
(***************************************************************************)
(* What is proved of the relay's front, for any addresses, campaigns,      *)
(* posts, co-signers, environments and limits: the types, what the limiter *)
(* bounds and when it refuses, that good edits of the policy survive a     *)
(* restart, and where a batch is sent and whose signature it carries.  The *)
(* parts move one at a time, so each has an invariant of its own, kept by  *)
(* its own steps.                                                          *)
(***************************************************************************)
EXTENDS RelayFront, CollectionProofs

-----------------------------------------------------------------------------
(* The policy                                                              *)

(***************************************************************************)
(* A relay that has loaded its policy decides by what the file holds, one  *)
(* whose last edit was good decides by what it wrote.                      *)
(***************************************************************************)
PolicyInv ==
  /\ PolicyTypeOK
  /\ Running /\ edited = "ok" => file = policy
  /\ Running /\ edited = "none" => policy = Loaded(file)

(***************************************************************************)
(* The environment's campaigns are added once (policy.mjs:40).             *)
(***************************************************************************)
LEMMA EnvironmentAddsOnce ==
  ASSUME NEW p \in Policies
  PROVE  /\ WithEnvironment(p) \in Policies
         /\ WithEnvironment(WithEnvironment(p)) = WithEnvironment(p)
  BY PolicyAssumption DEF WithEnvironment, Policies, Documents

\* The policy of a relay without a file is a policy.
LEMMA DefaultsAllowed == Defaults \in Policies
  BY PolicyAssumption DEF Defaults, Policies, Documents, Mode, NotANumber

(***************************************************************************)
(* What is assigned from a document, in full or half-way, is a policy.     *)
(***************************************************************************)
LEMMA AssignedAllowed ==
  ASSUME NEW j \in Documents, NEW p \in Policies
  PROVE  Assigned(j, p) \in Policies
  BY DEF Assigned, Policies, Documents

\* No document is mistaken for a torn file, a missing one or no policy.
LEMMA NotDocuments ==
  /\ Torn \notin Documents /\ Missing \notin Documents /\ NoPolicy \notin Documents
  BY DEF Torn, Missing, NoPolicy, Documents

\* Whatever the file holds, what is loaded from it is a policy.
LEMMA LoadedAllowed ==
  ASSUME NEW f \in Documents \cup {Torn, Missing}
  PROVE  Loaded(f) \in Policies
<1>1. CASE f \in {Torn, Missing}
  BY <1>1, DefaultsAllowed, EnvironmentAddsOnce DEF Loaded
<1>2. CASE f \notin {Torn, Missing}
  <2>1. Assigned(f, Defaults) \in Policies
    BY <1>2, DefaultsAllowed, AssignedAllowed
  <2> QED
    BY <1>2, <2>1, EnvironmentAddsOnce DEF Loaded
<1> QED
  BY <1>1, <1>2

(***************************************************************************)
(* A policy's file is loaded as it was written, and the loaded policy      *)
(* already has the environment's campaigns.                                *)
(***************************************************************************)
LEMMA LoadedAsWritten ==
  ASSUME NEW p \in Policies
  PROVE  Loaded(p) = WithEnvironment(p)
  BY NotDocuments DEF Loaded, Assigned, Policies

\* Loading adds the environment's campaigns: adding them again changes nothing.
LEMMA LoadedComplete ==
  ASSUME NEW f \in Documents \cup {Torn, Missing}
  PROVE  WithEnvironment(Loaded(f)) = Loaded(f)
<1>1. CASE f \in {Torn, Missing}
  BY <1>1, DefaultsAllowed, EnvironmentAddsOnce DEF Loaded
<1>2. CASE f \notin {Torn, Missing}
  <2>1. Assigned(f, Defaults) \in Policies
    BY <1>2, DefaultsAllowed, AssignedAllowed
  <2> QED
    BY <1>2, <2>1, EnvironmentAddsOnce DEF Loaded
<1> QED
  BY <1>1, <1>2

\* The invariant says that the file decides as the running policy does.
LEMMA PolicyInvGivesProperty == PolicyInv => DecisionsSurvive
<1> SUFFICES ASSUME PolicyInv, Running, edited # "failed"
             PROVE  SameDecisions(Loaded(file), WithEnvironment(policy))
  BY DEF DecisionsSurvive
<1>1. policy \in Policies
  BY DEF PolicyInv, PolicyTypeOK, Running
<1>2. file \in Documents \cup {Torn, Missing}
  BY DEF PolicyInv, PolicyTypeOK
<1>3. Loaded(file) = WithEnvironment(policy)
  <2>1. CASE edited = "ok"
    BY <1>1, <2>1, LoadedAsWritten DEF PolicyInv
  <2>2. CASE edited = "none"
    BY <1>2, <2>2, LoadedComplete DEF PolicyInv
  <2> QED
    BY <2>1, <2>2 DEF PolicyInv, PolicyTypeOK
<1> QED
  BY <1>3 DEF SameDecisions

\* It holds of a relay not started yet, whatever file it finds.
LEMMA PolicyInvInit == PolicyInit \/ PolicyAtRest => PolicyInv
<1>1. [Defaults EXCEPT !.campaigns = Campaign, !.maxCpmWei = NotANumber] \in Documents
  BY DefaultsAllowed DEF Policies, Documents
<1>2. Defaults \in Documents
  BY DefaultsAllowed DEF Policies
<1> QED
  BY <1>1, <1>2 DEF PolicyInit, PolicyAtRest, PolicyInv, PolicyTypeOK, Running

\* An edit that is written out leaves file and policy equal.
LEMMA PersistedKeepsPolicyInv ==
  ASSUME PolicyInv, NEW p \in Policies, Persisted(p)
  PROVE  PolicyInv'
<1>1. p \in Documents
  BY DEF Policies
<1> QED
  BY <1>1 DEF Persisted, PolicyInv, PolicyTypeOK, Running

\* Every edit either writes the whole policy or is marked as failed.
LEMMA PolicyInvStep ==
  ASSUME PolicyInv, PolicyNext
  PROVE  PolicyInv'
<1> USE DEF PolicyInv, PolicyTypeOK
<1>0. Running => policy \in Policies
  BY DEF Running
<1>1. CASE LoadPolicy
  <2>1. policy' = Loaded(file) /\ file' = file /\ edited' = "none"
    BY <1>1 DEF LoadPolicy
  <2>2. policy' \in Policies
    BY <2>1, LoadedAllowed
  <2>3. Loaded(file)' = Loaded(file')
    BY DEF Loaded, WithEnvironment, Assigned, Defaults, Torn, Missing, NotANumber
  <2> QED
    BY <2>1, <2>2, <2>3
<1>2. CASE Stop
  BY <1>2 DEF Stop, Running
<1>3. ASSUME NEW a \in Publisher, AddPublisher(a) \/ RemovePublisher(a)
      PROVE  PolicyInv'
  <2>1. CASE AddPublisher(a)
    <3>1. [policy EXCEPT !.publishers = @ \cup {a}] \in Policies
      BY <1>0, <2>1 DEF AddPublisher, Policies, Documents
    <3> QED
      BY <2>1, <3>1, PersistedKeepsPolicyInv DEF AddPublisher
  <2>2. CASE RemovePublisher(a)
    <3>1. [policy EXCEPT !.publishers = @ \ {a}] \in Policies
      BY <1>0, <2>2 DEF RemovePublisher, Policies, Documents
    <3> QED
      BY <2>2, <3>1, PersistedKeepsPolicyInv DEF RemovePublisher
  <2> QED
    BY <1>3, <2>1, <2>2
<1>4. ASSUME NEW id \in Campaign, AddCampaign(id) \/ RemoveCampaign(id)
      PROVE  PolicyInv'
  <2>1. CASE AddCampaign(id)
    <3>1. [policy EXCEPT !.campaigns = @ \cup {id}] \in Policies
      BY <1>0, <2>1 DEF AddCampaign, Policies, Documents
    <3> QED
      BY <2>1, <3>1, PersistedKeepsPolicyInv DEF AddCampaign
  <2>2. CASE RemoveCampaign(id)
    <3>1. [policy EXCEPT !.campaigns = @ \ {id}] \in Policies
      BY <1>0, <2>2 DEF RemoveCampaign, Policies, Documents
    <3> QED
      BY <2>2, <3>1, PersistedKeepsPolicyInv DEF RemoveCampaign
  <2> QED
    BY <1>4, <2>1, <2>2
<1>5. ASSUME NEW v \in Cpm \cup {NotANumber}, SetMaxCpm(v)
      PROVE  PolicyInv'
  <2>1. CASE v = NotANumber
    BY <1>5, <2>1 DEF SetMaxCpm, Running
  <2>2. CASE v # NotANumber
    <3>1. [policy EXCEPT !.maxCpmWei = v] \in Policies
      BY <1>0, <1>5, <2>2 DEF SetMaxCpm, Policies, Documents
    <3> QED
      BY <1>5, <2>2, <3>1, PersistedKeepsPolicyInv DEF SetMaxCpm
  <2> QED
    BY <2>1, <2>2
<1>6. ASSUME NEW mode \in Mode, SetSigningMode(mode)
      PROVE  PolicyInv'
  <2>1. [policy EXCEPT !.mode = mode] \in Policies
    BY <1>0, <1>6 DEF SetSigningMode, Policies, Documents
  <2> QED
    BY <1>6, <2>1, PersistedKeepsPolicyInv DEF SetSigningMode
<1>7. ASSUME NEW id \in Campaign, NEW manual \in BOOLEAN, SetCampaignManual(id, manual)
      PROVE  PolicyInv'
  <2>1. policy \in Policies
    BY <1>0, <1>7 DEF SetCampaignManual
  <2>2. ManualSet(id, manual) \in SUBSET Campaign
    BY <2>1 DEF ManualSet, Policies, Documents
  <2>3. [policy EXCEPT !.manualCampaigns = ManualSet(id, manual)] \in Policies
    BY <2>1, <2>2 DEF Policies, Documents
  <2> QED
    BY <1>7, <2>3, PersistedKeepsPolicyInv DEF SetCampaignManual
<1>8. ASSUME NEW j \in Documents, SetRaw(j)
      PROVE  PolicyInv'
  <2>1. Assigned(j, policy) \in Policies
    BY <1>0, <1>8, AssignedAllowed DEF SetRaw
  <2>2. CASE j.maxCpmWei = NotANumber
    BY <1>8, <2>1, <2>2 DEF SetRaw, Running
  <2>3. CASE j.maxCpmWei # NotANumber
    BY <1>8, <2>1, <2>3, PersistedKeepsPolicyInv DEF SetRaw
  <2> QED
    BY <2>2, <2>3
<1>9. CASE SetRawUnparsed
  BY <1>9 DEF SetRawUnparsed, Running
<1> QED
  BY <1>1, <1>2, <1>3, <1>4, <1>5, <1>6, <1>7, <1>8, <1>9 DEF PolicyNext, Edit

-----------------------------------------------------------------------------
(* The routing of the advertiser's signature                               *)

(***************************************************************************)
(* What is known of a post at a co-signer or past it: where it was sent,   *)
(* whom the co-signer takes for the owner, and whose signature it has.     *)
(***************************************************************************)
SentHome(p) ==
  posts[p].pc \in AtCosigner /\ posts[p].cid \notin failed =>
    posts[p].at = TargetFor(Owner[posts[p].cid])

OwnerKnown(p) ==
  posts[p].pc = "owned" => posts[p].owner \in {Owner[posts[p].cid], ZeroAddress}

StandsFor(sig, owner) == sig \in {owner} \cup everSigner[owner]

OwnKeyUsed(p) ==
  /\ config.advertiserWallet # NoKey
  /\ posts[p].advertiserSig = config.advertiserWallet
  /\ ~config.exposed \/ config.allowInsecureSelfCosign \/ HasCosigner(config)

SignatureKnown(p) ==
  /\ posts[p].pc = "replied" /\ posts[p].advertiserSig # NoKey =>
       StandsFor(posts[p].advertiserSig, Owner[posts[p].cid])
  /\ posts[p].pc = "queued" =>
       \/ posts[p].advertiserSig = Poster
       \/ StandsFor(posts[p].advertiserSig, Owner[posts[p].cid])
       \/ OwnKeyUsed(p)
  /\ posts[p].pc \in {"lookup", "asked", "owned"} => posts[p].advertiserSig = NoKey

(***************************************************************************)
(* A post that is somewhere in the program is about a campaign, and one at *)
(* a co-signer is at a process.                                            *)
(***************************************************************************)
Placed(p) ==
  /\ posts[p].pc # "notPosted" => posts[p].cid \in Cid
  /\ posts[p].pc \in AtCosigner => posts[p].at \in Service

PostInv(p) == Placed(p) /\ SentHome(p) /\ OwnerKnown(p) /\ SignatureKnown(p)

(***************************************************************************)
(* The relay's cache holds owners, but for campaigns a look-up failed for; *)
(* a signer read from the chain is one the advertiser has named.           *)
(***************************************************************************)
RoutingInv ==
  /\ RoutingTypeOK
  /\ AssertConfig(config)
  /\ \A c \in DOMAIN advCache : c \notin failed => advCache[c] = Owner[c]
  /\ \A a \in Advertiser : relaySigner[a] \in everSigner[a] \cup {ZeroAddress}
  /\ \A p \in Post : PostInv(p)

\* The invariant holds the two properties the runs check.
LEMMA RoutingInvGivesProperties == RoutingInv => RoutedHome /\ AdvertiserSigned
<1> SUFFICES ASSUME RoutingInv PROVE RoutedHome /\ AdvertiserSigned
  OBVIOUS
<1> USE DEF RoutingInv, PostInv
<1>1. RoutedHome
  BY DEF RoutedHome, SentHome, TargetFor
<1>2. AdvertiserSigned
  BY DEF AdvertiserSigned, SignatureKnown, StandsFor, OwnKeyUsed, SelfSigned, MaySelfSign,
         KeyAndCosigner, HasCosigner
<1> QED
  BY <1>1, <1>2

\* It holds at the start: the gate has been passed, and nothing is posted.
LEMMA RoutingInvInit == RoutingInit => RoutingInv
<1> SUFFICES ASSUME RoutingInit PROVE RoutingInv
  OBVIOUS
<1> USE DEF RoutingInit
<1>1. RoutingTypeOK
  BY DEF RoutingTypeOK, PostType, NotPosted
<1>2. \A p \in Post : PostInv(p)
  BY DEF PostInv, Placed, SentHome, OwnerKnown, SignatureKnown, NotPosted, AtCosigner
<1>3. AssertConfig(config)
  OBVIOUS
<1>4. \A c \in DOMAIN advCache : c \notin failed => advCache[c] = Owner[c]
  OBVIOUS
<1>5. \A a \in Advertiser : relaySigner[a] \in everSigner[a] \cup {ZeroAddress}
  OBVIOUS
<1> QED
  BY <1>1, <1>2, <1>3, <1>4, <1>5 DEF RoutingInv

(***************************************************************************)
(* A step of one post says nothing of the others.                          *)
(***************************************************************************)
LEMMA OtherPostsKept ==
  ASSUME RoutingInv,
         NEW p \in Post, NEW q \in Post, q # p,
         posts'[q] = posts[q],
         config' = config, everSigner' = everSigner,
         failed \subseteq failed'
  PROVE  PostInv(q)'
<1>1. Placed(q) /\ SentHome(q) /\ OwnerKnown(q) /\ SignatureKnown(q)
  BY DEF RoutingInv, PostInv
<1>2. Placed(q)' /\ OwnerKnown(q)'
  BY <1>1 DEF Placed, OwnerKnown, AtCosigner
<1>3. SentHome(q)'
  BY <1>1 DEF SentHome, TargetFor, AtCosigner
<1>4. OwnKeyUsed(q) => OwnKeyUsed(q)'
  BY DEF OwnKeyUsed, HasCosigner
<1>5. SignatureKnown(q)'
  BY <1>1, <1>4 DEF SignatureKnown, StandsFor
<1> QED
  BY <1>2, <1>3, <1>5 DEF PostInv

(***************************************************************************)
(* A post is asked where the cache says its advertiser is served.          *)
(***************************************************************************)
LEMMA AskedInv ==
  ASSUME RoutingInv,
         NEW p \in Post, NEW cid \in Cid, NEW adv,
         posts' = Asked(p, cid, adv),
         config' = config,
         cid \notin failed' => adv = Owner[cid]
  PROVE  posts'[p] \in PostType /\ PostInv(p)'
<1>1. config \in ConfigType /\ p \in DOMAIN posts
  BY RoutingAssumption DEF RoutingInv, RoutingTypeOK
<1>2. TargetFor(adv) \in Service \cup {NoService}
  BY <1>1 DEF TargetFor, ConfigType
<1>3. posts'[p] = [NotPosted EXCEPT !.pc = IF TargetFor(adv) = NoService THEN "refused"
                                           ELSE "asked",
                                    !.cid = cid, !.at = TargetFor(adv)]
  BY <1>1 DEF Asked
<1>4. posts'[p] \in PostType
  BY <1>2, <1>3 DEF NotPosted, PostType
<1>5. TargetFor(adv)' = TargetFor(adv) /\ TargetFor(Owner[cid])' = TargetFor(Owner[cid])
  BY DEF TargetFor
<1>6. Placed(p)' /\ OwnerKnown(p)' /\ SignatureKnown(p)'
  BY <1>2, <1>3 DEF NotPosted, Placed, OwnerKnown, SignatureKnown, AtCosigner
<1>7. SentHome(p)'
  BY <1>3, <1>5 DEF NotPosted, SentHome
<1> QED
  BY <1>4, <1>6, <1>7 DEF PostInv

(***************************************************************************)
(* The campaigns the relay remembers an advertiser for.                    *)
(***************************************************************************)
Remembered ==
  /\ DOMAIN advCache \subseteq Cid
  /\ \A c \in DOMAIN advCache : /\ advCache[c] \in Advertiser \cup {ZeroAddress}
                                /\ c \notin failed => advCache[c] = Owner[c]

\* The invariant says what the cache holds.
LEMMA RememberedKept == RoutingInv => Remembered
  BY DEF RoutingInv, RoutingTypeOK, Remembered

(***************************************************************************)
(* A step that moves one post keeps the invariant when it keeps it of that *)
(* post and of the caches.                                                 *)
(***************************************************************************)
LEMMA OnePostMoves ==
  ASSUME RoutingInv,
         NEW p \in Post, NEW r \in PostType,
         posts' = [posts EXCEPT ![p] = r],
         PostInv(p)', Remembered',
         UNCHANGED <<config, relaySigner, everSigner>>,
         cosignerCache' \in [Service -> SUBSET Cid],
         failed \subseteq failed', failed' \subseteq Cid
  PROVE  RoutingInv'
<1>1. RoutingTypeOK'
  BY DEF RoutingInv, RoutingTypeOK, Remembered
<1>2. ASSUME NEW q \in Post PROVE PostInv(q)'
  <2>1. CASE q = p
    BY <2>1
  <2>2. CASE q # p
    <3>1. posts'[q] = posts[q]
      BY <2>2 DEF RoutingInv, RoutingTypeOK
    <3> QED
      BY <2>2, <3>1, OtherPostsKept
  <2> QED
    BY <2>1, <2>2
<1>3. AssertConfig(config)'
  BY DEF RoutingInv, AssertConfig, SelfCosign, HasCosigner
<1> QED
  BY <1>1, <1>2, <1>3 DEF RoutingInv, Remembered

(***************************************************************************)
(* The same for the steps that leave every cache and the chain alone.      *)
(***************************************************************************)
LEMMA OnlyPostMoves ==
  ASSUME RoutingInv,
         NEW p \in Post, NEW r \in PostType,
         posts' = [posts EXCEPT ![p] = r],
         PostInv(p)',
         UNCHANGED <<config, advCache, relaySigner, everSigner, failed, cosignerCache>>
  PROVE  RoutingInv'
<1>1. Remembered'
  BY RememberedKept DEF Remembered
<1> QED
  BY <1>1, OnePostMoves DEF RoutingInv, RoutingTypeOK

(***************************************************************************)
(* The four ways _cosign starts.                                           *)
(***************************************************************************)
LEMMA CosignStartKeepsInv ==
  ASSUME RoutingInv, NEW p \in Post, NEW cid \in Cid,
         \/ CosignPosted(p, cid) \/ CosignAlone(p, cid)
         \/ CosignAsking(p, cid) \/ CosignMissing(p, cid)
  PROVE  RoutingInv'
<1>0. /\ posts \in [Post -> PostType] /\ posts[p] \in PostType
      /\ config \in ConfigType /\ AssertConfig(config)
  BY RoutingAssumption DEF RoutingInv, RoutingTypeOK
<1>1. ASSUME NEW by \in Address \cup {Poster}, posts' = Signed(p, cid, by),
             UNCHANGED <<config, advCache, relaySigner, everSigner, failed, cosignerCache>>,
             \/ by = Poster
             \/ /\ by = config.advertiserWallet /\ by # NoKey
                /\ ~config.exposed \/ config.allowInsecureSelfCosign \/ HasCosigner(config)
      PROVE  RoutingInv'
  <2> DEFINE r == [NotPosted EXCEPT !.pc = "queued", !.cid = cid, !.advertiserSig = by]
  <2>1. r \in PostType /\ posts' = [posts EXCEPT ![p] = r]
    BY <1>1 DEF PostType, NotPosted, Signed
  <2>2. posts'[p] = r
    BY <1>0, <2>1
  <2>3. Placed(p)' /\ SentHome(p)' /\ OwnerKnown(p)'
    BY <2>2 DEF NotPosted, Placed, SentHome, OwnerKnown, AtCosigner
  <2>4. SignatureKnown(p)'
    BY <1>1, <2>2 DEF NotPosted, SignatureKnown, OwnKeyUsed, HasCosigner
  <2>5. PostInv(p)'
    BY <2>3, <2>4 DEF PostInv
  <2> QED
    BY <1>1, <2>1, <2>5, OnlyPostMoves
<1>2. CASE CosignPosted(p, cid)
  BY <1>1, <1>2 DEF CosignPosted, RelayOnly
<1>3. CASE CosignAlone(p, cid)
  <2>1. config.advertiserWallet \in Address
    BY <1>0, <1>3 DEF CosignAlone, ConfigType
  <2>2. ~config.exposed \/ config.allowInsecureSelfCosign \/ HasCosigner(config)
    BY <1>0, <1>3 DEF CosignAlone, AssertConfig, SelfCosign
  <2> QED
    BY <1>1, <1>3, <2>1, <2>2 DEF CosignAlone, RelayOnly
<1>4. CASE CosignAsking(p, cid) /\ cid \in DOMAIN advCache
  <2>1. posts' = Asked(p, cid, advCache[cid])
    BY <1>4 DEF CosignAsking
  <2>2. UNCHANGED <<config, advCache, relaySigner, everSigner, failed, cosignerCache>>
    BY <1>4 DEF CosignAsking, RelayOnly
  <2>3. cid \notin failed' => advCache[cid] = Owner[cid]
    BY <1>4, <2>2 DEF RoutingInv
  <2>4. posts'[p] \in PostType /\ PostInv(p)'
    BY <2>1, <2>2, <2>3, AskedInv
  <2>5. posts' = [posts EXCEPT ![p] = posts'[p]]
    BY <1>0, <2>1 DEF Asked
  <2> QED
    BY <2>2, <2>4, <2>5, OnlyPostMoves
<1>5. CASE CosignAsking(p, cid) /\ cid \notin DOMAIN advCache
  <2> DEFINE r == [NotPosted EXCEPT !.pc = "lookup", !.cid = cid]
  <2>1. r \in PostType /\ posts' = [posts EXCEPT ![p] = r]
    BY <1>5 DEF CosignAsking, PostType, NotPosted
  <2>2. posts'[p] = r
    BY <1>0, <2>1
  <2>3. PostInv(p)'
    BY <2>2 DEF NotPosted, PostInv, Placed, SentHome, OwnerKnown, SignatureKnown, AtCosigner
  <2> QED
    BY <1>5, <2>1, <2>3, OnlyPostMoves DEF CosignAsking, RelayOnly
<1>6. CASE CosignMissing(p, cid)
  <2> DEFINE r == [posts[p] EXCEPT !.pc = "refused", !.cid = cid]
  <2>1. r \in PostType /\ posts' = [posts EXCEPT ![p] = r]
    BY <1>0, <1>6 DEF CosignMissing, PostType
  <2>2. posts'[p].pc = "refused" /\ posts'[p].cid = cid
    BY <1>0, <2>1 DEF PostType
  <2>3. PostInv(p)'
    BY <2>2 DEF PostInv, Placed, SentHome, OwnerKnown, SignatureKnown, AtCosigner
  <2> QED
    BY <1>6, <2>1, <2>3, OnlyPostMoves DEF CosignMissing, RelayOnly
<1> QED
  BY <1>2, <1>3, <1>4, <1>5, <1>6

(***************************************************************************)
(* The look-up's end, failed or not.                                       *)
(***************************************************************************)
LEMMA LookUpKeepsInv ==
  ASSUME RoutingInv, NEW p \in Post, LookUpEnds(p) \/ LookUpFails(p)
  PROVE  RoutingInv'
<1> DEFINE cid == posts[p].cid
<1>1. /\ posts \in [Post -> PostType] /\ cosignerCache \in [Service -> SUBSET Cid]
      /\ posts[p].pc = "lookup" => cid \in Cid
      /\ failed \subseteq Cid
  BY DEF RoutingInv, RoutingTypeOK, PostInv, Placed
<1>2. cid \in Cid /\ Owner[cid] \in Advertiser
  BY <1>1, RoutingAssumption DEF LookUpEnds, LookUpFails
<1>3. PICK a \in {ZeroAddress, Owner[cid]} :
        /\ advCache' = Remembering(cid, a) /\ posts' = Asked(p, cid, a)
        /\ failed' \in {failed, failed \cup {cid}}
        /\ cid \notin failed' => a = Owner[cid]
  BY DEF LookUpEnds, LookUpFails
<1>4. UNCHANGED <<config, cosignerCache, relaySigner, everSigner>>
  BY DEF LookUpEnds, LookUpFails, RelayOnly
<1>5. Remembered'
  <2>1. Remembered
    BY RememberedKept
  <2> QED
    BY <1>2, <1>3, <2>1 DEF Remembered, Remembering
<1>6. posts'[p] \in PostType /\ PostInv(p)'
  BY <1>2, <1>3, <1>4, AskedInv
<1>7. posts' = [posts EXCEPT ![p] = posts'[p]]
  BY <1>1, <1>3 DEF Asked
<1> QED
  BY <1>1, <1>2, <1>3, <1>4, <1>5, <1>6, <1>7, OnePostMoves

(***************************************************************************)
(* The fetch's end, by the reply or by the connection.                     *)
(***************************************************************************)
LEMMA FetchEndKeepsInv ==
  ASSUME RoutingInv, NEW p \in Post, Receive(p) \/ Disconnect(p)
  PROVE  RoutingInv'
<1>0. posts \in [Post -> PostType] /\ posts[p] \in PostType /\ PostInv(p)
  BY DEF RoutingInv, RoutingTypeOK
<1>1. CASE Receive(p) /\ posts[p].advertiserSig # NoKey
  <2> DEFINE r == [posts[p] EXCEPT !.pc = "queued"]
  <2>1. r \in PostType /\ posts' = [posts EXCEPT ![p] = r]
    BY <1>0, <1>1 DEF Receive, Moved, PostType
  <2>2. /\ posts'[p].pc = "queued" /\ posts'[p].cid = posts[p].cid
        /\ posts'[p].advertiserSig = posts[p].advertiserSig
    BY <1>0, <2>1 DEF PostType
  <2>3. UNCHANGED <<config, advCache, relaySigner, everSigner, failed, cosignerCache>>
    BY <1>1 DEF Receive, RelayOnly
  <2>4. StandsFor(posts[p].advertiserSig, Owner[posts[p].cid]) /\ posts[p].cid \in Cid
    BY <1>0, <1>1 DEF Receive, PostInv, SignatureKnown, Placed
  <2>5. PostInv(p)'
    BY <2>2, <2>3, <2>4
       DEF PostInv, Placed, SentHome, OwnerKnown, SignatureKnown, StandsFor, AtCosigner
  <2> QED
    BY <2>1, <2>3, <2>5, OnlyPostMoves
<1>2. CASE \/ Receive(p) /\ posts[p].advertiserSig = NoKey
           \/ Disconnect(p)
  <2>1. PICK r \in PostType :
          /\ posts' = [posts EXCEPT ![p] = r]
          /\ r.pc = "refused" /\ r.cid = posts[p].cid
    <3>1. CASE Receive(p) /\ posts[p].advertiserSig = NoKey
      <4> DEFINE r == [posts[p] EXCEPT !.pc = "refused"]
      <4>1. /\ r \in PostType /\ posts' = [posts EXCEPT ![p] = r]
            /\ r.pc = "refused" /\ r.cid = posts[p].cid
        BY <1>0, <3>1 DEF Receive, Moved, PostType
      <4> QED
        BY <4>1
    <3>2. CASE Disconnect(p)
      <4> DEFINE r == [posts[p] EXCEPT !.pc = "refused", !.advertiserSig = NoKey]
      <4>1. /\ r \in PostType /\ posts' = [posts EXCEPT ![p] = r]
            /\ r.pc = "refused" /\ r.cid = posts[p].cid
        BY <1>0, <3>2 DEF Disconnect, PostType
      <4> QED
        BY <4>1
    <3> QED
      BY <1>2, <3>1, <3>2
  <2>2. posts[p].cid \in Cid /\ posts'[p] = r
    BY <1>0, <1>2, <2>1 DEF Receive, Disconnect, AtCosigner, PostInv, Placed
  <2>3. PostInv(p)'
    BY <2>1, <2>2 DEF PostInv, Placed, SentHome, OwnerKnown, SignatureKnown, AtCosigner
  <2> QED
    BY <1>2, <2>1, <2>3, OnlyPostMoves DEF Receive, Disconnect, RelayOnly
<1> QED
  BY <1>1, <1>2

(***************************************************************************)
(* The co-signer's read of the owner: what it keeps is the chain's answer. *)
(***************************************************************************)
LEMMA OwnerReadKeepsInv ==
  ASSUME RoutingInv, NEW p \in Post, ReadOwner(p) \/ ReadOwnerFails(p)
  PROVE  RoutingInv'
<1>0. /\ posts \in [Post -> PostType] /\ posts[p] \in PostType /\ PostInv(p)
      /\ cosignerCache \in [Service -> SUBSET Cid] /\ failed \subseteq Cid
  BY DEF RoutingInv, RoutingTypeOK
<1>1. posts[p].pc = "asked" /\ posts[p].cid \in Cid /\ posts[p].at \in Service
  BY <1>0 DEF ReadOwner, ReadOwnerFails, PostInv, Placed, AtCosigner
<1>2. Owner[posts[p].cid] \in Advertiser
  BY <1>1, RoutingAssumption
<1>3. PICK owner \in {Owner[posts[p].cid], ZeroAddress} :
        posts' = [posts EXCEPT ![p].pc = "owned", ![p].owner = owner]
  BY DEF ReadOwner, ReadOwnerFails
<1> DEFINE r == [posts[p] EXCEPT !.pc = "owned", !.owner = owner]
<1>4. r \in PostType /\ posts' = [posts EXCEPT ![p] = r]
  BY <1>0, <1>2, <1>3 DEF PostType
<1>5. /\ posts'[p].pc = "owned" /\ posts'[p].owner = owner
      /\ posts'[p].cid = posts[p].cid /\ posts'[p].at = posts[p].at
      /\ posts'[p].advertiserSig = posts[p].advertiserSig
  BY <1>0, <1>4 DEF PostType
<1>6. UNCHANGED <<config, advCache, failed, relaySigner, everSigner>>
  BY DEF ReadOwner, ReadOwnerFails, CosignerOnly
<1>7. cosignerCache' \in [Service -> SUBSET Cid]
  BY <1>0, <1>1 DEF ReadOwner, ReadOwnerFails
<1>8. Placed(p)' /\ OwnerKnown(p)'
  BY <1>1, <1>3, <1>5 DEF Placed, OwnerKnown
<1>9. SentHome(p)'
  BY <1>0, <1>1, <1>5, <1>6 DEF PostInv, SentHome, TargetFor, AtCosigner
<1>10. SignatureKnown(p)'
  BY <1>0, <1>1, <1>5 DEF PostInv, SignatureKnown
<1>11. PostInv(p)' /\ Remembered'
  BY <1>6, <1>8, <1>9, <1>10, RememberedKept DEF PostInv, Remembered
<1> QED
  BY <1>0, <1>4, <1>6, <1>7, <1>11, OnePostMoves

(***************************************************************************)
(* The co-signer's answer.  Its key signs only for an owner it has read    *)
(* and a signer the owner has named, for no key's address is zero.         *)
(***************************************************************************)
LEMMA MineStandsFor ==
  ASSUME RoutingInv, NEW p \in Post, posts[p].pc = "owned",
         NEW signer \in {SignerOf(posts[p].owner), ZeroAddress},
         Mine(posts[p].owner, signer, KeyOf[posts[p].at])
  PROVE  StandsFor(KeyOf[posts[p].at], Owner[posts[p].cid])
<1>1. PostInv(p) /\ posts[p].at \in Service /\ posts[p].cid \in Cid
  BY DEF RoutingInv, PostInv, Placed, AtCosigner
<1>2. KeyOf[posts[p].at] \in Address /\ ZeroAddress \notin Address
      /\ Owner[posts[p].cid] \in Advertiser /\ Advertiser \subseteq Address
  BY <1>1, RoutingAssumption
<1>3. posts[p].owner \in {Owner[posts[p].cid], ZeroAddress}
  BY <1>1 DEF PostInv, OwnerKnown
<1>4. CASE signer = ZeroAddress
  BY <1>2, <1>3, <1>4 DEF Mine, StandsFor
<1>5. CASE signer # ZeroAddress
  <2>1. posts[p].owner = Owner[posts[p].cid] /\ signer = relaySigner[Owner[posts[p].cid]]
    BY <1>2, <1>3, <1>5 DEF SignerOf
  <2>2. signer \in everSigner[Owner[posts[p].cid]]
    BY <1>2, <1>5, <2>1 DEF RoutingInv
  <2> QED
    BY <1>5, <2>2 DEF Mine, StandsFor
<1> QED
  BY <1>4, <1>5

\* What the co-signer replies is its advertiser's signature, or none.
LEMMA AnswerKeepsInv ==
  ASSUME RoutingInv, NEW p \in Post, ReadSigner(p) \/ Decline(p)
  PROVE  RoutingInv'
<1>0. posts \in [Post -> PostType] /\ posts[p] \in PostType /\ PostInv(p)
  BY DEF RoutingInv, RoutingTypeOK
<1>1. /\ posts[p].pc \in {"asked", "owned"}
      /\ posts[p].cid \in Cid /\ posts[p].at \in Service
      /\ posts[p].advertiserSig = NoKey
  BY <1>0 DEF ReadSigner, Decline, PostInv, Placed, AtCosigner, SignatureKnown
<1>2. KeyOf[posts[p].at] \in Address
  BY <1>1, RoutingAssumption
<1>3. PICK sig \in Address \cup {NoKey} :
        /\ posts' = [posts EXCEPT ![p].pc = "replied", ![p].advertiserSig = sig]
        /\ sig # NoKey => StandsFor(sig, Owner[posts[p].cid])
  <2>1. CASE Decline(p)
    <3>1. posts' = [posts EXCEPT ![p].pc = "replied", ![p].advertiserSig = NoKey]
      <4>1. [posts[p] EXCEPT !.pc = "replied"]
              = [posts[p] EXCEPT !.pc = "replied", !.advertiserSig = NoKey]
        BY <1>0, <1>1 DEF PostType
      <4> QED
        BY <1>0, <2>1, <4>1 DEF Decline, Moved
    <3> QED
      BY <3>1
  <2>2. CASE ReadSigner(p)
    <3>1. PICK signer \in {SignerOf(posts[p].owner), ZeroAddress} : Replied(p, signer)
      BY <2>2 DEF ReadSigner
    <3>2. CASE Mine(posts[p].owner, signer, KeyOf[posts[p].at])
      <4>1. StandsFor(KeyOf[posts[p].at], Owner[posts[p].cid])
        BY <2>2, <3>2, MineStandsFor DEF ReadSigner
      <4> QED
        BY <1>2, <3>1, <3>2, <4>1 DEF Replied
    <3>3. CASE ~Mine(posts[p].owner, signer, KeyOf[posts[p].at])
      BY <3>1, <3>3 DEF Replied
    <3> QED
      BY <3>2, <3>3
  <2> QED
    BY <2>1, <2>2
<1> DEFINE r == [posts[p] EXCEPT !.pc = "replied", !.advertiserSig = sig]
<1>4. r \in PostType /\ posts' = [posts EXCEPT ![p] = r]
  BY <1>0, <1>3 DEF PostType
<1>5. /\ posts'[p].pc = "replied" /\ posts'[p].advertiserSig = sig
      /\ posts'[p].cid = posts[p].cid /\ posts'[p].at = posts[p].at
  BY <1>0, <1>4 DEF PostType
<1>6. UNCHANGED <<config, advCache, failed, relaySigner, everSigner, cosignerCache>>
  BY DEF ReadSigner, Decline, CosignerOnly
<1>7. Placed(p)' /\ OwnerKnown(p)'
  BY <1>1, <1>5 DEF Placed, OwnerKnown
<1>8. SentHome(p)'
  BY <1>0, <1>1, <1>5, <1>6 DEF PostInv, SentHome, TargetFor, AtCosigner
<1>9. SignatureKnown(p)'
  BY <1>3, <1>5, <1>6 DEF SignatureKnown, StandsFor
<1> QED
  BY <1>4, <1>6, <1>7, <1>8, <1>9, OnlyPostMoves DEF PostInv

(***************************************************************************)
(* The steps that end what several posts wait for.  What a restarted relay *)
(* forgets, it forgets of both the cache and the failed look-ups.          *)
(***************************************************************************)
LEMMA RelayRestartKeepsInv ==
  ASSUME RoutingInv, RelayRestarts
  PROVE  RoutingInv'
<1>0. posts \in [Post -> PostType]
  BY DEF RoutingInv, RoutingTypeOK
<1>1. ASSUME NEW p \in Post
      PROVE  posts'[p] \in PostType /\ PostInv(p)'
  <2>1. posts[p] \in PostType /\ PostInv(p)
    BY <1>0 DEF RoutingInv
  <2>2. UNCHANGED <<config, everSigner>>
    BY DEF RelayRestarts, RelayOnly
  <2>3. CASE posts[p].pc \in AtCosigner \cup {"lookup"}
    <3>1. posts'[p] = [posts[p] EXCEPT !.pc = "lost"]
      BY <2>3 DEF RelayRestarts
    <3>2. posts'[p].pc = "lost" /\ posts'[p].cid = posts[p].cid /\ posts'[p] \in PostType
      BY <2>1, <3>1 DEF PostType
    <3>3. posts[p].cid \in Cid
      BY <2>1, <2>3 DEF PostInv, Placed, AtCosigner
    <3> QED
      BY <3>2, <3>3
         DEF PostInv, Placed, SentHome, OwnerKnown, SignatureKnown, AtCosigner
  <2>4. CASE posts[p].pc \notin AtCosigner \cup {"lookup"}
    <3>1. posts'[p] = posts[p]
      BY <2>4 DEF RelayRestarts
    <3>2. OwnKeyUsed(p) => OwnKeyUsed(p)'
      BY <2>2, <3>1 DEF OwnKeyUsed, HasCosigner
    <3>3. Placed(p)' /\ SentHome(p)' /\ OwnerKnown(p)'
      BY <2>1, <2>4, <3>1 DEF PostInv, Placed, SentHome, OwnerKnown, AtCosigner
    <3>4. SignatureKnown(p)'
      BY <2>1, <2>2, <2>4, <3>1, <3>2 DEF PostInv, SignatureKnown, StandsFor
    <3> QED
      BY <2>1, <3>1, <3>3, <3>4 DEF PostInv
  <2> QED
    BY <2>3, <2>4
<1>2. posts' \in [Post -> PostType]
  <2>1. posts' = [p \in Post |-> posts'[p]]
    BY DEF RelayRestarts
  <2> QED
    BY <1>1, <2>1
<1>3. DOMAIN advCache' = {}
  BY DEF RelayRestarts
<1>4. UNCHANGED <<config, cosignerCache, relaySigner, everSigner>> /\ failed' = {}
  BY DEF RelayRestarts, RelayOnly
<1>5. RoutingTypeOK'
  BY <1>2, <1>3, <1>4 DEF RoutingInv, RoutingTypeOK
<1>6. AssertConfig(config)'
  BY <1>4 DEF RoutingInv, AssertConfig, SelfCosign, HasCosigner
<1> QED
  BY <1>1, <1>3, <1>4, <1>5, <1>6 DEF RoutingInv

\* A restarted co-signer forgets its cache and drops what it was asked.
LEMMA CosignerRestartKeepsInv ==
  ASSUME RoutingInv, NEW s \in Service, CosignerRestarts(s)
  PROVE  RoutingInv'
<1>0. posts \in [Post -> PostType] /\ cosignerCache \in [Service -> SUBSET Cid]
  BY DEF RoutingInv, RoutingTypeOK
<1>1. UNCHANGED <<config, advCache, failed, relaySigner, everSigner>>
  BY DEF CosignerRestarts, CosignerOnly
<1>2. ASSUME NEW p \in Post
      PROVE  posts'[p] \in PostType /\ PostInv(p)'
  <2>1. posts[p] \in PostType /\ PostInv(p)
    BY <1>0 DEF RoutingInv
  <2>2. CASE posts[p].at = s /\ posts[p].pc \in {"asked", "owned"}
    <3>1. posts'[p] = [posts[p] EXCEPT !.pc = "refused"]
      BY <2>2 DEF CosignerRestarts
    <3>2. posts'[p].pc = "refused" /\ posts'[p].cid = posts[p].cid /\ posts'[p] \in PostType
      BY <2>1, <3>1 DEF PostType
    <3>3. posts[p].cid \in Cid
      BY <2>1, <2>2 DEF PostInv, Placed
    <3> QED
      BY <3>2, <3>3
         DEF PostInv, Placed, SentHome, OwnerKnown, SignatureKnown, AtCosigner
  <2>3. CASE ~(posts[p].at = s /\ posts[p].pc \in {"asked", "owned"})
    <3>1. posts'[p] = posts[p]
      BY <2>3 DEF CosignerRestarts
    <3>2. OwnKeyUsed(p) => OwnKeyUsed(p)'
      BY <1>1, <3>1 DEF OwnKeyUsed, HasCosigner
    <3>3. Placed(p)' /\ OwnerKnown(p)'
      BY <2>1, <3>1 DEF PostInv, Placed, OwnerKnown, AtCosigner
    <3>4. SentHome(p)'
      BY <1>1, <2>1, <3>1 DEF PostInv, SentHome, TargetFor, AtCosigner
    <3>5. SignatureKnown(p)'
      BY <1>1, <2>1, <3>1, <3>2 DEF PostInv, SignatureKnown, StandsFor
    <3> QED
      BY <2>1, <3>1, <3>3, <3>4, <3>5 DEF PostInv
  <2> QED
    BY <2>2, <2>3
<1>3. posts' \in [Post -> PostType]
  <2>1. posts' = [p \in Post |-> posts'[p]]
    BY DEF CosignerRestarts
  <2> QED
    BY <1>2, <2>1
<1>4. cosignerCache' \in [Service -> SUBSET Cid]
  BY <1>0 DEF CosignerRestarts
<1>5. RoutingTypeOK'
  BY <1>1, <1>3, <1>4 DEF RoutingInv, RoutingTypeOK
<1>6. AssertConfig(config)'
  BY <1>1 DEF RoutingInv, AssertConfig, SelfCosign, HasCosigner
<1> QED
  BY <1>1, <1>2, <1>5, <1>6 DEF RoutingInv

(***************************************************************************)
(* A new relay signer does not take back what the earlier ones signed.     *)
(***************************************************************************)
LEMMA SetRelaySignerKeepsInv ==
  ASSUME RoutingInv, NEW a \in Advertiser, NEW signer \in Address \cup {ZeroAddress},
         SetRelaySigner(a, signer)
  PROVE  RoutingInv'
<1>0. /\ relaySigner \in [Advertiser -> Address \cup {ZeroAddress}]
      /\ everSigner \in [Advertiser -> SUBSET Address]
  BY DEF RoutingInv, RoutingTypeOK
<1>1. UNCHANGED <<config, advCache, failed, posts, cosignerCache>>
  BY DEF SetRelaySigner, CosignerOnly
<1>2. /\ relaySigner' \in [Advertiser -> Address \cup {ZeroAddress}]
      /\ everSigner' \in [Advertiser -> SUBSET Address]
  BY <1>0 DEF SetRelaySigner
<1>3. \A b \in Advertiser : everSigner[b] \subseteq everSigner'[b]
  BY <1>0 DEF SetRelaySigner
<1>4. \A b \in Advertiser : relaySigner'[b] \in everSigner'[b] \cup {ZeroAddress}
  BY <1>0 DEF SetRelaySigner, RoutingInv
<1>5. ASSUME NEW p \in Post PROVE PostInv(p)'
  <2>1. PostInv(p) /\ posts'[p] = posts[p]
    BY <1>1 DEF RoutingInv
  <2>2. OwnKeyUsed(p) => OwnKeyUsed(p)'
    BY <1>1, <2>1 DEF OwnKeyUsed, HasCosigner
  <2>3. Placed(p)' /\ OwnerKnown(p)'
    BY <2>1 DEF PostInv, Placed, OwnerKnown, AtCosigner
  <2>4. SentHome(p)'
    BY <1>1, <2>1 DEF PostInv, SentHome, TargetFor, AtCosigner
  <2>5. posts[p].pc \in {"replied", "queued"} => Owner[posts[p].cid] \in Advertiser
    BY <2>1, RoutingAssumption DEF PostInv, Placed
  <2>6. SignatureKnown(p)'
    BY <1>3, <2>1, <2>2, <2>5 DEF PostInv, SignatureKnown, StandsFor
  <2> QED
    BY <2>3, <2>4, <2>6 DEF PostInv
<1>6. RoutingTypeOK'
  BY <1>1, <1>2 DEF RoutingInv, RoutingTypeOK
<1>7. AssertConfig(config)'
  BY <1>1 DEF RoutingInv, AssertConfig, SelfCosign, HasCosigner
<1> QED
  BY <1>1, <1>4, <1>5, <1>6, <1>7 DEF RoutingInv

\* Every step of the routing keeps its invariant.
LEMMA RoutingInvStep ==
  ASSUME RoutingInv, RoutingNext
  PROVE  RoutingInv'
<1>1. ASSUME NEW p \in Post, Cosigning(p)
      PROVE  RoutingInv'
  BY <1>1, CosignStartKeepsInv, LookUpKeepsInv, FetchEndKeepsInv, OwnerReadKeepsInv,
     AnswerKeepsInv DEF Cosigning
<1>2. CASE RelayRestarts
  BY <1>2, RelayRestartKeepsInv
<1>3. ASSUME NEW s \in Service, CosignerRestarts(s)
      PROVE  RoutingInv'
  BY <1>3, CosignerRestartKeepsInv
<1>4. ASSUME NEW a \in Advertiser, NEW signer \in Address \cup {ZeroAddress},
             SetRelaySigner(a, signer)
      PROVE  RoutingInv'
  BY <1>4, SetRelaySignerKeepsInv
<1> QED
  BY <1>1, <1>2, <1>3, <1>4 DEF RoutingNext

\* And so does every step of another part.
LEMMA RoutingInvStutters ==
  ASSUME RoutingInv, UNCHANGED routingVars
  PROVE  RoutingInv'
<1>1. /\ UNCHANGED <<config, advCache, posts, cosignerCache>>
      /\ UNCHANGED <<relaySigner, everSigner, failed>>
  BY DEF routingVars
<1>2. RoutingTypeOK' /\ AssertConfig(config)'
  BY <1>1 DEF RoutingInv, RoutingTypeOK, AssertConfig, SelfCosign, HasCosigner
<1>3. ASSUME NEW p \in Post PROVE PostInv(p)'
  BY <1>1 DEF RoutingInv, PostInv, Placed, SentHome, OwnerKnown, SignatureKnown,
              StandsFor, OwnKeyUsed, TargetFor, HasCosigner, AtCosigner
<1> QED
  BY <1>1, <1>2, <1>3 DEF RoutingInv

-----------------------------------------------------------------------------
(* The types of the limiter                                                *)

\* A bucket stays one when it is renewed, aged or counted in.
LEMMA BucketsOK ==
  /\ \A b \in Bucket : /\ Renewed(b) \in Bucket /\ Aged(b) \in Bucket
                       /\ \A limit \in Nat : Counted(b, limit) \in Bucket
  /\ [count |-> 0, left |-> -1] \in Bucket
  BY LimiterAssumption DEF Bucket, Renewed, Aged, Counted, Expired

\* The limiter starts without buckets but the global one.
LEMMA LimiterInitOK == LimiterInit => LimiterTypeOK
  BY BucketsOK DEF LimiterInit, LimiterTypeOK

\* Putting back an address's bucket leaves a map of buckets.
LEMMA HitsOK ==
  ASSUME LimiterTypeOK, NEW i \in Ip, NEW b \in Bucket, ipHits' = HitsWith(i, b)
  PROVE  DOMAIN ipHits' \subseteq Ip /\ \A j \in DOMAIN ipHits' : ipHits'[j] \in Bucket
  BY DEF LimiterTypeOK, HitsWith

\* Every call of the limiter keeps its types.
LEMMA LimiterStepOK ==
  ASSUME LimiterTypeOK, LimiterNext
  PROVE  LimiterTypeOK'
<1>1. CASE Tick
  <2>1. DOMAIN ipHits' \subseteq Ip /\ \A j \in DOMAIN ipHits' : ipHits'[j] \in Bucket
    BY <1>1, BucketsOK DEF Tick, LimiterTypeOK
  <2>2. glob' \in Bucket
    BY <1>1, BucketsOK DEF Tick, LimiterTypeOK
  <2>3. recent' \in [Ip -> [Ages -> Nat]]
    <3>1. ASSUME NEW i \in Ip, NEW a \in Ages
          PROVE  (IF a = 0 THEN 0 ELSE recent[i][a - 1]) \in Nat
      BY LimiterAssumption DEF LimiterTypeOK, Ages
    <3> QED
      BY <1>1, <3>1 DEF Tick
  <2> QED
    BY <1>1, <2>1, <2>2, <2>3 DEF Tick, LimiterTypeOK
<1>2. CASE Collect
  BY <1>2 DEF Collect, LimiterTypeOK
<1>3. ASSUME NEW i \in Ip, RateLimit(i)
      PROVE  LimiterTypeOK'
  <2>1. BucketOf(i) \in Bucket /\ GlobNow \in Bucket
    BY BucketsOK DEF LimiterTypeOK, BucketOf, GlobNow
  <2>2. CASE Exempted(i)
    BY <2>2 DEF Exempted, limiterVars, LimiterTypeOK
  <2>3. CASE RefusedForAll(i)
    BY <2>1, <2>3 DEF RefusedForAll, LimiterTypeOK
  <2>4. CASE RefusedForIp(i)
    BY <2>1, <2>4, HitsOK DEF RefusedForIp, LimiterTypeOK
  <2>5. CASE LetThrough(i)
    <3>1. /\ Counted(GlobNow, RATE_LIMIT_GLOBAL) \in Bucket
          /\ Counted(BucketOf(i), RATE_LIMIT_PER_IP) \in Bucket
      BY <2>1, BucketsOK, LimiterAssumption
    <3>2. recent' \in [Ip -> [Ages -> Nat]]
      BY <2>5, LimiterAssumption DEF LetThrough, LimiterTypeOK, Ages
    <3> QED
      BY <2>5, <3>1, <3>2, HitsOK DEF LetThrough, LimiterTypeOK
  <2> QED
    BY <1>3, <2>2, <2>3, <2>4, <2>5 DEF RateLimit
<1> QED
  BY <1>1, <1>2, <1>3 DEF LimiterNext

-----------------------------------------------------------------------------
(* What the limiter's buckets measure                                      *)

\* How many posts of i were let through within the last d ticks, by r.
Passed(r, i) == [d \in Ages |-> SumOn(r[i], 0 .. d)]

\* The same for all addresses.
PassedOfAll(r) == [d \in Ages |-> SumOn([i \in Ip |-> Passed(r, i)[d]], Ip)]

Window == RATE_LIMIT_WINDOW_MS

(***************************************************************************)
(* A bucket that has not expired has counted what was let through since it *)
(* was opened; no bucket's count, and no window that came before it, is    *)
(* above the limit.  An expired one has not seen a post in this tick: the  *)
(* first would have renewed it.                                            *)
(***************************************************************************)
Measured(bucket, limit, passed) ==
  IF Expired(bucket)
  THEN passed[0] = 0 /\ passed[Window] <= limit
  ELSE /\ bucket.count = passed[Window - bucket.left]
       /\ bucket.count <= limit
       /\ passed[Window] <= bucket.count + limit

\* An address without a bucket is treated as one whose bucket has expired.
BucketAt(i) ==
  IF i \in DOMAIN ipHits THEN ipHits[i] ELSE [count |-> 0, left |-> -1]

LimiterInv ==
  /\ LimiterTypeOK
  /\ RATE_LIMIT_PER_IP > 0 =>
       \A i \in Ip : Measured(BucketAt(i), RATE_LIMIT_PER_IP, Passed(recent, i))
  /\ RATE_LIMIT_GLOBAL > 0 =>
       Measured(glob, RATE_LIMIT_GLOBAL, PassedOfAll(recent))
  /\ RefusedWhenSpent

\* A bucket that is renewed, as expired ones are, still measures.
LEMMA RenewedMeasures ==
  ASSUME NEW b \in Bucket, NEW limit \in Nat, NEW p \in [Ages -> Nat],
         Measured(b, limit, p)
  PROVE  Measured(Renewed(b), limit, p) /\ ~Expired(Renewed(b))
  BY LimiterAssumption DEF Measured, Renewed, Bucket, Expired, Ages, Window

\* A tick, which moves every post on by one and may let the bucket expire.
LEMMA AgedMeasures ==
  ASSUME NEW b \in Bucket, NEW limit \in Nat, NEW p \in [Ages -> Nat],
         NEW q \in [Ages -> Nat], Measured(b, limit, p),
         q[0] = 0, \A d \in 0 .. Window - 1 : q[d + 1] = p[d], q[Window] <= p[Window]
  PROVE  Measured(Aged(b), limit, q)
<1>1. Window \in Nat \ {0} /\ Ages = 0 .. Window
  BY LimiterAssumption DEF Window, Ages
<1>2. b.left \in -1 .. Window /\ b.count \in Nat
  BY DEF Bucket, Window
<1>3. CASE b.left < 1
  <2>1. Expired(Aged(b))
    BY <1>2, <1>3 DEF Aged, Expired, Bucket
  <2>2. p[Window] <= limit
    BY <1>1, <1>2, <1>3 DEF Measured, Expired
  <2> QED
    BY <1>1, <2>1, <2>2 DEF Measured
<1>4. CASE b.left >= 1
  <2>1. /\ ~Expired(b) /\ ~Expired(Aged(b))
        /\ Aged(b).count = b.count /\ Aged(b).left = b.left - 1
    BY <1>2, <1>4 DEF Aged, Expired, Bucket
  <2>2. q[Window - (b.left - 1)] = p[Window - b.left]
    <3>1. Window - b.left \in 0 .. Window - 1
      <4>1. Window \in Nat /\ b.left \in Nat /\ 1 <= b.left /\ b.left <= Window
        BY <1>1, <1>2, <1>4
      <4> QED
        BY <4>1
    <3>2. Window - (b.left - 1) = (Window - b.left) + 1
      BY <1>1, <1>2
    <3> QED
      BY <3>1, <3>2
  <2>3. p[Window] \in Nat /\ q[Window] \in Nat
    BY <1>1
  <2> QED
    BY <1>2, <2>1, <2>2, <2>3 DEF Measured
<1> QED
  BY <1>2, <1>3, <1>4

\* One more post, counted by a bucket that is not full.
LEMMA CountedMeasures ==
  ASSUME NEW b \in Bucket, NEW limit \in Nat \ {0}, NEW p \in [Ages -> Nat],
         NEW q \in [Ages -> Nat], Measured(b, limit, p), ~Expired(b),
         b.count < limit, \A d \in Ages : q[d] = p[d] + 1
  PROVE  Measured(Counted(b, limit), limit, q)
<1>1. Window \in Nat \ {0} /\ Ages = 0 .. Window
  BY LimiterAssumption DEF Window, Ages
<1>2. b.left \in 0 .. Window /\ b.count \in Nat
  BY <1>1 DEF Bucket, Window, Expired
<1>3. Counted(b, limit).left = b.left /\ Counted(b, limit).count = b.count + 1
  BY DEF Counted, Bucket
<1>4. Window - b.left \in Ages /\ Window \in Ages
  <2>1. Window \in Nat /\ b.left \in Nat /\ b.left <= Window
    BY <1>1, <1>2
  <2>2. Window - b.left \in 0 .. Window /\ Window \in 0 .. Window
    BY <2>1
  <2> QED
    BY <1>1, <2>2
<1> QED
  BY <1>2, <1>3, <1>4 DEF Measured, Expired

\* Posts by age, as the history of the limiter keeps them.
Histories == [Ip -> [Ages -> Nat]]

\* Every stretch up to an age is made of ages.
LEMMA StretchesOK ==
  /\ Window \in Nat \ {0} /\ Ages = 0 .. Window /\ Window \in Ages /\ 0 \in Ages
  /\ \A d \in Ages : d \in Nat /\ IsFiniteSet(0 .. d) /\ 0 .. d \subseteq Ages
  BY LimiterAssumption, FS_Interval DEF Window, Ages

\* What was let through is a number, for one address and for all.
LEMMA PassedType ==
  ASSUME NEW r \in Histories
  PROVE  /\ \A i \in Ip : Passed(r, i) \in [Ages -> Nat]
         /\ PassedOfAll(r) \in [Ages -> Nat]
<1>1. ASSUME NEW i \in Ip, NEW d \in Ages
      PROVE  SumOn(r[i], 0 .. d) \in Nat
  <2>1. \A a \in 0 .. d : r[i][a] \in Nat
    BY StretchesOK DEF Histories
  <2> QED
    BY <2>1, StretchesOK, SumNat
<1>2. \A i \in Ip : Passed(r, i) \in [Ages -> Nat]
  BY <1>1 DEF Passed
<1>3. ASSUME NEW d \in Ages
      PROVE  SumOn([i \in Ip |-> Passed(r, i)[d]], Ip) \in Nat
  BY <1>2, SumNat, LimiterAssumption
<1> QED
  BY <1>2, <1>3 DEF PassedOfAll

\* What was let through within a stretch grows with it.
LEMMA PassedGrows ==
  ASSUME NEW r \in Histories, NEW d \in Ages
  PROVE  /\ \A i \in Ip : Passed(r, i)[d] <= Passed(r, i)[Window]
         /\ PassedOfAll(r)[d] <= PassedOfAll(r)[Window]
<1>1. ASSUME NEW i \in Ip PROVE Passed(r, i)[d] <= Passed(r, i)[Window]
  <2>1. \A a \in 0 .. Window : r[i][a] \in Nat
    BY StretchesOK DEF Histories
  <2>2. IsFiniteSet(0 .. Window) /\ 0 .. d \in SUBSET (0 .. Window)
    BY StretchesOK
  <2>3. SumOn(r[i], 0 .. d) <= SumOn(r[i], 0 .. Window)
    BY <2>1, <2>2, SumOfMore
  <2> QED
    BY <2>3, StretchesOK DEF Passed
<1>2. SumOn([i \in Ip |-> Passed(r, i)[d]], Ip) <= SumOn([i \in Ip |-> Passed(r, i)[Window]], Ip)
  BY <1>1, PassedType, StretchesOK, SumMonotone, LimiterAssumption
<1> QED
  BY <1>1, <1>2, StretchesOK DEF PassedOfAll

\* After a tick every stretch has moved on by one.
LEMMA PassedAges ==
  ASSUME NEW r \in Histories, NEW s \in Histories,
         s = [i \in Ip |-> [a \in Ages |-> IF a = 0 THEN 0 ELSE r[i][a - 1]]]
  PROVE  /\ \A i \in Ip :
              /\ Passed(s, i)[0] = 0
              /\ \A d \in 0 .. Window - 1 : Passed(s, i)[d + 1] = Passed(r, i)[d]
         /\ PassedOfAll(s)[0] = 0
         /\ \A d \in 0 .. Window - 1 : PassedOfAll(s)[d + 1] = PassedOfAll(r)[d]
<1>1. ASSUME NEW i \in Ip PROVE Passed(s, i)[0] = 0
  <2>1. s[i][0] = 0
    BY StretchesOK
  <2>2. \A a \in 0 .. 0 : s[i][a] = 0
    <3>1. \A a \in 0 .. 0 : a = 0
      OBVIOUS
    <3> QED
      BY <2>1, <3>1
  <2>3. SumOn(s[i], 0 .. 0) = 0
    <3> DEFINE stretch == 0 .. 0
    <3> HIDE DEF stretch
    <3>1. IsFiniteSet(stretch)
      BY StretchesOK DEF stretch
    <3>2. \A a \in stretch : s[i][a] = 0
      BY <2>2 DEF stretch
    <3>3. SumOn(s[i], stretch) = 0
      BY <3>1, <3>2, SumOfZeros
    <3> QED
      BY <3>3 DEF stretch
  <2> QED
    BY <2>3, StretchesOK DEF Passed
<1>2. ASSUME NEW i \in Ip, NEW d \in 0 .. Window - 1
      PROVE  Passed(s, i)[d + 1] = Passed(r, i)[d]
  <2>1. d \in Nat /\ d \in Ages /\ d + 1 \in Ages
    BY StretchesOK
  <2>2. \A n \in 0 .. d : r[i][n] \in Nat /\ s[i][n + 1] = r[i][n]
    <3>1. ASSUME NEW n \in 0 .. d PROVE r[i][n] \in Nat /\ s[i][n + 1] = r[i][n]
      <4>1. n \in Ages /\ n + 1 \in Ages /\ n + 1 # 0 /\ (n + 1) - 1 = n
        BY <2>1, StretchesOK
      <4> QED
        BY <4>1 DEF Histories
    <3> QED
      BY <3>1
  <2>3. s[i][0] = 0
    BY StretchesOK
  <2>4. SumOn(s[i], 0 .. d + 1) = SumOn(r[i], 0 .. d)
    BY <2>1, <2>2, <2>3, SumShifted
  <2> QED
    BY <2>1, <2>4 DEF Passed
<1>3. PassedOfAll(s)[0] = 0
  <2> DEFINE f == [i \in Ip |-> Passed(s, i)[0]]
  <2>1. \A i \in Ip : f[i] = 0
    BY <1>1
  <2>2. SumOn(f, Ip) = 0
    <3> HIDE DEF f
    <3> QED
      BY <2>1, SumOfZeros, LimiterAssumption
  <2> QED
    BY <2>2, StretchesOK DEF PassedOfAll
<1>4. ASSUME NEW d \in 0 .. Window - 1
      PROVE  PassedOfAll(s)[d + 1] = PassedOfAll(r)[d]
  <2>1. d \in Ages /\ d + 1 \in Ages
    BY StretchesOK
  <2>2. [i \in Ip |-> Passed(s, i)[d + 1]] = [i \in Ip |-> Passed(r, i)[d]]
    BY <1>2
  <2> QED
    BY <2>1, <2>2 DEF PassedOfAll
<1> QED
  BY <1>1, <1>2, <1>3, <1>4

\* A post let through counts in every stretch of its address and of all.
LEMMA PassedOneMore ==
  ASSUME NEW r \in Histories, NEW s \in Histories, NEW i \in Ip,
         s = [r EXCEPT ![i][0] = @ + 1]
  PROVE  /\ \A d \in Ages : Passed(s, i)[d] = Passed(r, i)[d] + 1
         /\ \A j \in Ip \ {i} : Passed(s, j) = Passed(r, j)
         /\ \A d \in Ages : PassedOfAll(s)[d] = PassedOfAll(r)[d] + 1
<1>1. ASSUME NEW d \in Ages PROVE Passed(s, i)[d] = Passed(r, i)[d] + 1
  <2>1. IsFiniteSet(0 .. d) /\ 0 \in 0 .. d
    BY StretchesOK
  <2>2. \A a \in 0 .. d :
          r[i][a] \in Nat /\ s[i][a] = IF a = 0 THEN r[i][a] + 1 ELSE r[i][a]
    BY StretchesOK DEF Histories
  <2>3. SumOn(s[i], 0 .. d) = SumOn(r[i], 0 .. d) + 1
    BY <2>1, <2>2, SumOneMore
  <2> QED
    BY <2>3 DEF Passed
<1>2. ASSUME NEW j \in Ip \ {i} PROVE Passed(s, j) = Passed(r, j)
  <2>1. s[j] = r[j]
    BY DEF Histories
  <2> QED
    BY <2>1 DEF Passed
<1>3. ASSUME NEW d \in Ages PROVE PassedOfAll(s)[d] = PassedOfAll(r)[d] + 1
  <2> DEFINE f == [j \in Ip |-> Passed(r, j)[d]]
             g == [j \in Ip |-> Passed(s, j)[d]]
  <2>1. \A j \in Ip : f[j] \in Nat /\ g[j] = IF j = i THEN f[j] + 1 ELSE f[j]
    BY <1>1, <1>2, PassedType
  <2>2. SumOn(g, Ip) = SumOn(f, Ip) + 1
    <3> HIDE DEF f, g
    <3> QED
      BY <2>1, SumOneMore, LimiterAssumption
  <2> QED
    BY <2>2 DEF PassedOfAll
<1> QED
  BY <1>1, <1>2, <1>3

\* The two properties speak of the longest stretch.
LEMMA RecentIsPassed ==
  ASSUME recent \in Histories
  PROVE  /\ \A i \in Ip : Recent(i) = Passed(recent, i)[Window]
         /\ RecentOfAll = PassedOfAll(recent)[Window]
<1>1. \A i \in Ip : Recent(i) = Passed(recent, i)[Window]
  BY StretchesOK DEF Recent, SumFunction, SumOn, Passed, Histories
<1>2. [i \in Ip |-> Recent(i)] = [i \in Ip |-> Passed(recent, i)[Window]]
  BY <1>1
<1> QED
  BY <1>1, <1>2, StretchesOK DEF RecentOfAll, SumFunction, SumOn, PassedOfAll

\* At the start nothing was let through.
LEMMA LimiterInvInit == LimiterInit => LimiterInv
<1> SUFFICES ASSUME LimiterInit PROVE LimiterInv
  OBVIOUS
<1>1. LimiterTypeOK
  BY LimiterInitOK
<1>2. recent \in Histories
  BY <1>1 DEF LimiterTypeOK, Histories
<1>3. ASSUME NEW i \in Ip, NEW d \in Ages PROVE Passed(recent, i)[d] = 0
  <2> DEFINE stretch == 0 .. d
             f == recent[i]
  <2>1. IsFiniteSet(stretch) /\ \A a \in stretch : f[a] = 0
    BY StretchesOK DEF LimiterInit
  <2>2. SumOn(f, stretch) = 0
    <3> HIDE DEF stretch, f
    <3> QED
      BY <2>1, SumOfZeros
  <2> QED
    BY <2>2 DEF Passed
<1>4. ASSUME NEW d \in Ages PROVE PassedOfAll(recent)[d] = 0
  <2> DEFINE f == [i \in Ip |-> Passed(recent, i)[d]]
  <2>1. \A i \in Ip : f[i] = 0
    BY <1>3
  <2>2. SumOn(f, Ip) = 0
    <3> HIDE DEF f
    <3> QED
      BY <2>1, SumOfZeros, LimiterAssumption
  <2> QED
    BY <2>2 DEF PassedOfAll
<1>5. ASSUME NEW i \in Ip
      PROVE  Measured(BucketAt(i), RATE_LIMIT_PER_IP, Passed(recent, i))
  BY <1>3, StretchesOK, LimiterAssumption
     DEF LimiterInit, BucketAt, Measured, Expired
<1>6. Measured(glob, RATE_LIMIT_GLOBAL, PassedOfAll(recent))
  BY <1>4, StretchesOK, LimiterAssumption DEF LimiterInit, Measured, Expired
<1>7. RefusedWhenSpent
  BY DEF LimiterInit, RefusedWhenSpent, NoAnswer
<1> QED
  BY <1>1, <1>5, <1>6, <1>7 DEF LimiterInv

\* What the limits say of bursts and refusals, read off the buckets.
LEMMA MeasuredBounds ==
  ASSUME NEW b \in Bucket, NEW limit \in Nat, NEW p \in [Ages -> Nat],
         Measured(b, limit, p), \A d \in Ages : p[d] <= p[Window]
  PROVE  /\ p[Window] <= 2 * limit
         /\ ~Expired(b) /\ b.count >= limit => p[Window] >= limit
<1>1. Window \in Nat \ {0} /\ Ages = 0 .. Window /\ Window \in Ages
  BY StretchesOK
<1>2. b.count \in Nat /\ p[Window] \in Nat
  BY <1>1 DEF Bucket
<1>3. CASE Expired(b)
  BY <1>2, <1>3 DEF Measured
<1>4. CASE ~Expired(b)
  <2>1. Window - b.left \in Ages
    <3>1. Window \in Nat /\ b.left \in Nat /\ b.left <= Window
      BY <1>1, <1>4 DEF Bucket, Expired, Window
    <3>2. Window - b.left \in 0 .. Window
      BY <3>1
    <3> QED
      BY <1>1, <3>2
  <2>2. b.count <= p[Window]
    BY <1>4, <2>1 DEF Measured
  <2> QED
    BY <1>2, <1>4, <2>2 DEF Measured
<1> QED
  BY <1>3, <1>4

\* The two properties of the limiter.
LEMMA LimiterInvGivesProperties == LimiterInv => BurstBounded /\ RefusedWhenSpent
<1> SUFFICES ASSUME LimiterInv PROVE BurstBounded
  BY DEF LimiterInv
<1>1. recent \in Histories /\ glob \in Bucket /\ \A i \in Ip : BucketAt(i) \in Bucket
  BY BucketsOK DEF LimiterInv, LimiterTypeOK, Histories, BucketAt
<1>2. ASSUME NEW i \in Ip, RATE_LIMIT_PER_IP > 0
      PROVE  Recent(i) <= 2 * RATE_LIMIT_PER_IP
  <2>1. Measured(BucketAt(i), RATE_LIMIT_PER_IP, Passed(recent, i))
    BY <1>2 DEF LimiterInv
  <2>2. \A d \in Ages : Passed(recent, i)[d] <= Passed(recent, i)[Window]
    BY <1>1, PassedGrows
  <2>3. Passed(recent, i) \in [Ages -> Nat]
    BY <1>1, PassedType
  <2>4. Passed(recent, i)[Window] <= 2 * RATE_LIMIT_PER_IP
    BY <1>1, <2>1, <2>2, <2>3, MeasuredBounds, LimiterAssumption
  <2> QED
    BY <1>1, <2>4, RecentIsPassed
<1>3. ASSUME RATE_LIMIT_GLOBAL > 0
      PROVE  RecentOfAll <= 2 * RATE_LIMIT_GLOBAL
  <2>1. Measured(glob, RATE_LIMIT_GLOBAL, PassedOfAll(recent))
    BY <1>3 DEF LimiterInv
  <2>2. \A d \in Ages : PassedOfAll(recent)[d] <= PassedOfAll(recent)[Window]
    BY <1>1, PassedGrows
  <2>3. PassedOfAll(recent) \in [Ages -> Nat]
    BY <1>1, PassedType
  <2>4. PassedOfAll(recent)[Window] <= 2 * RATE_LIMIT_GLOBAL
    BY <1>1, <2>1, <2>2, <2>3, MeasuredBounds, LimiterAssumption
  <2> QED
    BY <1>1, <2>4, RecentIsPassed
<1> QED
  BY <1>2, <1>3 DEF BurstBounded

\* The bucket a post is counted in is the address's, renewed if it has expired.
LEMMA BucketOfIsRenewed ==
  /\ \A i \in Ip : BucketOf(i) = Renewed(BucketAt(i))
  /\ RATE_LIMIT_GLOBAL > 0 => GlobNow = Renewed(glob)
  BY DEF BucketOf, BucketAt, GlobNow

\* Putting back one address's bucket leaves the others' alone.
LEMMA BucketPut ==
  ASSUME NEW i \in Ip, NEW b \in Bucket, RATE_LIMIT_PER_IP > 0,
         ipHits' = HitsWith(i, b)
  PROVE  \A j \in Ip : BucketAt(j)' = IF j = i THEN b ELSE BucketAt(j)
  BY LimiterAssumption DEF HitsWith, BucketAt

\* Every call of the limiter keeps what its buckets measure.
LEMMA LimiterInvStep ==
  ASSUME LimiterInv, LimiterNext
  PROVE  LimiterInv'
<1>1. LimiterTypeOK /\ LimiterTypeOK'
  BY LimiterStepOK DEF LimiterInv
<1>2. /\ recent \in Histories /\ recent' \in Histories /\ glob \in Bucket
      /\ GlobNow \in Bucket
      /\ \A i \in Ip : BucketAt(i) \in Bucket /\ BucketOf(i) \in Bucket
  BY <1>1, BucketsOK DEF LimiterTypeOK, Histories, BucketAt, BucketOf, GlobNow
<1>3. /\ \A i \in Ip : /\ Passed(recent, i) \in [Ages -> Nat]
                       /\ Passed(recent', i) \in [Ages -> Nat]
      /\ PassedOfAll(recent) \in [Ages -> Nat]
      /\ PassedOfAll(recent') \in [Ages -> Nat]
  BY <1>2, PassedType
<1>4. /\ RATE_LIMIT_PER_IP > 0 =>
           \A i \in Ip : Measured(BucketAt(i), RATE_LIMIT_PER_IP, Passed(recent, i))
      /\ RATE_LIMIT_GLOBAL > 0 =>
           Measured(glob, RATE_LIMIT_GLOBAL, PassedOfAll(recent))
      /\ RefusedWhenSpent
      /\ RATE_LIMIT_PER_IP \in Nat /\ RATE_LIMIT_GLOBAL \in Nat
  BY LimiterAssumption DEF LimiterInv
<1>5. CASE Tick
  <2>1. recent' = [i \in Ip |-> [a \in Ages |-> IF a = 0 THEN 0 ELSE recent[i][a - 1]]]
    BY <1>5 DEF Tick
  <2>2. /\ \A i \in Ip :
             /\ Passed(recent', i)[0] = 0
             /\ \A d \in 0 .. Window - 1 : Passed(recent', i)[d + 1] = Passed(recent, i)[d]
        /\ PassedOfAll(recent')[0] = 0
        /\ \A d \in 0 .. Window - 1 : PassedOfAll(recent')[d + 1] = PassedOfAll(recent)[d]
    BY <1>2, <2>1, PassedAges
  <2>3. Window - 1 \in 0 .. Window - 1 /\ (Window - 1) + 1 = Window /\ Window - 1 \in Ages
    BY StretchesOK
  <2>4. /\ \A i \in Ip : Passed(recent', i)[Window] <= Passed(recent, i)[Window]
        /\ PassedOfAll(recent')[Window] <= PassedOfAll(recent)[Window]
    BY <1>2, <2>2, <2>3, PassedGrows
  <2>5. ASSUME NEW i \in Ip, RATE_LIMIT_PER_IP > 0
        PROVE  Measured(BucketAt(i), RATE_LIMIT_PER_IP, Passed(recent, i))'
    <3>1. BucketAt(i)' = Aged(BucketAt(i))
      <4>1. /\ DOMAIN ipHits' = DOMAIN ipHits
            /\ \A x \in DOMAIN ipHits : ipHits'[x] = Aged(ipHits[x])
        BY <1>5 DEF Tick
      <4>2. Aged([count |-> 0, left |-> -1]) = [count |-> 0, left |-> -1]
        BY DEF Aged, Expired
      <4> QED
        BY <4>1, <4>2 DEF BucketAt
    <3>2. Measured(Aged(BucketAt(i)), RATE_LIMIT_PER_IP, Passed(recent', i))
      BY <1>2, <1>3, <1>4, <2>2, <2>4, <2>5, AgedMeasures
    <3> QED
      BY <3>1, <3>2 DEF Measured
  <2>6. ASSUME RATE_LIMIT_GLOBAL > 0
        PROVE  Measured(glob, RATE_LIMIT_GLOBAL, PassedOfAll(recent))'
    <3>1. Measured(Aged(glob), RATE_LIMIT_GLOBAL, PassedOfAll(recent'))
      BY <1>2, <1>3, <1>4, <2>2, <2>4, <2>6, AgedMeasures
    <3> QED
      BY <1>5, <3>1 DEF Tick, Measured
  <2>7. RefusedWhenSpent'
    BY <1>5 DEF Tick, RefusedWhenSpent, NoAnswer
  <2> QED
    BY <1>1, <2>5, <2>6, <2>7 DEF LimiterInv
<1>6. CASE Collect
  <2>1. glob' = glob /\ recent' = recent /\ answer' = answer
    BY <1>6 DEF Collect
  <2>2. ASSUME NEW i \in Ip, RATE_LIMIT_PER_IP > 0
        PROVE  Measured(BucketAt(i), RATE_LIMIT_PER_IP, Passed(recent, i))'
    <3>1. Measured(BucketAt(i), RATE_LIMIT_PER_IP, Passed(recent, i))
      BY <1>4, <2>2
    <3>2. CASE Stale(i)
      <4>1. Expired(BucketAt(i)) /\ Expired(BucketAt(i)')
        BY <1>6, <3>2 DEF Collect, BucketAt, Stale, Expired
      <4> QED
        BY <2>1, <3>1, <4>1 DEF Measured, Expired
    <3>3. CASE ~Stale(i)
      <4>1. BucketAt(i)' = BucketAt(i)
        BY <1>6, <3>3 DEF Collect, BucketAt
      <4> QED
        BY <2>1, <3>1, <4>1
    <3> QED
      BY <3>2, <3>3
  <2>3. RefusedWhenSpent'
    BY <1>4, <2>1 DEF RefusedWhenSpent, Recent, RecentOfAll
  <2> QED
    BY <1>1, <1>4, <2>1, <2>2, <2>3 DEF LimiterInv
<1>7. ASSUME NEW i \in Ip, RateLimit(i)
      PROVE  LimiterInv'
  <2>1. /\ RATE_LIMIT_PER_IP > 0 =>
             /\ Measured(BucketOf(i), RATE_LIMIT_PER_IP, Passed(recent, i))
             /\ ~Expired(BucketOf(i))
        /\ RATE_LIMIT_GLOBAL > 0 =>
             /\ Measured(GlobNow, RATE_LIMIT_GLOBAL, PassedOfAll(recent))
             /\ ~Expired(GlobNow)
    BY <1>2, <1>3, <1>4, RenewedMeasures, BucketOfIsRenewed
  <2>2. CASE Exempted(i)
    <3>1. ipHits' = ipHits /\ glob' = glob /\ recent' = recent /\ answer' = answer
      BY <2>2 DEF Exempted, limiterVars
    <3>2. \A j \in Ip : BucketAt(j)' = BucketAt(j)
      BY <3>1 DEF BucketAt
    <3>3. RefusedWhenSpent'
      BY <1>4, <3>1 DEF RefusedWhenSpent, Recent, RecentOfAll
    <3> QED
      BY <1>1, <1>4, <3>1, <3>2, <3>3 DEF LimiterInv
  <2>3. CASE RefusedForAll(i)
    <3>1. /\ ipHits' = ipHits /\ glob' = GlobNow /\ recent' = recent
          /\ answer' = [ip |-> i, scope |-> "global"]
          /\ RATE_LIMIT_GLOBAL > 0 /\ GlobNow.count >= RATE_LIMIT_GLOBAL
      BY <2>3 DEF RefusedForAll, GlobSpent
    <3>2. \A j \in Ip : BucketAt(j)' = BucketAt(j)
      BY <3>1 DEF BucketAt
    <3>3. RefusedWhenSpent'
      <4>1. \A d \in Ages : PassedOfAll(recent)[d] <= PassedOfAll(recent)[Window]
        BY <1>2, PassedGrows
      <4>2. PassedOfAll(recent)[Window] >= RATE_LIMIT_GLOBAL
        BY <1>2, <1>3, <1>4, <2>1, <3>1, <4>1, MeasuredBounds
      <4>3. RecentOfAll >= RATE_LIMIT_GLOBAL
        BY <1>2, <4>2, RecentIsPassed
      <4>4. RecentOfAll' = RecentOfAll
        BY <3>1 DEF RecentOfAll, Recent
      <4> QED
        BY <3>1, <4>3, <4>4 DEF RefusedWhenSpent
    <3> QED
      BY <1>1, <1>4, <2>1, <3>1, <3>2, <3>3 DEF LimiterInv
  <2>4. CASE RefusedForIp(i)
    <3>1. /\ ipHits' = HitsWith(i, BucketOf(i)) /\ glob' = GlobNow /\ recent' = recent
          /\ answer' = [ip |-> i, scope |-> "ip"]
          /\ RATE_LIMIT_PER_IP > 0 /\ BucketOf(i).count >= RATE_LIMIT_PER_IP
      BY <2>4 DEF RefusedForIp, IpSpent
    <3>2. \A j \in Ip : BucketAt(j)' = IF j = i THEN BucketOf(i) ELSE BucketAt(j)
      BY <1>2, <3>1, BucketPut
    <3>3. RefusedWhenSpent'
      <4>1. \A d \in Ages : Passed(recent, i)[d] <= Passed(recent, i)[Window]
        BY <1>2, PassedGrows
      <4>2. Passed(recent, i)[Window] >= RATE_LIMIT_PER_IP
        BY <1>2, <1>3, <1>4, <2>1, <3>1, <4>1, MeasuredBounds
      <4>3. Recent(i) >= RATE_LIMIT_PER_IP
        BY <1>2, <4>2, RecentIsPassed
      <4>4. Recent(i)' = Recent(i)
        BY <3>1 DEF Recent
      <4> QED
        BY <3>1, <4>3, <4>4 DEF RefusedWhenSpent, Recent
    <3> QED
      BY <1>1, <1>4, <2>1, <3>1, <3>2, <3>3 DEF LimiterInv
  <2>5. CASE LetThrough(i)
    <3>1. /\ ipHits' = HitsWith(i, Counted(BucketOf(i), RATE_LIMIT_PER_IP))
          /\ glob' = Counted(GlobNow, RATE_LIMIT_GLOBAL)
          /\ recent' = [recent EXCEPT ![i][0] = @ + 1]
          /\ answer' = NoAnswer
          /\ RATE_LIMIT_PER_IP > 0 => BucketOf(i).count < RATE_LIMIT_PER_IP
          /\ RATE_LIMIT_GLOBAL > 0 => GlobNow.count < RATE_LIMIT_GLOBAL
      BY <1>2, <1>4, <2>5 DEF LetThrough, IpSpent, GlobSpent, Bucket
    <3>2. /\ \A d \in Ages : Passed(recent', i)[d] = Passed(recent, i)[d] + 1
          /\ \A j \in Ip \ {i} : Passed(recent', j) = Passed(recent, j)
          /\ \A d \in Ages : PassedOfAll(recent')[d] = PassedOfAll(recent)[d] + 1
      BY <1>2, <3>1, PassedOneMore
    <3>3. ASSUME NEW j \in Ip, RATE_LIMIT_PER_IP > 0
          PROVE  Measured(BucketAt(j), RATE_LIMIT_PER_IP, Passed(recent, j))'
      <4>1. Counted(BucketOf(i), RATE_LIMIT_PER_IP) \in Bucket
        BY <1>2, <1>4, BucketsOK
      <4>2. BucketAt(j)' = IF j = i THEN Counted(BucketOf(i), RATE_LIMIT_PER_IP)
                                    ELSE BucketAt(j)
        BY <3>1, <3>3, <4>1, BucketPut
      <4>3. CASE j = i
        <5>1. RATE_LIMIT_PER_IP \in Nat \ {0}
          BY <1>4, <3>3
        <5>2. Measured(Counted(BucketOf(i), RATE_LIMIT_PER_IP), RATE_LIMIT_PER_IP,
                       Passed(recent', i))
          BY <1>2, <1>3, <2>1, <3>1, <3>2, <3>3, <5>1, CountedMeasures
        <5> QED
          BY <4>2, <4>3, <5>2 DEF Measured
      <4>4. CASE j # i
        <5>1. Measured(BucketAt(j), RATE_LIMIT_PER_IP, Passed(recent', j))
          BY <1>4, <3>2, <3>3, <4>4
        <5> QED
          BY <4>2, <4>4, <5>1 DEF Measured
      <4> QED
        BY <4>3, <4>4
    <3>4. ASSUME RATE_LIMIT_GLOBAL > 0
          PROVE  Measured(glob, RATE_LIMIT_GLOBAL, PassedOfAll(recent))'
      <4>1. RATE_LIMIT_GLOBAL \in Nat \ {0}
        BY <1>4, <3>4
      <4>2. Measured(Counted(GlobNow, RATE_LIMIT_GLOBAL), RATE_LIMIT_GLOBAL,
                     PassedOfAll(recent'))
        BY <1>2, <1>3, <2>1, <3>1, <3>2, <3>4, <4>1, CountedMeasures
      <4> QED
        BY <3>1, <4>2 DEF Measured
    <3>5. RefusedWhenSpent'
      BY <3>1 DEF RefusedWhenSpent, NoAnswer
    <3> QED
      BY <1>1, <3>3, <3>4, <3>5 DEF LimiterInv
  <2> QED
    BY <1>7, <2>2, <2>3, <2>4, <2>5 DEF RateLimit
<1> QED
  BY <1>5, <1>6, <1>7 DEF LimiterNext

-----------------------------------------------------------------------------
(* The front                                                               *)

\* The invariant of the whole front: each part's own.
FrontInv == part \in Parts /\ LimiterInv /\ PolicyInv /\ RoutingInv

\* A step of another part leaves the policy as it is.
LEMMA PolicyInvStutters ==
  ASSUME PolicyInv, UNCHANGED policyVars
  PROVE  PolicyInv'
<1>1. policy' = policy /\ file' = file /\ edited' = edited
  BY DEF policyVars
<1>2. Loaded(file)' = Loaded(file')
  BY DEF Loaded, WithEnvironment, Assigned, Defaults, Torn, Missing, NotANumber
<1> QED
  BY <1>1, <1>2 DEF PolicyInv, PolicyTypeOK, Running

\* A step of another part leaves the limiter as it is.
LEMMA LimiterStutters ==
  ASSUME LimiterInv, UNCHANGED limiterVars
  PROVE  LimiterInv'
<1>1. ipHits' = ipHits /\ glob' = glob /\ recent' = recent /\ answer' = answer
  BY DEF limiterVars
<1>2. LimiterTypeOK'
  BY <1>1 DEF LimiterInv, LimiterTypeOK
<1>3. RefusedWhenSpent'
  BY <1>1 DEF LimiterInv, RefusedWhenSpent, Recent, RecentOfAll
<1>4. \A i \in Ip : BucketAt(i)' = BucketAt(i)
  BY <1>1 DEF BucketAt
<1> QED
  BY <1>1, <1>2, <1>3, <1>4 DEF LimiterInv

(***************************************************************************)
(* Whichever part moves, the invariants of all three hold.                 *)
(***************************************************************************)
THEOREM FrontInvariant == FrontSpec => []FrontInv
<1>1. FrontInit => FrontInv
  <2> SUFFICES ASSUME FrontInit PROVE FrontInv
    OBVIOUS
  <2>1. part \in Parts /\ LimiterInv
    BY LimiterInvInit DEF FrontInit
  <2>2. PolicyInv
    BY PolicyInvInit DEF FrontInit
  <2>3. RoutingInv
    BY RoutingInvInit DEF FrontInit, RoutingAtRest
  <2> QED
    BY <2>1, <2>2, <2>3 DEF FrontInv
<1>2. FrontInv /\ [FrontNext]_frontVars => FrontInv'
  <2> SUFFICES ASSUME FrontInv, [FrontNext]_frontVars PROVE FrontInv'
    OBVIOUS
  <2>1. CASE LimiterStep
    BY <2>1, LimiterInvStep, PolicyInvStutters, RoutingInvStutters
       DEF FrontInv, LimiterStep
  <2>2. CASE PolicyStep
    BY <2>2, PolicyInvStep, LimiterStutters, RoutingInvStutters
       DEF FrontInv, PolicyStep
  <2>3. CASE RoutingStep
    BY <2>3, RoutingInvStep, LimiterStutters, PolicyInvStutters
       DEF FrontInv, RoutingStep
  <2>4. CASE UNCHANGED frontVars
    BY <2>4, LimiterStutters, PolicyInvStutters, RoutingInvStutters
       DEF FrontInv, frontVars
  <2> QED
    BY <2>1, <2>2, <2>3, <2>4 DEF FrontNext
<1> QED
  BY <1>1, <1>2, PTL DEF FrontSpec

(***************************************************************************)
(* The types of the front: every bucket in its bounds, every policy, file  *)
(* and post of the shape the code gives it, for any environment.           *)
(***************************************************************************)
THEOREM FrontTypeCorrect == FrontSpec => []FrontTypeOK
<1>1. FrontInv => FrontTypeOK
  BY DEF FrontInv, FrontTypeOK, LimiterInv, PolicyInv, RoutingInv
<1> QED
  BY <1>1, FrontInvariant, PTL

(***************************************************************************)
(* Over every stretch of a window's length the limiter lets through up to  *)
(* twice the limit, of one address and in all: its windows are fixed ones, *)
(* and a burst may straddle the end of one (ratelimit.mjs:27-52).          *)
(***************************************************************************)
THEOREM BurstsBounded == FrontSpec => []BurstBounded
<1>1. FrontInv => BurstBounded
  BY LimiterInvGivesProperties DEF FrontInv
<1> QED
  BY <1>1, FrontInvariant, PTL

(***************************************************************************)
(* A refusal is backed by a whole limit of posts that passed within the    *)
(* last window: refused ones are not counted (ratelimit.mjs:25-52).        *)
(***************************************************************************)
THEOREM RefusalsBacked == FrontSpec => []RefusedWhenSpent
<1>1. FrontInv => RefusedWhenSpent
  BY LimiterInvGivesProperties DEF FrontInv
<1> QED
  BY <1>1, FrontInvariant, PTL

(***************************************************************************)
(* A restarted relay decides as the stopped one did, unless its last edit  *)
(* failed (policy.mjs:37-40, 90-121).                                      *)
(***************************************************************************)
THEOREM GoodEditsSurvive == FrontSpec => []DecisionsSurvive
<1>1. FrontInv => DecisionsSurvive
  BY PolicyInvGivesProperty DEF FrontInv
<1> QED
  BY <1>1, FrontInvariant, PTL

(***************************************************************************)
(* A batch goes to the co-signer the table names for its advertiser,       *)
(* unless a look-up of its campaign failed (claims.mjs:322-341).           *)
(***************************************************************************)
THEOREM BatchesRoutedHome == FrontSpec => []RoutedHome
<1>1. FrontInv => RoutedHome
  BY RoutingInvGivesProperties DEF FrontInv
<1> QED
  BY <1>1, FrontInvariant, PTL

(***************************************************************************)
(* A queued batch carries the signature of its advertiser, of a relay      *)
(* signer it has named or of its poster; the relay's own only where the    *)
(* configuration gate lets it (config.mjs:113-126, claims.mjs:138-160,     *)
(* server.mjs of the co-signer).  A relay that has both a key of its own   *)
(* and a co-signer is exempt: see OwnKeyNeedsOverride.                     *)
(***************************************************************************)
THEOREM SignedForTheAdvertiser == FrontSpec => []AdvertiserSigned
<1>1. FrontInv => AdvertiserSigned
  BY RoutingInvGivesProperties DEF FrontInv
<1> QED
  BY <1>1, FrontInvariant, PTL
=============================================================================
