---------------------------- MODULE CosignRouting ----------------------------
(***************************************************************************)
(* Who signs a batch for the advertiser: ClaimQueue._cosign, cosignerFor   *)
(* and fetchAdvertiserSig of relay/src/claims.mjs, the configuration they  *)
(* run under (assertConfig of relay/src/config.mjs) and the co-signer they *)
(* ask (advertiser-cosigner/src/server.mjs).                               *)
(*                                                                         *)
(* A post is at one of the awaits: the relay's look-up of the campaign's   *)
(* advertiser, the fetch, and in the co-signer its two contract reads.     *)
(* Every read may fail, every connection may break, both processes may     *)
(* restart, and advertisers change their relay signer meanwhile.  What a   *)
(* co-signer declines for reasons of its own (its secret, its allowlist,   *)
(* its rate cap, a malformed body) is a decline at any time.               *)
(***************************************************************************)
EXTENDS Integers

CONSTANTS
  Post,            \* batches that reach _cosign
  Cid,             \* campaign ids
  Advertiser,      \* advertiser addresses
  Owner,           \* campaign -> advertiser, by the campaigns contract
  Service,         \* co-signer processes
  KeyOf,           \* co-signer -> the address of its key
  Address,         \* addresses keys sign for, advertisers' own included
  Configurations   \* environments the relay may be started with

NoService == "none"
NoKey == "none"
ZeroAddress == "0x0"   \* nobody: not found, not set, or the read failed
Poster == "poster"     \* who posted the batch brought the signature

ConfigType ==
  [advertiserWallet : Address \cup {NoKey}, url : Service \cup {NoService},
   table : UNION {[A -> Service] : A \in SUBSET Advertiser},
   exposed : BOOLEAN, allowInsecureSelfCosign : BOOLEAN]

ASSUME RoutingAssumption ==
  /\ Advertiser \subseteq Address
  /\ {ZeroAddress, NoKey, Poster} \cap Address = {}
  /\ Owner \in [Cid -> Advertiser]
  /\ KeyOf \in [Service -> Address]
  /\ Configurations \subseteq ConfigType

VARIABLES
  config,        \* the relay's environment
  advCache,      \* _advCache: campaign -> advertiser, ZeroAddress for null
  posts,         \* post -> where its batch is
  cosignerCache, \* co-signer -> campaigns its advCache holds
  relaySigner,   \* chain: getAdvertiserRelaySigner
  everSigner,    \* history: advertiser -> relay signers it has had
  failed         \* history: campaigns a look-up failed for, since the start

routingVars == <<config, advCache, posts, cosignerCache, relaySigner,
                 everSigner, failed>>

NotPosted ==
  [pc |-> "notPosted", cid |-> ZeroAddress, at |-> NoService,
   owner |-> ZeroAddress, advertiserSig |-> NoKey]

-----------------------------------------------------------------------------
(* The configuration gate                                                  *)

HasCosigner(c) == c.url # NoService \/ DOMAIN c.table # {}

SelfCosign(c) == c.advertiserWallet # NoKey /\ ~HasCosigner(c)

AssertConfig(c) ==
  SelfCosign(c) /\ c.exposed => c.allowInsecureSelfCosign

RoutingInit ==
  /\ config \in {c \in Configurations : AssertConfig(c)}
  /\ advCache = <<>>
  /\ posts = [p \in Post |-> NotPosted]
  /\ cosignerCache = [s \in Service |-> {}]
  /\ relaySigner = [a \in Advertiser |-> ZeroAddress]
  /\ everSigner = [a \in Advertiser |-> {}]
  /\ failed = {}

-----------------------------------------------------------------------------
(* The relay                                                               *)

RelayOnly == UNCHANGED <<config, cosignerCache, relaySigner, everSigner>>

Moved(p, pc) == [posts EXCEPT ![p].pc = pc]

Signed(p, cid, by) ==
  [posts EXCEPT ![p] = [NotPosted EXCEPT !.pc = "queued", !.cid = cid,
                                         !.advertiserSig = by]]

(***************************************************************************)
(* cosignerFor once the advertiser is known, and the fetch it leads to.    *)
(***************************************************************************)
DefaultFirst(adv) ==  \* mutant: the default co-signer before the table
  IF config.url # NoService THEN config.url
  ELSE IF adv \in DOMAIN config.table THEN config.table[adv] ELSE NoService

TargetFor(adv) ==
  IF adv \in DOMAIN config.table THEN config.table[adv] ELSE config.url

Asked(p, cid, adv) ==
  [posts EXCEPT ![p] =
     [NotPosted EXCEPT !.pc = IF TargetFor(adv) = NoService THEN "refused"
                              ELSE "asked",
                       !.cid = cid, !.at = TargetFor(adv)]]

(***************************************************************************)
(* _cosign up to its first await, called by enqueue or approve.            *)
(***************************************************************************)
CosignPosted(p, cid) ==
  /\ posts[p].pc = "notPosted"
  /\ posts' = Signed(p, cid, Poster)
  /\ RelayOnly /\ UNCHANGED <<advCache, failed>>

CosignAlone(p, cid) ==
  /\ posts[p].pc = "notPosted"
  /\ config.advertiserWallet # NoKey
  /\ posts' = Signed(p, cid, config.advertiserWallet)
  /\ RelayOnly /\ UNCHANGED <<advCache, failed>>

CosignAsking(p, cid) ==
  /\ posts[p].pc = "notPosted"
  /\ config.advertiserWallet = NoKey
  /\ HasCosigner(config)
  /\ posts' = IF cid \in DOMAIN advCache THEN Asked(p, cid, advCache[cid])
              ELSE [posts EXCEPT ![p] = [NotPosted EXCEPT !.pc = "lookup",
                                                          !.cid = cid]]
  /\ RelayOnly /\ UNCHANGED <<advCache, failed>>

CosignMissing(p, cid) ==
  /\ posts[p].pc = "notPosted"
  /\ config.advertiserWallet = NoKey
  /\ ~HasCosigner(config)
  /\ posts' = [posts EXCEPT ![p].pc = "refused", ![p].cid = cid]
  /\ RelayOnly /\ UNCHANGED <<advCache, failed>>

(***************************************************************************)
(* The look-up of the advertiser ends.  A failed one is kept like any      *)
(* other, and may replace what a concurrent look-up has found.             *)
(***************************************************************************)
Remembering(cid, adv) ==
  [c \in DOMAIN advCache \cup {cid} |-> IF c = cid THEN adv ELSE advCache[c]]

LookUpEnds(p) ==
  /\ posts[p].pc = "lookup"
  /\ advCache' = Remembering(posts[p].cid, Owner[posts[p].cid])
  /\ posts' = Asked(p, posts[p].cid, Owner[posts[p].cid])
  /\ RelayOnly /\ UNCHANGED failed

LookUpFails(p) ==
  /\ posts[p].pc = "lookup"
  /\ advCache' = Remembering(posts[p].cid, ZeroAddress)
  /\ posts' = Asked(p, posts[p].cid, ZeroAddress)
  /\ failed' = failed \cup {posts[p].cid}
  /\ RelayOnly

(***************************************************************************)
(* The fetch returns.  It has no timeout: it ends by the reply or by the   *)
(* connection breaking, at any point of the co-signer's work.              *)
(***************************************************************************)
AtCosigner == {"asked", "owned", "replied"}

Receive(p) ==
  /\ posts[p].pc = "replied"
  /\ posts' = Moved(p, IF posts[p].advertiserSig = NoKey THEN "refused"
                       ELSE "queued")
  /\ RelayOnly /\ UNCHANGED <<advCache, failed>>

Disconnect(p) ==
  /\ posts[p].pc \in AtCosigner
  /\ posts' = [posts EXCEPT ![p].pc = "refused", ![p].advertiserSig = NoKey]
  /\ RelayOnly /\ UNCHANGED <<advCache, failed>>

RelayRestarts ==
  /\ advCache' = <<>>
  /\ failed' = {}
  /\ posts' = [p \in Post |->
                 IF posts[p].pc \in AtCosigner \cup {"lookup"}
                 THEN [posts[p] EXCEPT !.pc = "lost"] ELSE posts[p]]
  /\ RelayOnly

-----------------------------------------------------------------------------
(* The co-signer, and the chain                                            *)

CosignerOnly == UNCHANGED <<config, advCache, failed>>

(***************************************************************************)
(* cosign awaits the campaign's advertiser (advertiserOf: cached unless    *)
(* the read fails) and then the relay signer of what it got.               *)
(***************************************************************************)
ReadOwner(p) ==
  /\ posts[p].pc = "asked"
  /\ posts' = [posts EXCEPT ![p].pc = "owned", ![p].owner = Owner[posts[p].cid]]
  /\ cosignerCache' = [cosignerCache EXCEPT ![posts[p].at] = @ \cup {posts[p].cid}]
  /\ CosignerOnly /\ UNCHANGED <<relaySigner, everSigner>>

ReadOwnerFails(p) ==
  /\ posts[p].pc = "asked"
  /\ posts[p].cid \notin cosignerCache[posts[p].at]
  /\ posts' = [posts EXCEPT ![p].pc = "owned", ![p].owner = ZeroAddress]
  /\ CosignerOnly /\ UNCHANGED <<cosignerCache, relaySigner, everSigner>>

SignerOf(adv) == IF adv \in Advertiser THEN relaySigner[adv] ELSE ZeroAddress

MineUnlessKnown(owner, signer, wallet) ==  \* mutant: an unknown owner passes
  \/ owner = ZeroAddress
  \/ wallet = IF signer # ZeroAddress THEN signer ELSE owner

Mine(owner, signer, wallet) ==
  wallet = IF signer # ZeroAddress THEN signer ELSE owner

Replied(p, signer) ==
  posts' = [posts EXCEPT
              ![p].pc = "replied",
              ![p].advertiserSig =
                IF Mine(posts[p].owner, signer, KeyOf[posts[p].at])
                THEN KeyOf[posts[p].at] ELSE NoKey]

ReadSigner(p) ==
  /\ posts[p].pc = "owned"
  /\ \E signer \in {SignerOf(posts[p].owner), ZeroAddress} : Replied(p, signer)
  /\ CosignerOnly /\ UNCHANGED <<cosignerCache, relaySigner, everSigner>>

Decline(p) ==
  /\ posts[p].pc \in {"asked", "owned"}
  /\ posts' = Moved(p, "replied")
  /\ CosignerOnly /\ UNCHANGED <<cosignerCache, relaySigner, everSigner>>

CosignerRestarts(s) ==
  /\ cosignerCache' = [cosignerCache EXCEPT ![s] = {}]
  /\ posts' = [p \in Post |->
                 IF posts[p].at = s /\ posts[p].pc \in {"asked", "owned"}
                 THEN [posts[p] EXCEPT !.pc = "refused"] ELSE posts[p]]
  /\ CosignerOnly /\ UNCHANGED <<relaySigner, everSigner>>

SetRelaySigner(a, signer) ==
  /\ relaySigner' = [relaySigner EXCEPT ![a] = signer]
  /\ everSigner' = [everSigner EXCEPT ![a] = @ \cup ({signer} \ {ZeroAddress})]
  /\ CosignerOnly /\ UNCHANGED <<posts, cosignerCache>>

Cosigning(p) ==
  \/ \E cid \in Cid : \/ CosignPosted(p, cid)
                      \/ CosignAlone(p, cid)
                      \/ CosignAsking(p, cid)
                      \/ CosignMissing(p, cid)
  \/ LookUpEnds(p) \/ LookUpFails(p) \/ Receive(p) \/ Disconnect(p)
  \/ ReadOwner(p) \/ ReadOwnerFails(p) \/ ReadSigner(p) \/ Decline(p)

RoutingNext ==
  \/ \E p \in Post : Cosigning(p)
  \/ RelayRestarts
  \/ \E s \in Service : CosignerRestarts(s)
  \/ \E a \in Advertiser, signer \in (Address \ Advertiser) \cup {ZeroAddress} :
       SetRelaySigner(a, signer)

-----------------------------------------------------------------------------
(* Properties                                                              *)

PostType ==
  [pc : {"notPosted", "lookup", "asked", "owned", "replied", "queued",
         "refused", "lost"},
   cid : Cid \cup {ZeroAddress}, at : Service \cup {NoService},
   owner : Advertiser \cup {ZeroAddress},
   advertiserSig : Address \cup {NoKey, Poster}]

RoutingTypeOK ==
  /\ config \in Configurations
  /\ DOMAIN advCache \subseteq Cid
  /\ \A c \in DOMAIN advCache : advCache[c] \in Advertiser \cup {ZeroAddress}
  /\ posts \in [Post -> PostType]
  /\ cosignerCache \in [Service -> SUBSET Cid]
  /\ relaySigner \in [Advertiser -> Address \cup {ZeroAddress}]
  /\ everSigner \in [Advertiser -> SUBSET Address]
  /\ failed \subseteq Cid

(***************************************************************************)
(* A batch is sent to the co-signer of its own campaign's advertiser when  *)
(* the table names one: whatever look-ups of other campaigns failed and    *)
(* however posts interleave at the cache.  A failed look-up is the only    *)
(* exception, and lasts until the relay restarts (claims.mjs:326-328).     *)
(***************************************************************************)
RoutedHome ==
  \A p \in Post :
    LET owner == Owner[posts[p].cid] IN
    /\ posts[p].pc \in AtCosigner
    /\ posts[p].cid \notin failed
    /\ owner \in DOMAIN config.table
    => posts[p].at = config.table[owner]

(***************************************************************************)
(* Whose advertiser signature a queued batch may carry: what the poster    *)
(* brought; the campaign's advertiser's own or that of a relay signer it   *)
(* has named, whichever co-signer was asked, whichever reads failed there  *)
(* and however the signer changed between them; or the relay's own key for *)
(* both sides, on a relay that is not exposed or was started with the      *)
(* override.  A relay with a key and a co-signer configured is left to     *)
(* OwnKeyNeedsOverride below.                                              *)
(***************************************************************************)
SelfSigned(p) ==
  posts[p].pc = "queued" /\ posts[p].advertiserSig = config.advertiserWallet

MaySelfSign == ~config.exposed \/ config.allowInsecureSelfCosign

KeyAndCosigner == config.advertiserWallet # NoKey /\ HasCosigner(config)

AdvertiserSigned ==
  \A p \in Post :
    LET owner == Owner[posts[p].cid] IN
    posts[p].pc = "queued" /\ ~KeyAndCosigner =>
      \/ posts[p].advertiserSig = Poster
      \/ posts[p].advertiserSig \in {owner} \cup everSigner[owner]
      \/ SelfSigned(p) /\ MaySelfSign

-----------------------------------------------------------------------------
(* What the documentation says of the independence of the two signatures   *)

(***************************************************************************)
(* RELAY-TOOLKIT-SCOPE.md:90-96 lets an exposed relay sign both            *)
(* sides only with ALLOW_INSECURE_SELF_COSIGN=1; config.mjs:113-116 reads  *)
(* a configured co-signer as one that signs.  A key hides it               *)
(* (claims.mjs:141).                                                       *)
(***************************************************************************)
OwnKeyNeedsOverride == \A p \in Post : SelfSigned(p) => MaySelfSign
=============================================================================
