----------------------------- MODULE RateLimiter -----------------------------
(***************************************************************************)
(* The rate limiter of the relay's gas-spending posts: rateLimit and the   *)
(* collector of expired buckets, relay/src/ratelimit.mjs.                  *)
(*                                                                         *)
(* Each call is one step (it has no await).  Time is counted in ticks; a   *)
(* bucket keeps the ticks left until its reset instead of that instant, so *)
(* that the state stays finite: `now > reset` is left < 0.                 *)
(***************************************************************************)
EXTENDS Integers, FiniteSets, Functions

CONSTANTS
  Ip,                   \* client addresses, as clientIp reports them
  Loopback,             \* those of the operator's own scripts
  RATE_LIMIT_WINDOW_MS, \* length of a window, in ticks
  RATE_LIMIT_PER_IP,    \* posts of one address per window, 0 for no limit
  RATE_LIMIT_GLOBAL     \* posts of all addresses per window, 0 for no limit

ASSUME LimiterAssumption ==
  /\ IsFiniteSet(Ip)
  /\ Loopback \subseteq Ip
  /\ RATE_LIMIT_WINDOW_MS \in Nat \ {0}
  /\ RATE_LIMIT_PER_IP \in Nat
  /\ RATE_LIMIT_GLOBAL \in Nat

VARIABLES
  ipHits,  \* address -> bucket, for the addresses that have one
  glob,    \* the bucket of all addresses
  recent,  \* history: address -> age in ticks -> posts let through
  answer   \* history: who was refused in this tick, and by which bucket

limiterVars == <<ipHits, glob, recent, answer>>

Ages == 0 .. RATE_LIMIT_WINDOW_MS
Bucket == [count : Nat, left : -1 .. RATE_LIMIT_WINDOW_MS]
NoAnswer == [ip |-> "nobody", scope |-> "none"]

LimiterInit ==
  /\ ipHits = <<>>
  /\ glob = [count |-> 0, left |-> -1]
  /\ recent = [i \in Ip |-> [a \in Ages |-> 0]]
  /\ answer = NoAnswer

-----------------------------------------------------------------------------
(* A post                                                                  *)

Expired(bucket) == bucket.left < 0

Renewed(bucket) ==
  IF Expired(bucket) THEN [count |-> 0, left |-> RATE_LIMIT_WINDOW_MS]
                     ELSE bucket

GlobNow == IF RATE_LIMIT_GLOBAL > 0 THEN Renewed(glob) ELSE glob

BucketOf(i) ==
  Renewed(IF i \in DOMAIN ipHits THEN ipHits[i] ELSE [count |-> 0, left |-> -1])

GlobSpent == RATE_LIMIT_GLOBAL > 0 /\ GlobNow.count >= RATE_LIMIT_GLOBAL
IpSpent(i) == RATE_LIMIT_PER_IP > 0 /\ BucketOf(i).count >= RATE_LIMIT_PER_IP

HitsWith(i, bucket) ==
  IF RATE_LIMIT_PER_IP = 0 THEN ipHits
  ELSE [j \in DOMAIN ipHits \cup {i} |-> IF j = i THEN bucket ELSE ipHits[j]]

Counted(bucket, limit) ==
  IF limit > 0 THEN [bucket EXCEPT !.count = @ + 1] ELSE bucket

Exempted(i) ==
  /\ i \in Loopback
  /\ UNCHANGED limiterVars

RefusedForAll(i) ==
  /\ i \notin Loopback
  /\ GlobSpent
  /\ glob' = GlobNow
  /\ answer' = [ip |-> i, scope |-> "global"]
  /\ UNCHANGED <<ipHits, recent>>

RefusedForIpCounting(i) ==  \* mutant: the global count is taken too early
  /\ i \notin Loopback
  /\ ~GlobSpent
  /\ IpSpent(i)
  /\ glob' = Counted(GlobNow, RATE_LIMIT_GLOBAL)
  /\ ipHits' = HitsWith(i, BucketOf(i))
  /\ answer' = [ip |-> i, scope |-> "ip"]
  /\ UNCHANGED recent

RefusedForIp(i) ==
  /\ i \notin Loopback
  /\ ~GlobSpent
  /\ IpSpent(i)
  /\ glob' = GlobNow
  /\ ipHits' = HitsWith(i, BucketOf(i))
  /\ answer' = [ip |-> i, scope |-> "ip"]
  /\ UNCHANGED recent

LetThrough(i) ==
  /\ i \notin Loopback
  /\ ~GlobSpent
  /\ ~IpSpent(i)
  /\ glob' = Counted(GlobNow, RATE_LIMIT_GLOBAL)
  /\ ipHits' = HitsWith(i, Counted(BucketOf(i), RATE_LIMIT_PER_IP))
  /\ recent' = [recent EXCEPT ![i][0] = @ + 1]
  /\ answer' = NoAnswer

RateLimit(i) ==
  Exempted(i) \/ RefusedForAll(i) \/ RefusedForIp(i) \/ LetThrough(i)

-----------------------------------------------------------------------------
(* Time, and the collector                                                 *)

(***************************************************************************)
(* startRateLimitGc.  Its period is at least a window; it runs here at any *)
(* time, which includes every phase between the two.                       *)
(***************************************************************************)
Stale(i) == i \in DOMAIN ipHits /\ Expired(ipHits[i])

Collect ==
  /\ \E i \in Ip : Stale(i)
  /\ ipHits' = [i \in {j \in DOMAIN ipHits : ~Stale(j)} |-> ipHits[i]]
  /\ UNCHANGED <<glob, recent, answer>>

Aged(bucket) ==
  [bucket EXCEPT !.left = IF Expired(bucket) THEN -1 ELSE @ - 1]

Tick ==
  /\ ipHits' = [i \in DOMAIN ipHits |-> Aged(ipHits[i])]
  /\ glob' = Aged(glob)
  /\ recent' = [i \in Ip |->
                  [a \in Ages |-> IF a = 0 THEN 0 ELSE recent[i][a - 1]]]
  /\ answer' = NoAnswer

LimiterNext == Tick \/ Collect \/ \E i \in Ip : RateLimit(i)

-----------------------------------------------------------------------------
(* Properties                                                              *)

LimiterTypeOK ==
  /\ DOMAIN ipHits \subseteq Ip
  /\ \A i \in DOMAIN ipHits : ipHits[i] \in Bucket
  /\ glob \in Bucket
  /\ recent \in [Ip -> [Ages -> Nat]]
  /\ answer = NoAnswer \/ answer \in [ip : Ip, scope : {"ip", "global"}]

Recent(i) == SumFunction(recent[i])
RecentOfAll == SumFunction([i \in Ip |-> Recent(i)])

(***************************************************************************)
(* "So the relay's gas spend is bounded no matter how many IPs"            *)
(* (ratelimit.mjs:3-4): the posts let through over a window's length are   *)
(* bounded, for an address and for the relay, whatever the collector       *)
(* deletes and whenever buckets expire.  The buckets are fixed windows, so *)
(* the bound is two limits; the one the header promises is HardCap below,  *)
(* which does not hold.                                                    *)
(***************************************************************************)
BurstBounded ==
  /\ RATE_LIMIT_PER_IP > 0 =>
       \A i \in Ip : Recent(i) <= 2 * RATE_LIMIT_PER_IP
  /\ RATE_LIMIT_GLOBAL > 0 => RecentOfAll <= 2 * RATE_LIMIT_GLOBAL

(***************************************************************************)
(* "Counts a hit only when allowed" (ratelimit.mjs:25-26): a post is       *)
(* refused only when a whole limit of posts was really let through within  *)
(* the last window: those of the address for its bucket, those of all      *)
(* addresses for the global one.  Refused posts never use up a limit.      *)
(***************************************************************************)
RefusedWhenSpent ==
  /\ answer.scope = "ip" => Recent(answer.ip) >= RATE_LIMIT_PER_IP
  /\ answer.scope = "global" => RecentOfAll >= RATE_LIMIT_GLOBAL

-----------------------------------------------------------------------------
(* What comments of the repository say of the limiter                      *)

(***************************************************************************)
(* ratelimit.mjs:1-4 ("Sliding-window rate limiter", "hard cap on total    *)
(* accepted writes per window") and config.mjs:67-69 ("Sliding window per  *)
(* client IP"): at whatever moment a stretch of one window's length ends,  *)
(* no more posts than the limit were let through in it.                    *)
(***************************************************************************)
InWindow(i) == SumFunction([a \in 0 .. RATE_LIMIT_WINDOW_MS - 1 |-> recent[i][a]])

HardCap ==
  /\ RATE_LIMIT_PER_IP > 0 => \A i \in Ip : InWindow(i) <= RATE_LIMIT_PER_IP
  /\ RATE_LIMIT_GLOBAL > 0 =>
       SumFunction([i \in Ip |-> InWindow(i)]) <= RATE_LIMIT_GLOBAL
=============================================================================
