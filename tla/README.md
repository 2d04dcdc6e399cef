# A TLA+ model of DATUM Labs

DATUM Labs is a set of small Node.js services around the DATUM ad exchange's
contracts: a **relay** that co-signs claim batches and pays the gas to settle them,
an **event indexer**, an **advertiser co-signer**, a **publisher** (a URL shortener),
and scripts that monitor and fund the fleet. This directory models the parts whose
logic is stateful and concurrent, checks them with TLC on small instances, and proves
nearly all of their safety properties with TLAPS for every value of the constants.

Run from this directory:

    tlc -workers 2 -config submitter_safety.cfg MCClaimSubmitter   # a TLC run
    tlapm ClaimSubmitterProofs.tla                                  # the proofs of a module

`PROJECT.json` maps every definition to the source lines it stands for, and lists the
runs, the hazards of the code, the theorems, and for each checked property a *mutant*:
a plausible bug that makes the run fail. Mutants stand in the modules just before the
definition they are a bug of, marked `\* mutant`; no action uses them.

## 1. Inventory

All services are single-threaded JavaScript: what runs between two `await`s is atomic,
and everything else interleaves there. Nothing but the indexer's SQLite file, the
shortener's SQLite file and the relay's policy file survives a restart.

| Component | Source | State | Operations |
|---|---|---|---|
| Settlement submitter | `relay/src/claims.mjs` 165-310 | `pending`, `_inflight`, `_nextNonce`, `_pumping`, `_reconciling` | `_pump`, `_syncNonce`, `_handleReject`, `_reconcile`, 1 s timer |
| Claim intake, approval | `relay/src/claims.mjs` 55-165, `admin.mjs` | `pending`, `pendingApproval`, `_nextId` | `enqueue`, `_cosign`, `approve`, `reject` |
| Co-signer routing | `relay/src/claims.mjs` 134-152, 321-388, `config.mjs` | advertiser cache, endpoint table | `_cosign`, `cosignerFor`, `fetchAdvertiserSig`, `assertConfig` |
| Click batcher | `relay/src/clicks.mjs`, `confirm.mjs` | queue, timer | `enqueue`, `_maybeFlush` |
| Withdrawals | `relay/src/withdraw.mjs` | none | `submitWithdraw`: preflight, one transaction per request |
| Rate limiter | `relay/src/ratelimit.mjs` | windows per IP and a global one | `rateLimit`, `startRateLimitGc` |
| Operator policy | `relay/src/policy.mjs`, `admin.mjs` | lists, modes, a JSON file | edits, `setRaw`, `persist`, `loadPolicy`, `acceptClaim` |
| HTTP, auth, signing | `relay/src/http.mjs`, `auth.mjs`, `cosign.mjs` | none | routing, HMAC, EIP-712 |
| Advertiser co-signer | `advertiser-cosigner/src` | advertiser cache | `POST /cosign`: two contract reads, its gates, a signature |
| Indexer | `indexer/src/index.js`, `chain.js`, `indexer.js`, `db.js` | SQLite: events, campaigns, blocks, cursor | `run`: backfill, tail |
| Indexer metrics, API | `indexer/src/metrics.js`, `serve.js` | the report being computed | eight reports, of one to nine SELECTs each |
| Fleet monitor | `relay/scripts/monitor.mjs` | active issues, last error counts, stall count | `cycle` on a timer, `reconcileIssues` |
| Top-up bot | `relay/scripts/topup.mjs` | none between cycles | `cycle` |
| Shortener | `publisher-shortener/src` | SQLite: links | synchronous handlers |
| Drivers | `relay/scripts/*` | per run | load, scenarios, claim injection |

**Interactions.** A publisher's page posts claim batches to the relay (`POST /claim`).
Intake validates them, has the advertiser's co-signer sign (an HTTP call with no
timeout), or holds them for the operator. Signed batches go to `pending`; the submitter
groups them, estimates gas, takes a *locally counted* nonce, sends without waiting for
the receipt and lets the reconciler find out what became of it. Clicks and
withdrawals send from the *same wallet* with automatic nonces. The chain emits the
events the indexer follows. The console polls lists and posts decisions by id.

**What is hard.** The submitter's pump and reconciler interleave with each other, with
arrivals and with other senders of the wallet; the node can lose a transaction, or the
reply to one; receipts can be unreadable (a bug of the Paseo node the code works
around); a batch can go bad between its estimate and its block. In intake, state is
looked up before an `await` and used after it, and the operator's list is stale. In the
indexer, an RPC call can fail in the middle of a chunk and the process can die between
two writes; the metrics server reads its tables meanwhile. `PROJECT.json` lists these as
hazards with their lines, the ones no property covers with the reason.

**What makes each component correct.**

- Submitter: nonces are never shared or skipped; a batch is in one place until it is
  reported on, and is reported on in the end; a stream's batches keep their order;
  nothing is sent twice or counted confirmed without having been mined.
- Intake: a held batch is unsigned; an accepted one does not vanish; a decision reaches
  the batch it was made about; nothing is queued twice.
- Indexer: no event at or before the cursor is missing; projections depend neither on
  how ranges were split nor on how often a chunk was stored; it catches up.
- Metrics: the tables conserve value, and an answer accounts for what was stored when it
  was asked for, whatever the indexer went through and commits meanwhile.
- Clicks: no click is lost silently. Limiter: a refused post costs nobody anything.
- Policy: what a good edit decided is what a restarted relay decides.
- Routing and co-signer: a batch goes to its own campaign's advertiser and carries a
  signature that advertiser stands for.
- Monitor: alerts and active issues are in step, and in the end true. Top-up: the
  reserve is kept, no target is topped up twice or left empty.

## 2. Modules

```
 WalletAccount       the wallet's mined and pooled transactions (external)
   |EXTENDS        \EXTENDS
   |                SharedWallet --- MCSharedWallet (TLC)
 SettlementChain     the settlement contract, other senders, faults (external)
   |EXTENDS
 ClaimSubmitter  --- implements ---> BatchLifecycle
   \_ MCClaimSubmitter (TLC)

 ClaimIntake ------- MCClaimIntake (TLC)
 LogIndexer
   |EXTENDS
 MarketMetrics ----- MCLogIndexer (TLC)
   |EXTENDS            |EXTENDS
 MetricsServer ----- MCMetricsServer (TLC)

 RateLimiter, RelayPolicy, CosignRouting --- RelayFront --- MCRelayFront (TLC)
 FleetMonitor, TopUp (EXTENDS WalletAccount) --- Fleet --- MCFleet (TLC)
```

`SequencePositions` (positions of an element, what is left of a queue) is used by
`ClaimSubmitter`, `ClaimIntake` and `SharedWallet`. The proof modules, each of which
extends the module it is about:

```
 CollectionProofs           lemmas on sequences, sums, folds and finite sets
   |- ClaimSubmitterProofs  ClaimIntakeProofs  SharedWalletProofs
   |- RelayFrontProofs      FleetProofs
   |- LogIndexerProofs ---- MarketProofs (EXTENDS MetricsServer as well)
```

Some definitions are written for the provers, without recursion, and compared with the
plain form on the instances TLC runs: `IsSelection` with `SelectSeq` (`MCClaimIntake`),
`LogsIn`, which is a stretch of positions, with a selection of the chain's logs by block
(`MCLogIndexer`).

### WalletAccount and SettlementChain

What the relay's senders rely on of their node: a mempool (`pool`, nonce -> payload) and
the mined transactions (nonce `n` is `mined[n + 1]`). A transaction with a mined nonce is
refused; one with a pooled nonce is a replacement the node may take or refuse.
`SettlementChain` adds the contract of the settlements with `lastNonce` per stream. A group with an expired batch reverts as a whole; a batch
not anchored to `lastNonce + 1` is skipped silently (claims.mjs:81-82). `Evict` drops a
pooled transaction, `Expire` is a passed deadline. The contract and the node are external.
The wallet's other senders, clicks and withdrawals, are code of the relay: here they are
what the account sees of them. Each reads a nonce (`ForeignRead`) and sends later
(`ForeignSend`), or gives up (`ForeignFails`), so a nonce can be stale when it is used and
the transaction can replace a pooled settlement; `displaced` remembers whose.
There are no reorganisations.

### ClaimSubmitter

`pump` and `rec` are the running calls of `_pump` and `_reconcile` (each single-flight
in the code), with the RPC call each is waiting for as `pc`:

| Action | Code |
|---|---|
| `Push` | last lines of `enqueue` / `approve`: append, call the pump |
| `SyncNonce`, `SyncFails` | `_syncNonce` |
| `EstimatePasses`, `EstimateReverts`, `EstimateFails` | `estimateGas` returning or throwing, `_handleReject` |
| `SendAccepted`, `SendRefused`, `SendFails`, `SendReplyLost` | the send and its `catch` |
| `ReadLatest`, `ReadLatestFails` | the account nonce at the start of `_reconcile` |
| `ReceiptFound`, `NonceAdvanced`, `StuckTooOften`, `StillYoung`, `Resubmit` | the loop body, by branch |
| `ResendAccepted`, `ResendRefused`, `ResendFails`, `ResendReplyLost` | the resubmission and its `catch` |
| `Age`, `Tick`, `Crash` | `SETTLE_STUCK_MS`, the timer of `start()`, the process |

`await _syncNonce()` when no sync is due yields only to microtasks, of which none
touches this state, so it is not a step of its own. JavaScript's `null` nonce is -1,
which compares as the code's null checks decide. `nonce-advanced` resolution
(claims.mjs:272-279) reads `latest` once before the loop; so does `rec`. The
reconciler's loop runs over a snapshot of the map (`todo`).

`outcome`, `arrival` and `unacked` are history: what was reported of a batch, the order
of arrival, and whose send's reply was lost.

### BatchLifecycle

The abstract promise: a batch is accepted, waits, is submitted within a window of
`CLAIM_BATCH_SIZE * MAX_INFLIGHT`, and is closed; it never goes back.
`LifecycleImplemented` maps a batch's place and outcome to its stage: a batch being
sent is still *waiting*, so that a failed send is a stutter.

### SharedWallet

The other two senders, `ClickBatch` and `submitWithdraw`, in full, with the settlements
as one action (`Settle`) that uses any nonce up to the next free one, since the
submitter counts by itself. `drain` is the running `_maybeFlush`: the rest of its batch
and the RPC call it waits for. ethers reads the nonce, estimates and sends in three
calls (`ReadNonce`, `Estimate`, `SendTaken` and its failures), and a withdrawal in two
(its preflight was the estimate); in between the others do the same. `confirmTx` is
modelled by its outcomes: a receipt, an advanced nonce (the receipt can be unreadable), a
timeout. The registry knows sessions (E90) and can come to refuse a click for another
reason (`Turn`), as when its campaign is paused. The click ABI declares no errors, so
whether the message of a failed estimate shows E90 is not the relay's to say: a duplicate
leaves or is queued again (`Estimate`). `click`, `displaced` and `unacked` are
history. Time is not modelled: the front click of the queue is old at some tick.

### ClaimIntake

A `POST /claim` and an `approve` that need co-signing are two steps each, with
everything else in between. Validation is one nondeterministic refusal. `Restart`
empties the memory; the operator's page (`listed`) stays open. The pump is reduced to
what it does to `pending` (`PumpTakes`, `PumpReturns`, `PumpSends`). `MAX_QUEUE` is
tested before the `await`, as in the code, so it is a soft limit, and no property states
it as a hard one.

### LogIndexer

One loop: `HeadRead` (also `resolveStart`), `LogsArrive` / `LogsFail` (the recursion of
`getLogsWithRetry` as a stack of ranges), `StampsArrive` / `StampsFail` (slices of
timestamps), `Store` (`processLogs`, one transaction), `Mark` (the cursor, another
transaction). `Crash` may happen between any two, and inside a slice of timestamps,
whose rows are single transactions. Logs are positions of a constant `Chain`; typed
event tables have the key and the transaction of `raw_events` and are represented by
it. An error during the backfill ends the process, one in the tail is retried.

### MarketMetrics and MetricsServer

`MarketMetrics` has the tables as functions of `raw`, `campaigns` and `stamps`; `Selected`,
what each SELECT of `metrics.js` finds in them; `Selects`, the SELECTs of each report in the
code's order; and each report as a function of what they found. A table keyed by the log
has a row per stored log; `PublisherRows` keeps the first registration, as `INSERT OR
IGNORE` does. What the contracts promise of the logs (a settlement and its credit in one
block's logs, payments out of the vault only of what was credited, a campaign created
before it is settled for) is `MarketAssumption`. DOT figures are floored to thousandths
(`MilliDot`), which makes the histogram's bucket "<0.001" unreachable: the rates it is meant
for are shown as "0".

`MetricsServer` is the process that answers. A request runs its SELECTs one by one
(`Request`, `Select`); there is no transaction around them and the file is in WAL mode, so
the indexer, whose every step is a step of this module too, commits chunks and timestamps
between any two. `opened` remembers what was stored at the request.

### RateLimiter, RelayPolicy, CosignRouting, and RelayFront

What a post meets before the queues. The three parts share no state and never call each
other, and every one of their handlers is a step (or a sequence of steps with awaits)
that leaves the others alone. Their product would only multiply the states, so
`RelayFront` is their *sum*: `part`, chosen at the start, is the one that moves.

- `RateLimiter`: `rateLimit` is one step per outcome, `Collect` the collector, `Tick` the
  clock. A bucket keeps the ticks left instead of the reset's instant. `recent` counts
  what was let through, by age; it is what the properties are measured with.
- `RelayPolicy`: an edit changes the memory, then writes the file (`Persisted`), and the
  write may fail before or after it emptied the file, or the process may die in it.
  `SetRaw` keeps the order of the assignments, so a bad rate leaves a mixture. `Loaded`
  starts from the defaults when the file is missing or torn, and also from a half-assigned
  document. (The compose file mounts the policy read-only, docker-compose.yml:45 and 52:
  there every edit takes effect in memory and is answered with an error.)
- `CosignRouting`: `_cosign` up to its first await is one action per branch;
  `LookUpEnds`/`LookUpFails`, `ReadOwner`, `ReadSigner`, `Receive`, `Disconnect` are the
  awaits. Both caches, restarts of both sides and changes of the chain's relay signer
  interleave. The configuration is any of `Configurations` the gate lets start. A local
  advertiser key hides a configured co-signer (claims.mjs:141 tests the key first, the
  gate calls the relay independent): finding 4.

### FleetMonitor, TopUp, and Fleet

Two daemons, again a sum (`daemon`).

- `FleetMonitor`: up to `MaxOverlap` cycles, each at one of its awaits. `Saw` is the return
  of a probe; `Fire` and `Resolve` go from one alert to the next. The first loop tests each
  key once and passes over an active one for good, whatever another cycle resolves
  meanwhile; the second runs over a copy of the keys. `watched` says what is watched and which of it changes (`unsteady`),
  which keeps the fleet small without fixing what breaks. A service that is not ready
  answers 503, which `getJson` throws at, so the `unhealthy` issues cannot be raised.
- `TopUp`: one loop. `masterWei` is the balance read at the cycle's start, less what the
  cycle counts as spent. `stray` are pooled transactions no cycle knows of. Receipts may
  be unreadable (`ConfirmNonce`), mining late, reverting or forgotten.

## 3. Runs

| Run | Instance | What it shows |
|---|---|---|
| `submitter_safety` | 3 batches (two of one stream), groups of 2, 2 in flight, 2 retries; any 2 troubles out of a fault, a crash, a dropped, a foreign transaction, a passed deadline | 9 invariants, below |
| `submitter_live` | 2 batches, 1 in flight, 1 retry, one of each trouble but a deadline, together | every batch is reported on; the life cycle is implemented |
| `submitter_gap` | 3 batches, one eviction | finding 1 |
| `intake` | 3 posts (one with the advertiser's signature), 2 operator calls at once, one restart | 5 invariants |
| `intake_reject` | the same, no restart | finding 2 |
| `wallet` | 3 clicks (two of one session, one that can be refused), batches of 2, a withdrawal, one trouble: a settlement, a dropped transaction, a failing call, a lost reply, a refusal, a crash | 5 invariants and that clicks leave |
| `indexer` | 22 logs in 6 blocks (3 settlements, of two publishers and users, on two days), chunks of 3, splits of depth 2, 2 failing calls, 1 null block, 1 crash; `START_BLOCK` 1 or `auto` | 6 invariants, the conservation of value among them, and catching up |
| `metrics` | the same logs from head 5 on, timestamps of 3 blocks at a time, 1 null block, 1 crash; every report, at any time, again and again | every answer adds up |
| `front` | 2 clients and loopback, windows of 3 ticks, 2 posts each and 3 together; 1 publisher, 2 campaigns, 2 rates, every document; 2 batches, 2 campaigns of 2 advertisers, 2 co-signers, 16 configurations of which the gate refuses one | 5 invariants |
| `front_burst`, `front_selfsign` | the same | findings 3 and 4 |
| `fleet` | 2 overlapping cycles over a relay, a co-signer, or an account with the chain, stalls after 2 probes; 2 targets, a master for one top-up or two, 4 troubles | alerts and issues, the reserve, and that both daemons do their job in the end |

The properties, by what could go wrong:

- `NonceDiscipline`, `NoNonceGap`: the nonce taken before the send and given back after
  a failed one is never one that is tracked, and the relay leaves no gap by itself.
- `InflightBound`: the budget holds though it is tested two awaits before it is used.
- `EstimatedGroupIsNext`, `OneStage`: the group is copied before an await and removed by
  *length* after it; nothing is lost, doubled or silently dropped in between.
- `ArrivalOrderKept`: a batch that never failed an estimate is not overtaken. (One that
  did fail goes to the end of the queue, behind its successors: claims.mjs:251.)
- `SubmittedOnce`: two nonces for a batch only after a lost reply. `ConfirmedWasMined`:
  counting by the account nonce alone is right unless the batch's own transaction was dropped
  or replaced *and* another sender of the wallet has sent.
- `EveryBatchReported`: see the fairness below. Its exception `UntrackedBehindGap` is a
  real behaviour: an untracked transaction behind a gap occupies the nonce the pump
  tries for ever.
- `HeldUnsigned`, `QueuedOnce`, `AcceptedAccounted`, `DecidedAsShown`: the intake's
  promises with overlapping calls. `QueuedOnce` excepts two approve calls for one batch that
  overlap: both queue it. `DecidedAsShown` holds only without a restart, since ids start
  again at 1.
- `ClickInOnePlace`: `splice`, the loop and `push` neither lose nor double a click.
  `LeavesRecorded`: what leaves the batcher is on the registry, unless its transaction
  was dropped or replaced, reverted with an unreadable receipt, or is still pooled: `confirmTx`
  takes an advanced nonce and a timeout for success. `ResentAfterFailure`: a click is in
  two transactions only after a lost reply or a revert. `AnswerMatchesChain`: the answer
  to a withdrawal says whether it was sent. `ClicksLeave`: refused clicks and
  duplicates, which are queued again without limit, do not keep others from leaving.
- `ChunkRead`, `IndexedExactly`, `CampaignsExact`, `StampedUnlessNull`, `AllIndexed`:
  the indexer's. `ValueConserved`: in the tables, what is credited is what was
  settled, and the vault is solvent once its credits were within reach, whatever of three
  contracts' logs was stored when the process died.
- `AnswersAddUp`: every answer counts what was stored when it was asked for, and nothing
  that is not stored by the time it is answered. Daily figures are short of that by null
  blocks only; rankings, histogram and epochs count each settlement they read once; a ranked
  campaign lacks its row only if it is older than the indexer's start, *because* the campaigns
  are read after the settlements; the conservation report may miss settlements whose credits
  it saw, never the reverse, and is right unless a chunk is stored while it is read.
- `RefusedWhenSpent`: a refusal is backed by a whole limit of posts that did
  pass; refused posts do not count.
- `DecisionsSurvive`: after an edit that was not answered with an error, a restart
  changes no decision but for the environment's campaigns. Failed edits are the exception,
  and the next good edit repairs them.
- `RoutedHome`: a cache shared by concurrent posts never sends a batch to another
  advertiser's co-signer; a failed look-up is the only way to miss the table.
  `AdvertiserSigned`: who may have signed a queued batch, through failing reads and
  rotated signers, on a relay that has not both a key of its own and a co-signer. A failed
  signer read makes the co-signer check against the advertiser's own key, which is still the
  advertiser's.
- `AlertsMatchIssues`: FIRING and RESOLVED alternate unless cycles overlap, and even then the
  last alert of an issue says whether it is active. `IssuesFollow`: what stays broken is in
  the end reported for good, what stays repaired no more, however reads fail in between.
- `PaidAsPlanned`: no payment takes the master below the reserve by more than the fees of
  one cycle, which the bot does not count, and none lifts a target above `--to` (rounded),
  unless a transaction of an earlier cycle is still pooled: a cycle does not see it in the
  balances and pays again. `KeptFunded`: no target stays
  below `--min` for ever, unless the master is again and again too low for some target.

### Findings

1. `RebaseHealsGap` (claims.mjs:184): the re-baselined nonce never moves down, so a
   dropped transaction's gap is not healed, against the comment at claims.mjs:179-180.
2. `RejectedNeverSigned` (claims.mjs:161): a reject during an approve's await is
   acknowledged and the batch is queued all the same; cf. claims.mjs:113-114.
3. `HardCap` (ratelimit.mjs:33): fixed windows, up to twice the limit around a window's end;
   ratelimit.mjs:1-4 says sliding window and hard cap, config.mjs:67-69 sliding window.
   `BurstBounded`, twice the limit, is what holds, and is proved.
4. `OwnKeyNeedsOverride` (claims.mjs:141): an exposed relay with a key and a co-signer starts
   without the override and signs both sides; RELAY-TOOLKIT-SCOPE.md:90-96 says only with it.

In other places the code and a comment differ, and a property of a passing run states what
holds, with the difference as its exception:

- `ConfirmedWasMined`: a batch whose transaction was dropped or replaced, by a click that read
  its nonce before the settlement was sent, is counted as confirmed once the nonce has
  advanced; claims.mjs:256-257 and 276 say "mined". A batch the contract skipped counts too,
  though `scripts/lib/loadrun.mjs:72` takes the figure for settlements.
- An estimate does not keep a batch from expiring before its block; claims.mjs:14-15 says a
  reverting claim never consumes a nonce. No property says so.
- `ClicksLeave`: clicks.mjs:74 calls a duplicate terminal, but tests the error's text for E90.
  The click ABI declares no errors, and abis.mjs:14-16 says that undeclared ones are opaque: a
  duplicate may be queued again for ever. What the node's message shows is outside this
  repository.
- `AllIndexed`: with a `START_BLOCK` above the head the tail never starts (index.js:54);
  index.js:1-2 says it tails the head forever.
- `AnswersAddUp`: a chunk committed between the SELECTs of the conservation report makes it say
  that credits do not match settlements; metrics.js:156-159 calls that an invariant.
- `PaidAsPlanned`: fees, and a top-up whose confirmation timed out and that is paid again, take
  the master below the reserve; topup.mjs:5-6 and 34 say that nothing does.

### Bounds, and why they are enough

In `metrics`, the database goes from empty through two chunks, with a null block, a
crash between a chunk and its cursor and a new start, while every report is asked for at
every moment: a straddled report needs one commit between two SELECTs, and gets up to all of
them. No call fails there (`MaxFaults` 0): failing calls only make the tables come later,
which `indexer` checks. In `submitter_live` two batches never fill the window of the life
cycle; that it binds is in `submitter_safety` (`InflightBound`) and in the theorem
`ImplementsLifecycle`.

In `front`, a window of 3 ticks is long enough for a burst to straddle its end; two posts
can look up the same campaign at once, and two campaigns tell a crossed answer from a
right one. In `fleet`, two overlapping cycles are what it takes for one to resolve what
the other has just raised; 4 troubles let a timeout, a late block, a spending target and a
fresh faucet come together. Errors and stall counts saturate.

Groups of 2 with three batches give groups of one and two and a partial last one; two
in flight give a full and a part-full window; two batches of one stream and one of
another tell order within a stream from order at large. The bounds `MaxFaults`,
`MaxEvictions`, `MaxForeign` and `MaxCrashes` count what goes wrong; the constraint
`Bounded` of the safety run allows any two of them in one behaviour, lets one
transaction at a time be old enough for resubmission (and be resubmitted twice with one of
them, once with two), and fixes the order of arrival (`b1`, `b2`, `b3`: only `b1` and `b2` differ in kind from `b3`, and arrival is
interleaved with everything anyway). The theorems do not depend on these bounds. In
`wallet`, three clicks leave one behind a full batch, and let failed ones come back behind
it; a replaced nonce, a revert and a duplicate need one trouble or none. The
indexer's chain has a campaign created and activated in one block, an activation
repeated, an unknown event, an empty block, and a chunk border inside; the retry depth
of 2 splits a chunk of 3 down to single blocks. `Consoles` symmetry is used in the intake
runs only, where no liveness is checked. No run uses a constraint together with
liveness.

### Fairness, and why the code justifies it

- `ClaimSubmitter!Fairness`: `PumpStep` and `RecStep` are weakly fair because every RPC
  call returns or throws (ethers has its own timeout); `Tick` because `start()` sets an
  interval; `Age` because time passes; `Mine` because blocks are produced. Nothing makes
  a batch arrive, a call fail, a deadline pass or the process die, and faults, evictions
  and foreign transactions are finite.
- `LogIndexer`: `WF_vars(Run)`: calls return, `sleep` ends, and a supervisor restarts a
  process that exits (`restart: unless-stopped` in `deploy/docker`, `Restart=on-failure`
  in the systemd units). Failing calls and crashes are finite.
- `SharedWallet`: `WF_vars(Tick)` for the one-second timer and the passing of time,
  `WF_vars(DrainStep)` because calls return or throw and `confirmTx` has a deadline of its
  own. Blocks need not be mined: a timeout lets a click go. `Rest` stands for an idle
  process, which never ends.
- `Fleet`: cycles are started by an interval and every probe and alert has a timeout, so
  `StartCycle` and `CycleStep` are weakly fair per cycle; the bot is restarted by its
  unit, its calls return or time out (`BotStep`), and a transaction that can be mined is
  (`MinePaid`). Nothing in the fleet need break or get repaired.
- `RelayFront` has no fairness: a fetch need not end and an operator need not act.
- `ClaimIntake` has no fairness: the co-signer's fetch has no timeout, so no post need
  ever be answered.

## 4. Proofs

`ClaimSubmitterProofs` (from `ChainAssumption` and `SubmitterAssumption`) proves, for
any batches, sizes and numbers of faults:

- `TypeCorrect`: type correctness, one lemma per subsystem (`ChainTypeStep`,
  `QueueTypeStep`, `FlightTypeStep`, ...), each split by action. It carries two facts
  the others need: the reconciler's `todo` only names tracked transactions, and the
  nonce being sent is `nextNonce - 1`.
- `NoncesDisciplined`: inductive relative to `TypeOK`. A returned nonce is `nextNonce - 1`,
  so it stays above every tracked one.
- `InflightBounded`: not inductive by itself, since the send that completes adds an
  entry. `Budget` adds that while the pump estimates or sends there is room for
  one more: only the pump adds entries, and it is single-flight.
- `EstimatedGroupStaysNext`: while an estimate runs the queue only grows at the end.
- `NoGapOfItsOwn`: as long as nothing was evicted, every nonce handed out is mined or
  pooled. `CoveredKept` shows that this is stable; the pending count cannot pass an
  uncovered nonce (`SyncNonce`), and an accepted send covers the one it was given.

Its second half follows a batch's place. `Moves` splits the steps of the submitter into
those that move no batch and eight kinds that do.

- `EveryBatchInOnePlace`: `OneStage`, by counting (`Staged`): how often a batch stands in
  the queue, in the group being sent and in the tracked transactions, against its outcome.
- `ImplementsLifecycle`: `Spec => LifecycleImplemented`, step by step. A group leaves the
  queue in one abstract step (`LifecycleSubmits`), which needs that what is in flight fits
  the window (`FlightsFit`) and that nobody is in two places.
- `BatchesSubmittedOnce`: `SentAsTracked` says under which nonces the chain carries a
  batch whose replies all arrived: none before it is sent, its transaction's afterwards.
- `ConfirmationsAreMined`: `MinedAsTracked`. A tracked transaction holds its nonce, mined or
  pooled, or its batches are `displaced` (dropped or replaced), and then the nonce is free
  unless another sender has sent.
- `ArrivalOrderStays`: `ArrivalOrderKept`. The property compares places; the invariant
  `Ordered` says instead what a later batch may never do (`InOrder`): stand before an
  earlier one in the `Line` (the group being sent, then the queue), be in flight while
  the earlier one is in the line, or be under a lower nonce. An estimate that passes and a
  failed send only move the border within the line, a send moves its front under a nonce above
  all others (`NonceDiscipline`), and what `_handleReject` queues again at the end has
  failed an estimate (`PrecedesConcat` cuts the line where a step does).

`ClaimIntakeProofs` (from `IntakeAssumption`): all five properties of the run, as parts of
one inductive invariant, `IntakeInv`.

- It adds `Placed` (where a batch can be while its POST is in a given state), `HeldOnce`
  (one id per held batch), `CallsKnow` (an approve call that has been awaiting the
  co-signer still means the entry it looked up: its id is this batch's, or free),
  `OneWayIn` (a batch that no two calls had at once has one way into the queue left, or has
  used it) and `ListedAsHeld` (until the first restart, a list that is old names what is
  held under an id, or an id that is free).
- Theorems: `TypeCorrect`, `HeldStaysUnsigned`, `QueuedAtMostOnce`,
  `AcceptedIsAccounted`, `DecisionsReachWhatWasShown`.

`SharedWalletProofs` (from `WalletAssumption`: clicks, withdrawals and the settlement are
told apart): all five safety properties, with `WalletInv`.

- `ClickStaysInOnePlace` counts a click in the queue and in the batch of the running flush,
  through `splice`, loop and `push`.
- The others need what the chain carries: `PoolAhead`, `MinedRecorded` (the registry knows
  what was mined well), `NotSentYet` (a withdrawal before its send), `ConfirmKnows` (while
  `confirmTx` waits, the transaction is carried under its nonce, or was dropped or
  replaced) and `SentOnce`. `ClicksThatLeaveAreRecorded`, `ResentOnlyAfterFailure` and
  `AnswersMatchTheChain` follow.

`LogIndexerProofs` (from `IndexerAssumption`, for any chain of logs): all safety
properties of the indexer.

- `CursorTellsTheTruth`: `IndexedExactly`. The inductive invariant `CursorInv` follows
  the chunk: it starts right after the cursor (`ChunkPlaced`), each of its blocks is in
  a range already answered or one still to be asked for (`ChunkCovered`; splitting
  keeps it: `HalvesSplit`, `StackSplit`), and when the cursor is to be moved its events
  are stored (`ChunkStored`). `StartPlaced` is needed because a process that dies before
  its first cursor may start elsewhere: never further back than its last start allows.
- `EventsAreStamped`: `StampedUnlessNull`, with `StampInv`: a block of the answers is
  stamped, null, or still missing, and none is missing when the events are stored.
- `SplitsReadAll`: `ChunkRead`, that a chunk's logs are read once each and in order.
  `ChunkChained` says that the ranges answered and those to be asked for follow one
  another and make up the chunk; splitting a range keeps it (`SplitChained`). Logs come in
  block order, so the answer to a range is a stretch of positions (`LogsInStretch`),
  and stretches that follow one another join (`ChainedRead`).
- `CampaignsKept`: `CampaignsExact`. `CampaignsExact` looks at the cursor and is not
  inductive: after a crash the table is ahead of it, and the same chunk is stored again.
  `TableInv` says that there is a number of logs, at least those before the cursor, such
  that the table is what storing them *once* makes of it (`ExactUpTo`). Storing a log that
  was stored before changes nothing, storing the next one adds it (`ExactStep`), and a
  chunk leaves out none (`ExactStretch`). A chunk without logs is not stored at all
  (`EmptyChunk`), and a new start of the sweep only narrows what counts (`ExactFrom`).
- `IndexerTypes`: `TypeOK`; the campaigns table is written by a fold.

`MarketProofs` (from `IndexerAssumption` and `MarketAssumption`, what the contracts promise
of their logs; for any days, buckets, epochs and lengths of rankings):

- `ValueIsConserved`: `ValueConserved`. The contracts promise equal sums per block, and
  coverage of what leaves the vault per prefix of the chain; the tables hold neither one block
  nor a prefix. `WholeBlocks` says that a block's known logs are stored all or not at all,
  so the sums are equal block by block (`SameByBlock`). `StoredInv` says that there is a block
  before which nothing in scope is missing and after which nothing is stored, also between
  a chunk's transaction and the cursor's, and after a crash there (`ReachTo`); what left is then
  part of a prefix of which all credits are stored (`WithdrawalsCovered`).
- `AnswersAccount`: `AnswersAddUp`, for the server running beside the indexer
  (`ServerSpec`), with `ServerInv`. A step of the indexer never takes a row out of a table
  (`TablesInv` and the monotony of each SELECT), so what a SELECT found is part of what it
  would find now (`FoundStored`) and has all that was stored at the request (`OpenedFound`);
  `FoundFits` carries what two SELECTs of one report owe each other: the users found later
  are those of the settlements or more, the credits cover the settlements, the campaigns
  read after the settlements have a row for each that is not older than the sweep.
  A campaign has a row exactly when its creation is stored (`RowsRecorded`): both are written in
  one transaction, whatever order the logs come in (`FoldRows`). Only blocks with logs are
  stamped (`DaysFinite`), so the days are finitely many and can be summed over.
  The reports group the same rows by different keys. Amounts and counts add up by key
  (`DailyTotal`, `DailyNumber`, `HistogramAddsUp`, `RankingSums`). Distinct users and netted
  rows do not: a user of two days counts twice, which bounds the sum from one side only
  (`UsersSubadditive`, `CollapsedSubadditive`, by `SumCovers`). A ranking is cut off and
  ordered by figures that may tie; uncut it holds every key once (`ShowsAll`). What is
  missing from the campaigns table was created before the sweep (`UnlistedIsOlder`).

`RelayFrontProofs` (from `LimiterAssumption`, `PolicyAssumption` and
`RoutingAssumption`, for any limits, campaigns, environments, posts and co-signers).
`FrontInv` is the conjunction of an invariant per part; a step of one part leaves the
others' variables, and so their invariants, alone (`...Stutters`).

- `FrontTypeCorrect`: the types of the three parts.
- `BurstsBounded` and `RefusalsBacked`: `BurstBounded` and `RefusedWhenSpent`, by
  `LimiterInv`. `Measured` says what a bucket knows: an open one has counted exactly what
  was let through since it was opened, and what a whole window's length let through
  exceeds that by no more than the limit, which the bucket before it counted. A tick shifts the
  ages (`SumShifted`), a post adds one (`SumOneMore`); an address without a bucket is
  treated as one whose bucket has expired, so that collecting changes nothing.
- `GoodEditsSurvive`: `DecisionsSurvive`. It compares what a restart would load with what
  the relay decides by, and is not inductive: `PolicyInv` says why they agree. After a
  good edit, file and policy are equal; after a start, the policy is what the
  file loads as. `EnvironmentAddsOnce` (adding the environment's campaigns twice adds them
  once) joins the two.
- `BatchesRoutedHome` and `SignedForTheAdvertiser`: `RoutedHome` and `AdvertiserSigned` (which
  leaves a relay with both a key and a co-signer to finding 4), by `RoutingInv`. The cache holds a campaign's owner unless a look-up of it has failed; a
  post keeps, from one await to the next, whom the co-signer took for the owner
  (`OwnerKnown`) and on whose behalf it signed (`SignatureKnown`). `MineStandsFor` is the
  point of it: the two contract reads may each fail, and the signer may change between
  them, but a key's address is never zero, so a co-signer that knows neither
  owner nor signer signs nothing.

`FleetProofs` (from `MonitorAssumption`: the fleet's lists are finite; and
`TopUpAssumption`: there is a target other than the master, or the bot exits). Again one
invariant per daemon.

- `AlertsInStep`: `AlertsMatchIssues`, with `MonitorInv`. `Apart` is the strengthening: as
  long as no cycles have overlapped, one runs at most and what it has listed to be resolved
  is still active, so no alert is repeated. Afterwards only the agreement of issues and
  last alerts is claimed, and kept by each alert's own step.
- `MasterSpendsAsPlanned`: the action property `PaidAsPlanned`, with `TopUpInv`. What is in
  the pool is stray or what the bot waits for (`Accounted`); the bot's idea of the master's
  balance is off by no more than a fee per target dealt with (`Affordable`), and what it
  sends does not lift its target above `--to` and a unit (`FillsUp`); `Planned` carries both
  from one await to the next, through unreadable receipts and reverts.
- `FleetTypes`: the types of both. `TargetsOK`: what `resolveTargets` keeps, a fold over the
  listed addresses.

`CollectionProofs` holds what these share: how often an element stands in a sequence
that grows, is split or is filtered, and which stands before which; sums over finite sets, also
by key as a `GROUP BY` takes them (`SumByKey`, `CountByKey`) and of figures that overlap
(`SumCovers`); the first few of an order, which are all when there are few (`FewAreAll`);
folds over sequences. The induction theorems of the library take a predicate as a
parameter, which the provers cannot instantiate. Here induction over a finite set is stated with a *set* in place of the
predicate (`SubsetInduction`, `ElementInduction`), which is enough for sums
(`SumUnfolds`, `SumsSplit`) and for folds (`FoldByPosition`: a fold is the last of a
sequence of intermediate results); where an induction runs over positions, the proof takes
the least counterexample (`LeastIn`).

So every invariant and every action property of the passing runs, and the refinement of
`BatchLifecycle`, is also a theorem. Only model-checked are the liveness properties
(`EveryBatchReported`, `ClicksLeave`, `AllIndexed`, `IssuesFollow`, `KeptFunded`): they
need fairness and `ENABLED`, which TLAPS does not prove. The runs that expect a violation
are counterexamples, and TLC's alone.

## 5. Not modelled, and the plan

Not modelled: I/O, formatting and signing (`bulletin`, `telemetry`, `log`, `cosign`, `auth`,
`http`, `status`), whose results the modules choose among; the shortener, a table with
synchronous handlers; the experiment drivers, which run once and keep nothing; the
console's and the metrics' pages. In the parts that are modelled: display metadata of
publishers, the monitor's reminders and `/metrics`, and what becomes of a webhook's post (it
may be lost, or overtake another: `AlertsMatchIssues` ends at the call), `--once` and `--dry`
of the bot, reorganisations of the chain.

Some of what the code does is an exception of a property and no finding, since nothing in
the repository promises otherwise: good batches dropped with a bad one of their group,
batches overtaken after a failed estimate, ids that start again after a restart, overlapping
approves, a failed look-up cached for good, a half-replaced policy saved by the next edit, a
target starved by one the master cannot afford, a stall count that only counts while the
RPC answers. `PROJECT.json` lists them under the hazards with a note.

No safety property is left to be proved. Further work would widen the model: an
indexer that follows reorganisations, if the code comes to, and the relay's HTTP surface.
