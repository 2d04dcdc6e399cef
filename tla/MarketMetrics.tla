--------------------------- MODULE MarketMetrics ---------------------------
(***************************************************************************)
(* The metrics of indexer/src/metrics.js: what the indexer's tables hold,  *)
(* the SELECTs each report runs, and the report as a function of what they *)
(* found.  The server that runs them, beside the indexer, is               *)
(* MetricsServer.                                                          *)
(*                                                                         *)
(* What the tables and the reports hold depends on where the indexer       *)
(* started, on which blocks it has the timestamps of, and on where it      *)
(* died.  Ratios and the names shown with a row are left out; amounts are  *)
(* planck, and a report's DOT are thousandths of a DOT.                    *)
(***************************************************************************)
EXTENDS LogIndexer

CONSTANTS
  User,
  Publisher,
  Detail,        \* what the log at a position says
  TimeOf,        \* the timestamps of the blocks
  DAY,           \* seconds of a day (86400)
  PLANCK,        \* planck of a DOT (10^10)
  TOP,           \* rows of a ranking (20)
  SHOWN_EPOCHS,  \* epochs of the aggregation's answer (30)
  EpochLengths   \* values of epochBlocks asked for (14400)

(***************************************************************************)
(* The events of `KNOWN_EVENTS` that have a table, besides those of a      *)
(* campaign's life, which LogIndexer stores.                               *)
(***************************************************************************)
Withdrawals == {"PublisherWithdrawal", "UserWithdrawal", "ProtocolWithdrawal"}

EventNames ==
  {"ClaimSettled", "ClaimRejected", "ClickRecorded", "PublisherRegistered",
   "SettlementCredited", "SweptToFeeShare", "MintComputed", "DatumMintFailed"}
    \cup Withdrawals

Event ==
  [name : EventNames \cup {"none"}, user : User, publisher : Publisher,
   count : Nat, rate : Nat, toPublisher : Nat, toUser : Nat, fee : Nat, amount : Nat]

(***************************************************************************)
(* The columns that are added up: what a settlement paid, and the amount   *)
(* of a credit, a withdrawal, a sweep or a mint.                           *)
(***************************************************************************)
Revenue == [p \in Position |-> Detail[p].toPublisher]
Paid == [p \in Position |-> Detail[p].toPublisher + Detail[p].toUser + Detail[p].fee]
Impressions == [p \in Position |-> Detail[p].count]
Amount == [p \in Position |-> Detail[p].amount]

Total(column, rows) == SumFunctionOnSet(column, rows)

(***************************************************************************)
(* What the contracts promise of the logs: a settlement is credited to the *)
(* vault in its own transaction, the vault pays out what it was credited,  *)
(* and a campaign is created before anything is settled for it.            *)
(***************************************************************************)
Named(name) == {p \in Position : Detail[p].name = name}

Outgoing == UNION {Named(name) : name \in Withdrawals \cup {"SweptToFeeShare"}}

ASSUME MarketAssumption ==
  /\ Detail \in Seq(Event)
  /\ DOMAIN Detail = Position
  /\ \A p \in Position : Detail[p].name # "none" => Chain[p].kind = "other"
  /\ \A n \in {Chain[p].block : p \in Position} :
       Total(Paid, {p \in Named("ClaimSettled") : Chain[p].block = n})
         = Total(Amount, {p \in Named("SettlementCredited") : Chain[p].block = n})
  /\ \A p \in Position :
       Total(Amount, {q \in Outgoing : q <= p})
         <= Total(Amount, {q \in Named("SettlementCredited") : q <= p})
  /\ \A p \in Named("ClaimSettled") : \E q \in 1 .. p : Creates(q, Chain[p].campaign)
  /\ TimeOf \in [0 .. MaxHead -> Nat]
  /\ {DAY, PLANCK, TOP, SHOWN_EPOCHS} \cup EpochLengths \subseteq Nat \ {0}

-----------------------------------------------------------------------------

(***************************************************************************)
(* The tables.  Those of single events are keyed by the log, so that       *)
(* storing a chunk again adds nothing; a publisher has one row, that of    *)
(* the first registration stored, and so has a campaign.                   *)
(***************************************************************************)
Rows(name) == {p \in raw : Detail[p].name = name}

PublisherRows ==
  {p \in Rows("PublisherRegistered") :
     \A q \in Rows("PublisherRegistered") :
       Detail[q].publisher = Detail[p].publisher => p <= q}

CampaignRows == {c \in Campaign : campaigns[c] # NoRow}

CreatedIn(c) == Chain[CHOOSE p \in Position : Creates(p, c)].block

Users(rows) == {Detail[p].user : p \in rows}
Publishers(rows) == {Detail[p].publisher : p \in rows}
Campaigns(rows) == {Chain[p].campaign : p \in rows}

MilliDot(planck) == (planck * 1000) \div PLANCK

-----------------------------------------------------------------------------

(***************************************************************************)
(* What the SELECTs of metrics.js find in the database each of them runs   *)
(* on.  The daily ones join with the timestamps: a row whose block has     *)
(* none is not found.                                                      *)
(***************************************************************************)
Stamped(rows) == {p \in rows : Chain[p].block \in stamps}

Selected ==
  [settlements      |-> Rows("ClaimSettled"),
   users            |-> Users(Rows("ClaimSettled")),
   publishers       |-> PublisherRows,
   campaigns        |-> CampaignRows,
   active           |-> {c \in CampaignRows : campaigns[c] # NotActivated},
   campaignTable    |-> campaigns,
   rejections       |-> Rows("ClaimRejected"),
   clicks           |-> Rows("ClickRecorded"),
   dailySettlements |-> Stamped(Rows("ClaimSettled")),
   dailyCampaigns   |-> {c \in CampaignRows : CreatedIn(c) \in stamps},
   dailyPublishers  |-> Stamped(PublisherRows),
   dailyClicks      |-> Stamped(Rows("ClickRecorded")),
   credits          |-> Rows("SettlementCredited"),
   toPublishers     |-> Rows("PublisherWithdrawal"),
   toUsers          |-> Rows("UserWithdrawal"),
   toProtocol       |-> Rows("ProtocolWithdrawal"),
   sweeps           |-> Rows("SweptToFeeShare"),
   mints            |-> Rows("MintComputed"),
   mintFailures     |-> Rows("DatumMintFailed"),
   creditEvents     |-> Rows("SettlementCredited"),
   cursor           |-> cursor,
   rawEvents        |-> raw,
   blocks           |-> stamps]

(***************************************************************************)
(* The SELECTs of each report, in the order the code runs them.            *)
(***************************************************************************)
SelectsCampaignsFirst ==  \* mutant: topCampaigns reads the campaigns first
  [summary       |-> <<"settlements", "publishers", "campaigns", "active", "rejections",
                       "clicks", "users">>,
   timeseries    |-> <<"dailySettlements", "dailyCampaigns", "dailyPublishers",
                       "dailyClicks">>,
   cpmHistogram  |-> <<"settlements">>,
   topPublishers |-> <<"settlements">>,
   topCampaigns  |-> <<"campaignTable", "settlements">>,
   conservation  |-> <<"settlements", "credits", "toPublishers", "toUsers", "toProtocol",
                       "sweeps", "mints", "mintFailures", "creditEvents">>,
   aggregation   |-> <<"settlements">>,
   status        |-> <<"cursor", "rawEvents", "blocks">>]

Selects ==
  [summary       |-> <<"settlements", "publishers", "campaigns", "active", "rejections",
                       "clicks", "users">>,
   timeseries    |-> <<"dailySettlements", "dailyCampaigns", "dailyPublishers",
                       "dailyClicks">>,
   cpmHistogram  |-> <<"settlements">>,
   topPublishers |-> <<"settlements">>,
   topCampaigns  |-> <<"settlements", "campaignTable">>,
   conservation  |-> <<"settlements", "credits", "toPublishers", "toUsers", "toProtocol",
                       "sweeps", "mints", "mintFailures", "creditEvents">>,
   aggregation   |-> <<"settlements">>,
   status        |-> <<"cursor", "rawEvents", "blocks">>]

-----------------------------------------------------------------------------

(***************************************************************************)
(* The reports, computed of what their SELECTs found.                      *)
(***************************************************************************)
Summary(found) ==
  [publishers       |-> Cardinality(found.publishers),
   campaigns        |-> Cardinality(found.campaigns),
   activeCampaigns  |-> Cardinality(found.active),
   settlements      |-> Cardinality(found.settlements),
   rejections       |-> Cardinality(found.rejections),
   clicks           |-> Cardinality(found.clicks),
   impressions      |-> Total(Impressions, found.settlements),
   uniqueUsers      |-> Cardinality(found.users),
   settled          |-> Total(Paid, found.settlements),
   publisherRevenue |-> Total(Revenue, found.settlements)]

(***************************************************************************)
(* The daily buckets, of the days anything was found on.                   *)
(***************************************************************************)
Day(n) == (TimeOf[n] \div DAY) * DAY

DayOf(p) == Day(Chain[p].block)

Days(found) ==
  {DayOf(p) : p \in found.dailySettlements \cup found.dailyPublishers
                      \cup found.dailyClicks}
    \cup {Day(CreatedIn(c)) : c \in found.dailyCampaigns}

TimeSeries(found) ==
  [d \in Days(found) |->
     LET on(rows) == {p \in rows : DayOf(p) = d}
         settle == on(found.dailySettlements)
     IN  [impressions   |-> Total(Impressions, settle),
          settled       |-> Total(Paid, settle),
          dau           |-> Cardinality(Users(settle)),
          clicks        |-> Cardinality(on(found.dailyClicks)),
          newPublishers |-> Cardinality(on(found.dailyPublishers)),
          newCampaigns  |->
            Cardinality({c \in found.dailyCampaigns : Day(CreatedIn(c)) = d})]]

(***************************************************************************)
(* The histogram's buckets by the DOT they begin at: none but zero, 0,     *)
(* 0.001, 0.01, 0.1 and 1.  (The second, "<0.001", stays empty: a rate     *)
(* that small is rounded to zero before.)                                  *)
(***************************************************************************)
BucketStarts == <<1, 1, 10, 100, 1000>>

BucketAt(planck) ==
  Cardinality({i \in DOMAIN BucketStarts : MilliDot(planck) >= BucketStarts[i]})

CpmHistogram(settle) ==
  [b \in {BucketAt(Detail[p].rate) : p \in settle} |->
     Cardinality({p \in settle : BucketAt(Detail[p].rate) = b})]

(***************************************************************************)
(* The rankings: the first TOP entries by the DOT shown, among equals      *)
(* those whose first settlement was stored earlier.                        *)
(***************************************************************************)
Ahead(e, f) ==
  \/ MilliDot(e.planck) > MilliDot(f.planck)
  \/ MilliDot(e.planck) = MilliDot(f.planck) /\ e.since < f.since

Leading(entries) ==
  {e \in entries : Cardinality({f \in entries : Ahead(f, e)}) < TOP}

First(rows) == CHOOSE p \in rows : \A q \in rows : p <= q

TopPublishers(settle) ==
  LET of(pub) == {p \in settle : Detail[p].publisher = pub}
  IN  Leading({[publisher |-> pub, planck |-> Total(Revenue, of(pub)),
                impressions |-> Total(Impressions, of(pub)), since |-> First(of(pub))]
                 : pub \in Publishers(settle)})

TopCampaigns(settle, table) ==
  LET of(c) == {p \in settle : Chain[p].campaign = c}
  IN  Leading({[campaign |-> c, planck |-> Total(Paid, of(c)),
                impressions |-> Total(Impressions, of(c)), since |-> First(of(c)),
                listed |-> table[c] # NoRow,
                activated |-> table[c] \notin {NoRow, NotActivated}]
                 : c \in Campaigns(settle)})

(***************************************************************************)
(* The conservation of value: what was settled, what the vault was         *)
(* credited, and what left it; and the tokens that were minted.            *)
(***************************************************************************)
Conservation(found) ==
  LET settled == Total(Paid, found.settlements)
      credited == Total(Amount, found.credits)
      out == Total(Amount, found.toPublishers) + Total(Amount, found.toUsers)
               + Total(Amount, found.toProtocol) + Total(Amount, found.sweeps)
  IN  [settled                |-> settled,
       credited               |-> credited,
       creditedMatchesSettled |-> settled = credited,
       withdrawn              |-> out,
       solvent                |-> out <= credited,
       tokenPlaneActive       |-> Total(Amount, found.mints) > 0,
       mintFailures           |-> Cardinality(found.mintFailures),
       creditEvents           |-> Cardinality(found.creditEvents)]

(***************************************************************************)
(* How many rows an epoch's claims would collapse into: its users, its     *)
(* publishers, its campaigns and one for the root.                         *)
(***************************************************************************)
Collapsed(rows) ==
  Cardinality(Users(rows)) + Cardinality(Publishers(rows))
    + Cardinality(Campaigns(rows)) + 1

Aggregation(settle, epochBlocks) ==
  LET epoch(p) == Chain[p].block \div epochBlocks
      seen == {epoch(p) : p \in settle}
      epochs ==
        [e \in seen |->
           LET b == {p \in settle : epoch(p) = e}
           IN  [claims |-> Cardinality(b), impressions |-> Total(Impressions, b),
                aggregatedRows |-> Collapsed(b)]]
  IN  [claims      |-> Cardinality(settle),
       impressions |-> Total(Impressions, settle),
       totalRows   |-> SumFunction([e \in seen |-> epochs[e].aggregatedRows]),
       epochs      |->
         [e \in {f \in seen : Cardinality({g \in seen : g > f}) < SHOWN_EPOCHS} |->
            epochs[e]]]

Status(found) ==
  [cursor |-> found.cursor, rawEvents |-> Cardinality(found.rawEvents),
   blocksCached |-> Cardinality(found.blocks)]
-----------------------------------------------------------------------------
(* Properties                                                              *)

(***************************************************************************)
(* No value appears or vanishes in the tables, wherever the indexer        *)
(* started, failed or died: at every moment credits match settlements      *)
(* (metrics.js:158), and once all credits were in its reach, withdrawals   *)
(* stay within them (:159).  (Settlements, credits and withdrawals are     *)
(* rows of three contracts' logs; one stored without the other would show  *)
(* as value lost, created or paid out of nothing.  What a report says of   *)
(* the tables, which it reads one after the other, is in MetricsServer.)   *)
(***************************************************************************)
CreditsInReach == \A p \in Named("SettlementCredited") : InScope(p)

ValueConserved ==
  LET credited == Total(Amount, Rows("SettlementCredited"))
  IN  /\ Total(Paid, Rows("ClaimSettled")) = credited
      /\ CreditsInReach => Total(Amount, raw \cap Outgoing) <= credited
=============================================================================
