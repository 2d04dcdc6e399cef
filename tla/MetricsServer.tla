---------------------------- MODULE MetricsServer ----------------------------
(***************************************************************************)
(* The metrics server, indexer/src/serve.js: a process of its own that     *)
(* reads the SQLite file while the indexer writes it.                      *)
(*                                                                         *)
(* It answers one request at a time, without an await, by the SELECTs of   *)
(* one report of metrics.js.  No transaction is around them and the file   *)
(* is in WAL mode (db.js), so that each SELECT sees a database of its own: *)
(* between any two of them the indexer can commit a chunk or timestamps.   *)
(***************************************************************************)
EXTENDS MarketMetrics

VARIABLES
  report,  \* the report of the last request, "none" before the first
  done,    \* how many of its SELECTs have run
  found,   \* what they found
  opened   \* history: the rows that were stored when it was asked for

serverVars == <<report, done, found, opened>>

NothingFound == [s \in DOMAIN Selected |-> {}]

Answered == report # "none" /\ done = Len(Selects[report])

-----------------------------------------------------------------------------

Request ==
  /\ report = "none" \/ Answered
  /\ report' \in DOMAIN Selects
  /\ done' = 0
  /\ found' = NothingFound
  /\ opened' = raw
  /\ UNCHANGED vars

Select ==
  /\ report # "none"
  /\ done < Len(Selects[report])
  /\ done' = done + 1
  /\ found' = [found EXCEPT ![Selects[report][done']] = Selected[Selects[report][done']]]
  /\ UNCHANGED <<report, opened, vars>>

ServerInit ==
  /\ Init
  /\ report = "none"
  /\ done = 0
  /\ found = NothingFound
  /\ opened = {}

ServerNext ==
  \/ Next /\ UNCHANGED serverVars
  \/ Request
  \/ Select

ServerSpec == ServerInit /\ [][ServerNext]_<<vars, serverVars>>
-----------------------------------------------------------------------------
(* Properties                                                              *)

(***************************************************************************)
(* The rows of an event that were stored when the report was asked for,    *)
(* and those of blocks the node did not answer null for.                   *)
(***************************************************************************)
Opened(name) == {p \in opened : Detail[p].name = name}

Dated(rows) == {p \in rows : Chain[p].block \notin nulls}

Column(series, field) == SumFunction([d \in DOMAIN series |-> series[d][field]])

(***************************************************************************)
(* The daily figures account for the rows that were stored when they were  *)
(* asked for, but those of null blocks, and for none that is not stored by *)
(* now; a publisher is new on one day at most.                             *)
(***************************************************************************)
DatedPublishers ==
  {pub \in Publishers(Opened("PublisherRegistered")) :
     \A p \in Rows("PublisherRegistered") :
       Detail[p].publisher = pub => Chain[p].block \notin nulls}

DatedCampaigns ==
  {c \in Campaign : (\E p \in opened : Creates(p, c)) /\ CreatedIn(c) \notin nulls}

DailyAddsUp(series) ==
  LET settle == Dated(Opened("ClaimSettled"))
  IN  /\ Column(series, "settled")
           \in Total(Paid, settle) .. Total(Paid, Rows("ClaimSettled"))
      /\ Column(series, "impressions")
           \in Total(Impressions, settle) .. Total(Impressions, Rows("ClaimSettled"))
      /\ Column(series, "clicks")
           \in Cardinality(Dated(Opened("ClickRecorded")))
                 .. Cardinality(Rows("ClickRecorded"))
      /\ Column(series, "newPublishers")
           \in Cardinality(DatedPublishers)
                 .. Cardinality(Publishers(Rows("PublisherRegistered")))
      /\ Column(series, "newCampaigns")
           \in Cardinality(DatedCampaigns) .. Cardinality(CampaignRows)
      /\ Column(series, "dau") >= Cardinality(Users(settle))

(***************************************************************************)
(* A ranking that shows everyone adds up to its settlements.  A campaign   *)
(* it shows is without a row only if it was created before the sweep: the  *)
(* campaigns are read after the settlements.                               *)
(***************************************************************************)
RankingAddsUp(ranking, column) ==
  Cardinality(ranking) < TOP =>
    SumFunction([e \in ranking |-> e.planck]) = Total(column, found.settlements)

CampaignsListed(ranking) ==
  \A e \in ranking : e.listed \/ CreatedIn(e.campaign) < first

(***************************************************************************)
(* Netting over epochs counts every claim once and needs, over all of      *)
(* them, at least the rows that netting everything at once would.          *)
(***************************************************************************)
EpochsAddUp(answer) ==
  /\ Cardinality(DOMAIN answer.epochs) < SHOWN_EPOCHS =>
       Column(answer.epochs, "claims") = answer.claims
  /\ answer.claims > 0 => answer.totalRows >= Collapsed(found.settlements)

(***************************************************************************)
(* The conservation report may see credits of a chunk whose settlements it *)
(* missed, never settlements without their credits; what it saw leave the  *)
(* vault is covered by now; and it is right if no chunk was stored while   *)
(* it was read.                                                            *)
(***************************************************************************)
ConservationBounded(answer) ==
  /\ answer.settled <= answer.credited
  /\ CreditsInReach => answer.withdrawn <= Total(Amount, Rows("SettlementCredited"))
  /\ raw = opened => /\ answer.creditedMatchesSettled
                     /\ CreditsInReach => answer.solvent

(***************************************************************************)
(* Every answer accounts for every row stored when it was asked for and    *)
(* counts none twice, and its parts fit, whatever the indexer commits      *)
(* between two SELECTs (metrics.js; serve.js:1-2).  (That a settlement is  *)
(* counted without its campaign, its day or its publisher would show in    *)
(* one report and not in another.)                                         *)
(***************************************************************************)
AnswersAddUp ==
  Answered =>
    /\ report \in {"summary", "cpmHistogram", "topPublishers", "topCampaigns",
                   "conservation", "aggregation"} =>
         found.settlements \in SUBSET Rows("ClaimSettled")
           /\ Opened("ClaimSettled") \subseteq found.settlements
    /\ report = "summary" => Users(found.settlements) \subseteq found.users
    /\ report = "timeseries" => DailyAddsUp(TimeSeries(found))
    /\ report = "cpmHistogram" =>
         SumFunction(CpmHistogram(found.settlements)) = Cardinality(found.settlements)
    /\ report = "topPublishers" => RankingAddsUp(TopPublishers(found.settlements), Revenue)
    /\ report = "topCampaigns" =>
         LET ranking == TopCampaigns(found.settlements, found.campaignTable)
         IN  RankingAddsUp(ranking, Paid) /\ CampaignsListed(ranking)
    /\ report = "conservation" => ConservationBounded(Conservation(found))
    /\ report = "aggregation" =>
         \A n \in EpochLengths : EpochsAddUp(Aggregation(found.settlements, n))
=============================================================================
