--------------------------- MODULE MCLogIndexer ---------------------------
(***************************************************************************)
(* Instances of LogIndexer and MarketMetrics for TLC: the logs of two      *)
(* campaigns in five blocks.  c1 is created and activated in the first     *)
(* chunk of a backfill from block 1 and activated again later; c2 is       *)
(* created and activated in one block, in that order; one event is unknown *)
(* to the indexer.  Three settlements, of two publishers and on two days,  *)
(* are each credited at once; the vault pays out after that.  (A default   *)
(* START_BLOCK resolved at the last head leaves c1's creation out.)        *)
(***************************************************************************)
EXTENDS MarketMetrics

CONSTANTS c1, c2, u1, u2, p1, p2

MCUser == {u1, u2}
MCPublisher == {p1, p2}

MCNone ==
  [name |-> "none", user |-> u1, publisher |-> p1, count |-> 0, rate |-> 0,
   toPublisher |-> 0, toUser |-> 0, fee |-> 0, amount |-> 0]

MCLog(n, k, c) == [block |-> n, kind |-> k, campaign |-> c, detail |-> MCNone]

MCEvent(n, c, name, u, p, a) ==
  [block |-> n, kind |-> "other", campaign |-> c,
   detail |-> [MCNone EXCEPT !.name = name, !.user = u, !.publisher = p, !.amount = a]]

MCSettled(n, c, u, p, r) ==
  [block |-> n, kind |-> "other", campaign |-> c,
   detail |-> [MCNone EXCEPT !.name = "ClaimSettled", !.user = u, !.publisher = p,
                 !.count = 2, !.rate = r, !.toPublisher = 5, !.toUser = 4, !.fee = 3]]

MCLogs ==
  <<MCLog(1, "created", c1), MCLog(2, "activated", c1), MCLog(2, "unknown", c1),
    MCSettled(2, c1, u1, p1, 7), MCEvent(2, c1, "SettlementCredited", u1, p1, 12),
    MCLog(3, "created", c2), MCLog(3, "activated", c2),
    MCEvent(3, c2, "PublisherRegistered", u1, p1, 0),
    MCEvent(4, c2, "ClickRecorded", u1, p1, 0),
    MCSettled(4, c2, u2, p1, 40), MCEvent(4, c2, "SettlementCredited", u2, p1, 12),
    MCLog(6, "activated", c1),
    MCEvent(6, c1, "PublisherRegistered", u1, p1, 0),
    MCSettled(6, c1, u1, p2, 900), MCEvent(6, c1, "SettlementCredited", u1, p2, 12),
    MCEvent(6, c1, "ClaimRejected", u2, p2, 0),
    MCEvent(6, c1, "PublisherWithdrawal", u1, p1, 15),
    MCEvent(6, c1, "UserWithdrawal", u1, p1, 8),
    MCEvent(6, c1, "ProtocolWithdrawal", u1, p1, 4),
    MCEvent(6, c1, "SweptToFeeShare", u1, p1, 5),
    MCEvent(6, c1, "MintComputed", u1, p2, 9),
    MCEvent(6, c1, "DatumMintFailed", u1, p2, 0)>>

MCChain ==
  [i \in DOMAIN MCLogs |->
     [block |-> MCLogs[i].block, kind |-> MCLogs[i].kind, campaign |-> MCLogs[i].campaign]]

MCDetail == [i \in DOMAIN MCLogs |-> MCLogs[i].detail]

MCCampaign == {c1, c2}

MCTimeOf == [n \in 0 .. MaxHead |-> 6 + 3 * n]

MCEpochLengths == {3}

(***************************************************************************)
(* START_BLOCK as the documents recommend it, a block already there, and   *)
(* its default.                                                            *)
(***************************************************************************)
MCStartBlocks == {1, AutoStart}

(***************************************************************************)
(* The answer to a range is what selecting its logs from the chain gives.  *)
(***************************************************************************)
ASSUME LogsInIsSelectSeq ==
  \A from, to \in 0 .. MaxHead :
    LogsIn(from, to) =
      SelectSeq([p \in Position |-> p], LAMBDA p : Chain[p].block \in from .. to)
=============================================================================
