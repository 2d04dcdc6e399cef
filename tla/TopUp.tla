-------------------------------- MODULE TopUp --------------------------------
(***************************************************************************)
(* The top-up bot: main and its cycle in relay/scripts/topup.mjs, with     *)
(* confirm of relay/scripts/lib/tx.mjs.  It keeps the fleet's accounts     *)
(* funded from a master account that nothing else spends from.             *)
(*                                                                         *)
(* A cycle awaits the master's balance and nonce, then, target by target,  *)
(* the target's balance, the send and the confirmation.  Transactions may  *)
(* be mined late, reverted or dropped, replies lost, and the process       *)
(* killed (the unit restarts it).  Amounts are in units of one PAS; --once *)
(* and --dry, a single cycle and one that sends nothing, are left out.     *)
(***************************************************************************)
EXTENDS WalletAccount

CONSTANTS
  Master,         \* the address of MASTER_PRIVATE_KEY
  Listed,         \* the addresses given or derived, in order
  InitialMaster,  \* what the master may hold at first
  MinWei,         \* --min
  ToWei,          \* --to
  ReserveWei,     \* --reserve
  STEP,           \* the unit of a transaction's value
  Fee,            \* what a transaction costs
  Faucet,         \* what the operator adds to the master at a time
  MaxPool,        \* bound: the node's transactions of one account
  MaxTroubles     \* bound: what comes from outside: funds spent or added,
                  \* failed calls and mining, timeouts, dropped transactions,
                  \* crashes

ASSUME TopUpAssumption ==
  /\ InitialMaster \subseteq Nat
  /\ {MinWei, ToWei, ReserveWei, Fee, Faucet, MaxTroubles} \subseteq Nat
  /\ {STEP, MaxPool} \subseteq Nat \ {0}
  /\ ToWei > MinWei              \* or main exits
  /\ Listed \in Seq(ToSet(Listed))
  /\ ToSet(Listed) \ {Master} # {}  \* "No targets", and main exits

VARIABLES
  master,    \* the master's balance on chain
  balance,   \* address -> its balance on chain
  bot,       \* the process: [pc, first, left, masterWei, nonce, valueWei]
  stray,     \* history: nonces in the pool no cycle has accounted for
  troubles   \* how much of what MaxTroubles bounds has come so far

topUpVars == <<mined, pool, master, balance, bot, stray, troubles>>

(***************************************************************************)
(* resolveTargets: each address once, and never the master itself.         *)
(***************************************************************************)
Targets ==
  FoldLeft(LAMBDA kept, a : IF a \in ToSet(kept) \cup {Master} THEN kept
                            ELSE Append(kept, a), <<>>, Listed)

Target == ToSet(Targets)

Down == [pc |-> "down", first |-> TRUE, left |-> <<>>, masterWei |-> 0,
         nonce |-> 0, valueWei |-> 0]

TopUpInit ==
  /\ mined = <<>>
  /\ pool = [n \in {} |-> <<>>]
  /\ master \in InitialMaster
  /\ balance = [t \in Target |-> MinWei]
  /\ bot = Down
  /\ stray = {}
  /\ troubles = 0

Trouble == troubles < MaxTroubles /\ troubles' = troubles + 1

OnChain == UNCHANGED <<mined, pool, master, balance>>

-----------------------------------------------------------------------------
(* The cycle                                                               *)

At(pc) == bot.pc = pc

(***************************************************************************)
(* The end of a cycle, and one that throws: caught, unless it is the first *)
(* (main rejects and the process exits).                                   *)
(***************************************************************************)
Asleep == [Down EXCEPT !.pc = "sleep", !.first = FALSE]
Thrown == IF bot.first THEN Down ELSE Asleep

NextTargetRunsOn(b) ==  \* mutant: the loop does not notice its end
  [b EXCEPT !.pc = "target", !.left = Tail(@), !.valueWei = 0]

NextTargetNever(b) == Asleep  \* mutant: break for continue

NextTarget(b) ==
  IF Len(b.left) = 1 THEN Asleep
  ELSE [b EXCEPT !.pc = "target", !.left = Tail(@), !.valueWei = 0]

Wake ==
  /\ bot.pc \in {"down", "sleep"}
  /\ bot' = [bot EXCEPT !.pc = "balance"]
  /\ OnChain /\ UNCHANGED <<stray, troubles>>

ReadMaster ==
  /\ At("balance")
  /\ bot' = [bot EXCEPT !.pc = "nonce", !.masterWei = master]
  /\ stray' = stray \cap DOMAIN pool
  /\ OnChain /\ UNCHANGED troubles

ReadNonce ==
  /\ At("nonce")
  /\ \E n \in PendingCounts :
       bot' = [bot EXCEPT !.pc = "target", !.left = Targets, !.nonce = n]
  /\ OnChain /\ UNCHANGED <<stray, troubles>>

ReadFails ==
  /\ bot.pc \in {"balance", "nonce"}
  /\ bot' = Thrown
  /\ Trouble
  /\ OnChain /\ UNCHANGED stray

(***************************************************************************)
(* The deficit rounded down to the unit, and never nothing.                *)
(***************************************************************************)
RoundStep(w) == w - (w % STEP)

ValueFor(bal) ==
  IF RoundStep(ToWei - bal) = 0 THEN STEP ELSE RoundStep(ToWei - bal)

MasterLow(bal, wei) == wei - ValueFor(bal) < ReserveWei

(***************************************************************************)
(* A target's balance: healthy, or the master too low for it (a warning,   *)
(* and the end of the cycle for all that follow), or a send.               *)
(***************************************************************************)
ReadTarget ==
  /\ At("target")
  /\ LET bal == balance[Head(bot.left)]
     IN bot' = IF bal >= MinWei THEN NextTarget(bot)
               ELSE IF MasterLow(bal, bot.masterWei) THEN Asleep
               ELSE [bot EXCEPT !.pc = "send", !.valueWei = ValueFor(bal),
                                !.nonce = @ + 1]
  /\ OnChain /\ UNCHANGED <<stray, troubles>>

ReadTargetFails ==
  /\ At("target")
  /\ bot' = NextTarget(bot)
  /\ Trouble
  /\ OnChain /\ UNCHANGED stray

SentNonce == bot.nonce - 1

(***************************************************************************)
(* The node's pool takes the next transaction to be mined, and others as   *)
(* long as it is not full.                                                 *)
(***************************************************************************)
Room == Cardinality(DOMAIN pool) < MaxPool \/ SentNonce = Latest

Taken ==
  /\ CanAccept(SentNonce)
  /\ master >= bot.valueWei + Fee
  /\ Room
  /\ pool' = PoolWith(SentNonce, [to |-> Head(bot.left), value |-> bot.valueWei])
  /\ UNCHANGED <<mined, master, balance>>

Send ==
  /\ At("send")
  /\ Taken
  /\ bot' = [bot EXCEPT !.pc = "confirm"]
  /\ UNCHANGED <<stray, troubles>>

(***************************************************************************)
(* sendTransaction throws: the node refuses, the call fails, or only its   *)
(* reply is lost.  The cycle ends.                                         *)
(***************************************************************************)
SendRefused ==
  /\ At("send")
  /\ \/ CanRefuse(SentNonce)
     \/ master < bot.valueWei + Fee
     \/ ~Room
  /\ bot' = Asleep
  /\ OnChain /\ UNCHANGED <<stray, troubles>>

SendFails ==
  /\ At("send")
  /\ bot' = Asleep
  /\ Trouble
  /\ OnChain /\ UNCHANGED stray

SendReplyLost ==
  /\ At("send")
  /\ Taken
  /\ bot' = Asleep
  /\ stray' = stray \cup {SentNonce}
  /\ Trouble

(***************************************************************************)
(* confirm returns: the receipt, the nonce past the transaction's, or the  *)
(* timeout (of a mined transaction with neither to read, it does what the  *)
(* nonce does).  All but a receipt that says "reverted" count as spent.    *)
(***************************************************************************)
Spent == [bot EXCEPT !.masterWei = @ - bot.valueWei]

Confirmed == Latest > SentNonce

ConfirmReceipt ==
  /\ At("confirm")
  /\ Confirmed
  /\ bot' = NextTarget(IF mined[SentNonce + 1] = "reverted" THEN bot ELSE Spent)
  /\ OnChain /\ UNCHANGED <<stray, troubles>>

ConfirmNonceUnspent ==  \* mutant: only a receipt counts as spent
  /\ At("confirm")
  /\ Confirmed
  /\ bot' = NextTarget(bot)
  /\ OnChain /\ UNCHANGED <<stray, troubles>>

ConfirmNonce ==
  /\ At("confirm")
  /\ Confirmed
  /\ bot' = NextTarget(Spent)
  /\ OnChain /\ UNCHANGED <<stray, troubles>>

Minable == Latest \in DOMAIN pool /\ master >= pool[Latest].value + Fee

(***************************************************************************)
(* (The model's budget is only charged when waiting longer would help.)    *)
(***************************************************************************)
ConfirmTimeout ==
  /\ At("confirm")
  /\ ~Confirmed
  /\ bot' = NextTarget(Spent)
  /\ stray' = stray \cup {SentNonce}
  /\ IF Minable /\ SentNonce \in DOMAIN pool THEN Trouble ELSE UNCHANGED troubles
  /\ OnChain

(***************************************************************************)
(* The process is killed, a send on its way included.                      *)
(***************************************************************************)
Crash ==
  /\ ~At("down")
  /\ bot' = Down
  /\ Trouble
  /\ \/ OnChain /\ stray' = IF At("confirm") THEN stray \cup {SentNonce} ELSE stray
     \/ At("send") /\ Taken /\ stray' = stray \cup {SentNonce}

BotStep ==
  \/ Wake \/ ReadMaster \/ ReadNonce \/ ReadTarget \/ Send \/ SendRefused
  \/ ConfirmReceipt \/ ConfirmNonce \/ ConfirmTimeout

BotFails ==
  ReadFails \/ ReadTargetFails \/ SendFails \/ SendReplyLost \/ Crash

-----------------------------------------------------------------------------
(* The chain                                                               *)

PoolAfter == [n \in DOMAIN pool \ {Latest} |-> pool[n]]

MinePaid ==
  /\ Minable
  /\ mined' = Append(mined, "paid")
  /\ pool' = PoolAfter
  /\ master' = master - pool[Latest].value - Fee
  /\ balance' = [balance EXCEPT ![pool[Latest].to] = @ + pool[Latest].value]
  /\ UNCHANGED <<bot, stray, troubles>>

MineReverted ==
  /\ Minable
  /\ mined' = Append(mined, "reverted")
  /\ pool' = PoolAfter
  /\ master' = master - Fee
  /\ Trouble
  /\ UNCHANGED <<balance, bot, stray>>

Dropped ==
  /\ \E n \in DOMAIN pool : pool' = [m \in DOMAIN pool \ {n} |-> pool[m]]
  /\ Trouble
  /\ UNCHANGED <<mined, master, balance, bot, stray>>

Spend(t, amount) ==
  /\ balance[t] >= amount
  /\ balance' = [balance EXCEPT ![t] = @ - amount]
  /\ Trouble
  /\ UNCHANGED <<mined, pool, master, bot, stray>>

Donate ==
  /\ master' = master + Faucet
  /\ Trouble
  /\ UNCHANGED <<mined, pool, balance, bot, stray>>

TopUpNext ==
  \/ BotStep
  \/ BotFails
  \/ MinePaid \/ MineReverted \/ Dropped \/ Donate
  \/ \E t \in Target, amount \in 1 .. MinWei : Spend(t, amount)

-----------------------------------------------------------------------------
(* Properties                                                              *)

TopUpTypeOK ==
  /\ mined \in Seq({"paid", "reverted"})
  /\ \A n \in DOMAIN pool : pool[n] \in [to : Target, value : Nat]
  /\ master \in Nat
  /\ balance \in [Target -> Nat]
  /\ bot.pc \in {"down", "sleep", "balance", "nonce", "target", "send", "confirm"}
  /\ bot.pc \in {"target", "send", "confirm"} <=> bot.left # <<>>
  /\ bot.masterWei \in Nat /\ bot.nonce \in Nat /\ bot.valueWei \in Nat
  /\ stray \subseteq Nat
  /\ troubles \in 0 .. MaxTroubles

(***************************************************************************)
(* "It will not spend the master below --reserve" and tops targets "back   *)
(* to --to" (topup.mjs:5-6), cycle after cycle and through lost replies,   *)
(* null receipts and reverts: with two exceptions the code has, the fees   *)
(* of one cycle's transactions, which it does not count, and transactions  *)
(* left in the mempool by an earlier cycle (a timeout, a lost reply, a     *)
(* crash), which the next cycle does not see in the balances and pays for  *)
(* again.                                                                  *)
(***************************************************************************)
PaidAsPlanned ==
  [][stray = {} =>
       /\ master' < master => master' + Len(Targets) * Fee >= ReserveWei
       /\ \A t \in Target :
            balance'[t] > balance[t] => balance'[t] < ToWei + STEP]_topUpVars

(***************************************************************************)
(* "the bot fleet never stalls on an empty account" (topup.mjs:2): no      *)
(* target stays below --min for ever, unless the master is again and again *)
(* too low to fund one of the targets.  One target it cannot afford ends   *)
(* the cycle for all that follow (topup.mjs:153).                          *)
(***************************************************************************)
KeptFunded ==
  \A t \in Target :
    <>[](balance[t] < MinWei) =>
      []<>(\E u \in Target : balance[u] < MinWei /\ MasterLow(balance[u], master))
=============================================================================
