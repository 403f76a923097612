------------------------------ MODULE TradeEngine ------------------------------
(***************************************************************************)
(* The trading loop: main.rs, scanner.rs and trade_manager.rs, with the    *)
(* service that executes orders and the broker behind it.                  *)
(*                                                                         *)
(* The loop is one thread.  Each turn it checks the kill switch, drains    *)
(* the market and account messages, drains the asynchronous execution      *)
(* results, scans every symbol, manages every trade, cleans up and sleeps; *)
(* pc says where it is.  The service executes jobs on a pool of threads    *)
(* and pushes each result back, at any time and in any order, so that a    *)
(* result meets a trade that may have moved on.                            *)
(*                                                                         *)
(* Time passes in the sleep: one turn is one instant.  The AppState lock   *)
(* never changes hands, as only the loop's thread takes it.                *)
(***************************************************************************)
EXTENDS TradingStates, RiskEnforcer, FiniteSets, FiniteSetsExt

CONSTANTS
  MaxTrades,       \* bound: trades spawned in one behaviour
  Signals,         \* [dir, type] records the detectors may report
  Quotes,          \* the latest tick of a buffer with its averages, see Quote
  Accounts,        \* [balance, equity] records the broker may publish
  DefaultAccount,  \* the account when get_account fails
  ExecCooldownMs,  \* 30_000 of execution_cooldowns
  TimeSteps,       \* how long one turn of the loop may take
  Tickets,         \* position tickets the broker hands out
  ReqIds,          \* request ids: Uuid::new_v4, drawn from those not in use
  Replies,         \* how the service may answer a request, see RepMessage
  OkShapes,        \* what an "ok" result carries: "fill", "bare" or "none"
  OrderMayFail, CloseMayFail,  \* may the broker refuse an order, a close
  PushMayFail      \* may _push_result lose a result

NoReq    == 0      \* None
NoTicket == 0
NoSymbol == "no symbol"
NoQuote  == [price |-> -1, spread |-> 0, avg_spread |-> 0, latency_ms |-> 0,
             points |-> 0, tick_value |-> 0]
NoRun    == NewRun(0, 0, 0)
NoFill   == [price |-> 0, ticket |-> NoTicket]

TradeIds == 1..MaxTrades

\* points is the number of points in a pip, 0 if the tick carries no point;
\* tick_value is cents per point and hundredth of a lot.
Quote    == [price : Int, spread : Int, avg_spread : Int, latency_ms : Int,
             points : Nat, tick_value : Nat]
Funds    == [balance : Int, equity : Int]
Signal   == [dir : Direction, type : SignalType]
ReplyKind == {"pending_id", "pending_bare", "ok_fill", "ok_bare", "error", "lost",
              "stale", "late"}

ASSUME EngineAssumption ==
  /\ MaxTrades \in Nat
  /\ Signals \subseteq Signal
  /\ Quotes \subseteq Quote /\ \A q \in Quotes : q.price \in Nat
  /\ Accounts \subseteq Funds /\ DefaultAccount \in Funds
  /\ ExecCooldownMs \in Nat
  /\ TimeSteps \subseteq Nat \ {0}
  /\ Tickets \subseteq Nat \ {NoTicket} /\ ReqIds \subseteq Nat \ {NoReq}
  /\ Replies \subseteq ReplyKind
  /\ OkShapes \subseteq {"fill", "bare", "none"}
  /\ {OrderMayFail, CloseMayFail, PushMayFail} \subseteq BOOLEAN
  /\ NoSymbol \notin Symbols

ASSUME RiskAssumption ==
  /\ DailyLossPct \in Nat
  /\ {MaxParallel, MaxPerSymbol, MaxPositionLots, LotPer1000, ReversalThreshold}
       \subseteq Nat
  /\ {MaxSpreadMultiplier, MaxSpreadPips, MaxLatencyMs, StallTimeoutMs, PipMultiplier}
       \subseteq [Symbols -> Nat]

VARIABLES
  pc,                   \* where the loop is
  kill_switch,          \* kill_switch.is_active()
  unscanned,            \* symbols scan_for_opportunities has still to visit
  unmanaged,            \* trades update_active_trades has still to visit
  active_trades,        \* the Vec of trades, by id: ids ascend along the Vec
  trade_id_counter,
  symbol,               \* ActiveTrade.symbol, by trade
  state,                \* ActiveTrade.state_machine, by trade
  active_run,           \* ActiveTrade.active_run, by trade
  pending_req_id,       \* ActiveTrade.pending_req_id, by trade
  tick,                 \* latest tick of each symbol's buffer
  account,              \* balance, equity, open_positions_count, daily_loss_limit
  daily_pnl,
  execution_cooldowns,  \* time left of each symbol's execution cooldown
  account_msg,          \* last account message not yet drained, at most one
  jobs,                 \* requests the service has accepted and not executed
  results,              \* results pushed and not yet drained
  positions,            \* tickets of the positions open at the broker
  owed,                 \* requests whose pending reply the REQ socket still owes
  unseen                \* history: requests whose id or result did not get to the
                        \* trade that made them

loopVars    == <<pc, kill_switch, unscanned, unmanaged>>
tradeVars   == <<active_trades, trade_id_counter, symbol, state, active_run,
                 pending_req_id>>
marketVars  == <<tick, account, account_msg>>
riskVars    == <<daily_pnl, execution_cooldowns>>
serviceVars == <<jobs, results, positions, owed, unseen>>
vars == <<loopVars, tradeVars, marketVars, riskVars, serviceVars>>

-----------------------------------------------------------------------------
Job    == [req_id : ReqIds, op : {"execute_order", "close_position"}, ticket : Nat]
Fill   == [price : Int, ticket : Nat]
\* op is a history: the result on the wire does not say what it answers.
Result == [req_id : ReqIds, op : {"execute_order", "close_position"},
           status : {"ok", "error"}, shape : {"fill", "bare", "none"}, data : Fill]
AccountState == [balance : Int, equity : Int, open_positions : Nat,
                 daily_loss_limit : Int]
AccountMsg   == [balance : Int, equity : Int, open_positions : Nat]

TypeOK ==
  /\ pc \in {"kill", "messages", "results", "scan", "manage", "cleanup", "sleep", "halted"}
  /\ kill_switch \in BOOLEAN
  /\ unscanned \subseteq Symbols
  /\ unmanaged \subseteq TradeIds
  /\ active_trades \subseteq TradeIds
  /\ trade_id_counter \in 0..MaxTrades
  /\ symbol \in [TradeIds -> Symbols \union {NoSymbol}]
  /\ state \in [TradeIds -> TradingState]
  /\ active_run \in [TradeIds -> Run]
  /\ pending_req_id \in [TradeIds -> ReqIds \union {NoReq}]
  /\ tick \in [Symbols -> Quotes \union {NoQuote}]
  /\ account \in AccountState
  /\ daily_pnl \in Int
  /\ execution_cooldowns \in [Symbols -> Nat]
  /\ account_msg \subseteq AccountMsg
  /\ jobs \subseteq Job
  /\ results \subseteq Result
  /\ positions \subseteq Tickets
  /\ owed \subseteq ReqIds
  /\ unseen \subseteq ReqIds

\* AppState::new, then the get_account request of main, which may fail.  The
\* risk enforcer's own limit stays 0 until the first account message.
Init ==
  /\ pc = "kill" /\ kill_switch = FALSE
  /\ unscanned = {} /\ unmanaged = {}
  /\ active_trades = {} /\ trade_id_counter = 0
  /\ symbol = [i \in TradeIds |-> NoSymbol]
  /\ state = [i \in TradeIds |-> Idle]
  /\ active_run = [i \in TradeIds |-> NoRun]
  /\ pending_req_id = [i \in TradeIds |-> NoReq]
  /\ tick = [s \in Symbols |-> NoQuote]
  /\ \E a \in Accounts \union {DefaultAccount} :
       account = [balance |-> a.balance, equity |-> a.equity,
                  open_positions |-> 0, daily_loss_limit |-> 0]
  /\ daily_pnl = 0
  /\ execution_cooldowns = [s \in Symbols |-> 0]
  /\ account_msg = {}
  /\ jobs = {} /\ results = {} /\ positions = {} /\ owed = {} /\ unseen = {}

-----------------------------------------------------------------------------
(***************************************************************************)
(* What the scanner and the manager read off the trades.                   *)
(***************************************************************************)
InPlayOn(s)      == {i \in active_trades : symbol[i] = s /\ InPlay(state[i])}
GlobalCount      == Cardinality({i \in active_trades : InPlay(state[i])})
Pnl(T)           == MapThenSumSet(LAMBDA i : active_run[i].unrealized_pnl, T)
OnSymbol(s)      == {i \in active_trades : symbol[i] = s}
LossLimit        == DailyLimit(account.balance)

\* The least of the ids that are not in use; the broker's tickets likewise.
IsFresh(x, S)    == x \in S /\ \A y \in S : x <= y
FreshReqs        == ReqIds \ ({j.req_id : j \in jobs} \union {r.req_id : r \in results}
                              \union {pending_req_id[i] : i \in TradeIds} \union owed)
HeldTickets      == {state[i].ticket : i \in {k \in active_trades : Exposed(state[k])}}
FreshTickets     == Tickets \ (positions \union HeldTickets
                               \union {r.data.ticket : r \in results}
                               \union {j.ticket : j \in jobs})
Waiting          == {i \in active_trades : pending_req_id[i] # NoReq}
FillPrices       == {q.price : q \in Quotes}

-----------------------------------------------------------------------------
(***************************************************************************)
(* 1. The kill switch and the daily loss limit.  Both ways out end main,   *)
(* with every trade and every position as it is.                           *)
(***************************************************************************)
DailyLossHit == daily_pnl < -LossLimit

\* Mutant: the loop looks only at a switch that somebody else triggers.
CheckSwitchOnly ==
  /\ pc = "kill"
  /\ kill_switch' = kill_switch
  /\ pc' = IF kill_switch' THEN "halted" ELSE "messages"
  /\ UNCHANGED <<unscanned, unmanaged, tradeVars, marketVars, riskVars, serviceVars>>

CheckKillSwitch ==
  /\ pc = "kill"
  /\ kill_switch' = (kill_switch \/ DailyLossHit)
  /\ pc' = IF kill_switch' THEN "halted" ELSE "messages"
  /\ UNCHANGED <<unscanned, unmanaged, tradeVars, marketVars, riskVars, serviceVars>>

(***************************************************************************)
(* 2. Ticks and account messages.  Only the last one of each counts; a     *)
(* buffer that has a tick keeps one.                                       *)
(***************************************************************************)
DrainMessages ==
  /\ pc = "messages"
  /\ pc' = "results"
  /\ tick' \in [Symbols -> Quotes \union {NoQuote}]
  /\ \A s \in Symbols : tick'[s] = NoQuote => tick[s] = NoQuote
  /\ account_msg' = {}
  /\ IF account_msg = {}
     THEN UNCHANGED account
     ELSE \E m \in account_msg :
            account' = [balance |-> m.balance, equity |-> m.equity,
                        open_positions |-> m.open_positions,
                        daily_loss_limit |-> DailyLimit(m.balance)]
  /\ UNCHANGED <<kill_switch, unscanned, unmanaged, tradeVars, riskVars, serviceVars>>

(***************************************************************************)
(* 2b. One asynchronous result.  Whether it answers an order or a close is *)
(* told from the state its trade is in now; a result no trade waits for is *)
(* dropped with a warning.                                                 *)
(***************************************************************************)
\* Mutants: every result is taken for an order's; a confirmed close ends the
\* trade without its cooldown; a failed order leaves the trade as it is.
AfterOrderResult(s, r) ==
  CASE r.status = "ok" /\ r.shape = "fill" -> OrderFilled(s, r.data.price, r.data.ticket)
    [] r.status = "ok" /\ r.shape = "none" -> s
    [] OTHER                               -> OrderTimeout(s)

AfterResultNoCooldown(s, r) ==
  IF s.tag = "Exiting" THEN Idle ELSE AfterOrderResult(s, r)

AfterResultNoTimeout(s, r) ==
  CASE s.tag = "Exiting" -> PositionClosed(s)
    [] s.tag # "Exiting" /\ r.status = "ok" /\ r.shape = "fill" ->
         OrderFilled(s, r.data.price, r.data.ticket)
    [] OTHER             -> s

AfterResult(s, r) ==
  CASE s.tag = "Exiting"    -> PositionClosed(s)
    [] s.tag # "Exiting" /\ r.status = "ok" /\ r.shape = "fill" ->
         OrderFilled(s, r.data.price, r.data.ticket)
    [] s.tag # "Exiting" /\ r.status = "ok" /\ r.shape = "none" -> s
    [] OTHER                -> OrderTimeout(s)

\* Mutant: the marker stays.
KeepPending(i) == pending_req_id

\* trade.pending_req_id = None
ClearPending(i) == [pending_req_id EXCEPT ![i] = NoReq]

HandleResult(r) ==
  /\ pc = "results"
  /\ results' = results \ {r}
  /\ unseen' = unseen \ {r.req_id}
  /\ LET owner == {i \in active_trades : pending_req_id[i] = r.req_id} IN
     IF owner = {}
     THEN UNCHANGED <<state, pending_req_id, execution_cooldowns>>
     ELSE \E i \in owner :
            /\ IsFresh(i, owner)
            /\ pending_req_id' = ClearPending(i)
            /\ state' = [state EXCEPT ![i] = AfterResult(@, r)]
            /\ execution_cooldowns' =
                 IF r.status = "error" /\ state[i].tag # "Exiting"
                 THEN [execution_cooldowns EXCEPT ![symbol[i]] = ExecCooldownMs]
                 ELSE execution_cooldowns
  /\ UNCHANGED <<loopVars, active_trades, trade_id_counter, symbol, active_run,
                 marketVars, daily_pnl, jobs, positions, owed>>

(***************************************************************************)
(* 3. The scan.  The count of trades in play is compared with the global   *)
(* limit once, before the loop over the symbols; the scan adds only        *)
(* Qualifying trades, which no count includes, so that what it read at its *)
(* start is what the state still says.  Results that the bridge has not    *)
(* forwarded yet stay out.                                                 *)
(***************************************************************************)
StartScan ==
  /\ pc = "results"
  \* bound: the service's backlog leaves an id for every trade that may ask
  /\ Cardinality(FreshReqs) + Cardinality(Waiting) >= MaxTrades
  /\ pc' = "scan"
  /\ unscanned' = IF GlobalCount < MaxParallel THEN Symbols ELSE {}
  /\ UNCHANGED <<kill_switch, unmanaged, tradeVars, marketVars, riskVars, serviceVars>>

CanScan(s) ==
  /\ execution_cooldowns[s] = 0
  /\ InPlayOn(s) # {} => Pnl(OnSymbol(s)) >= 0
  /\ Cardinality(InPlayOn(s)) < MaxPerSymbol \/ Pnl(OnSymbol(s)) > PyramidProfit
  /\ tick[s] # NoQuote

\* The signal requests of the scan take replies the socket still owes, and a
\* connection that breaks loses them.
ForgetReplies == owed' \in SUBSET owed

\* Momentum is asked for first and reversion only without it; either may
\* report a signal.
Spawn(s) ==
  /\ pc = "scan" /\ s \in unscanned /\ CanScan(s)
  /\ trade_id_counter < MaxTrades      \* bound
  /\ \E signal \in Signals : LET id == trade_id_counter + 1 IN
       /\ trade_id_counter' = id
       /\ active_trades' = active_trades \union {id}
       /\ symbol' = [symbol EXCEPT ![id] = s]
       /\ state' = [state EXCEPT ![id] = SignalDetected(@, s, signal.dir, signal.type)]
  /\ unscanned' = unscanned \ {s}
  /\ ForgetReplies
  /\ UNCHANGED <<pc, kill_switch, unmanaged, active_run, pending_req_id, marketVars,
                 riskVars, jobs, results, positions, unseen>>

SkipSymbol(s) ==
  /\ pc = "scan" /\ s \in unscanned
  /\ unscanned' = unscanned \ {s}
  /\ ForgetReplies
  /\ UNCHANGED <<pc, kill_switch, unmanaged, tradeVars, marketVars, riskVars,
                 jobs, results, positions, unseen>>

-----------------------------------------------------------------------------
(***************************************************************************)
(* 4. The management pass, one trade after the other in the order of the   *)
(* Vec.  Next is the trade at the current index; a trade that is done is   *)
(* no longer unmanaged.                                                    *)
(***************************************************************************)
StartManage ==
  /\ pc = "scan" /\ unscanned = {}
  /\ pc' = "manage"
  /\ unmanaged' = active_trades
  /\ UNCHANGED <<kill_switch, unscanned, tradeVars, marketVars, riskVars, serviceVars>>

Turn(i, tag) == pc = "manage" /\ IsFresh(i, unmanaged) /\ state[i].tag = tag

Others(i) == OnSymbol(symbol[i]) \ {i}

\* The loss guard and can_enter.  Neither counts the trade itself.
MayEnter(i) ==
  LET inPlay == InPlayOn(symbol[i]) \ {i} IN
  /\ tick[symbol[i]] # NoQuote
  /\ inPlay # {} => Pnl(Others(i)) >= 0
  /\ CanEnter(symbol[i], account, tick[symbol[i]], daily_pnl,
              Cardinality(inPlay), Pnl(Others(i)) > PyramidProfit)

Qualify(i) ==
  /\ Turn(i, "Qualifying")
  /\ state' = [state EXCEPT ![i] =
       IF MayEnter(i)
       THEN FiltersPass(@, InitialLots(account.equity),
                        StopPips(symbol[i], tick[symbol[i]], @.signal_type))
       ELSE FiltersReject(@)]
  /\ unmanaged' = unmanaged \ {i}
  /\ UNCHANGED <<pc, kill_switch, unscanned, active_trades, trade_id_counter, symbol,
                 active_run, pending_req_id, marketVars, riskVars, serviceVars>>

(***************************************************************************)
(* What the REQ socket hands over as the answer to a request, by kind, and *)
(* what bridge_client.rs makes of it for the caller: the data object with  *)
(* the status put into it, so that a req_id beside data does not get       *)
(* through, or Err.  Nobody compares ids: the message may be the reply to  *)
(* another request, id.                                                    *)
(*   pending_bare  trading_service.py: pending, req_id beside an absent    *)
(*                 data; the job is executed later                         *)
(*   pending_id    pending, with the req_id inside data, where             *)
(*                 trade_manager.rs looks for it                           *)
(*   late          the pending_id reply to an earlier order or close, which  *)
(*                 the socket still owed; executed later.  (A late reply   *)
(*                 without an id is pending_bare to the caller, a late     *)
(*                 refusal is lost.)                                       *)
(*   stale         the reply to an earlier signal request; executed later  *)
(*   ok_fill       executed at once, the fill in a data object inside data *)
(*   ok_bare       executed at once, no such object                        *)
(*   error         refused, nothing executed                               *)
(*   lost          no answer in time; executed later, or never             *)
(***************************************************************************)
RepMessage(kind, id) ==
  CASE kind = "pending_bare" -> [status |-> "pending", req_id |-> id, data |-> "absent"]
    [] kind \in {"pending_id", "late"} ->
                                [status |-> "pending", req_id |-> id, data |-> "req_id"]
    [] kind = "ok_fill"      -> [status |-> "ok", req_id |-> id, data |-> "fill"]
    [] kind \in {"ok_bare", "stale"} ->
                                [status |-> "ok", req_id |-> id, data |-> "absent"]
    [] OTHER                 -> [status |-> "error", req_id |-> id, data |-> "absent"]

\* Mutant: the id is dropped wherever it is.
RelayWithoutId(msg) ==
  [outcome |-> IF msg.status \in {"ok", "pending"} THEN msg.status ELSE "Err",
   req_id  |-> NoReq,
   data    |-> msg.data]

Relay(msg) ==
  [outcome |-> IF msg.status \in {"ok", "pending"} THEN msg.status ELSE "Err",
   req_id  |-> IF msg.data = "req_id" THEN msg.req_id ELSE NoReq,
   data    |-> msg.data]

\* Mutant: a pending reply with no job behind it.
AcceptsNothing(kind, job) == jobs' = jobs

\* A job of the service: accepted and executed later, or lost on the way.
Accepts(kind, job) ==
  CASE kind \in {"pending_id", "pending_bare", "stale", "late"} -> jobs' = jobs \union {job}
    [] kind = "lost" -> jobs' \in {jobs, jobs \union {job}}
    [] OTHER         -> jobs' = jobs

\* Executed before the reply.
Executed(kind) == kind \in {"ok_fill", "ok_bare"}

\* The request whose reply answers request req.
Answered(kind, req) == IF kind = "late" THEN owed ELSE {req}

\* Request req gets the reply to id, and its own reply is still to come
\* unless that is it; then no earlier one is.
Owe(kind, req, id) ==
  owed' = CASE kind = "late"  -> (owed \ {id}) \union {req}
            [] kind = "stale" -> owed \union {req}
            [] kind = "lost"  -> IF jobs' = jobs THEN owed ELSE owed \union {req}
            [] OTHER          -> {}

\* Only pending_id tells a trade the id of its own request.
Note(kind, req, id) ==
  unseen' = CASE kind = "late"       -> unseen \union {req, id}
              [] kind = "pending_id" -> unseen \ {req}
              [] OTHER               -> IF jobs' = jobs THEN unseen \ {req}
                                                        ELSE unseen \union {req}

\* While a result is awaited the order is not sent again.
AwaitFill(i) ==
  /\ Turn(i, "EntryReady") /\ pending_req_id[i] # NoReq
  /\ unmanaged' = unmanaged \ {i}
  /\ UNCHANGED <<pc, kill_switch, unscanned, tradeVars, marketVars, riskVars, serviceVars>>

AfterReply(s, resp, price, ticket) ==
  CASE resp.outcome = "pending"                  -> s
    [] resp.outcome = "ok" /\ resp.data = "fill" -> OrderFilled(s, price, ticket)
    [] OTHER                                     -> OrderTimeout(s)

\* What one kind of reply, to id, does to request req; price and ticket are
\* those of an order executed at once.
SendOrder(i, req, kind, id, price, ticket) ==
  LET resp == Relay(RepMessage(kind, id)) IN
  /\ Accepts(kind, [req_id |-> req, op |-> "execute_order", ticket |-> NoTicket])
  /\ Owe(kind, req, id) /\ Note(kind, req, id)
  /\ IF Executed(kind)
     THEN IsFresh(ticket, FreshTickets) /\ positions' = positions \union {ticket}
     ELSE /\ ticket = NoTicket /\ IsFresh(price, FillPrices)  \* not used
          /\ UNCHANGED positions
  /\ pending_req_id' = [pending_req_id EXCEPT ![i] =
       IF resp.outcome = "pending" THEN resp.req_id ELSE @]
  /\ state' = [state EXCEPT ![i] = AfterReply(@, resp, price, ticket)]
  /\ execution_cooldowns' =
       IF resp.outcome = "Err"
       THEN [execution_cooldowns EXCEPT ![symbol[i]] = ExecCooldownMs]
       ELSE execution_cooldowns

\* A fill in the reply leaves the trade to be managed once more in this pass,
\* as an open position.
SubmitOrder(i) ==
  /\ Turn(i, "EntryReady") /\ pending_req_id[i] = NoReq
  /\ \E req \in FreshReqs, kind \in Replies, price \in FillPrices,
        ticket \in FreshTickets \union {NoTicket} :
       /\ IsFresh(req, FreshReqs)
       /\ \E id \in Answered(kind, req) : SendOrder(i, req, kind, id, price, ticket)
  /\ unmanaged' = IF state'[i].tag = "PositionOpen" THEN unmanaged ELSE unmanaged \ {i}
  /\ UNCHANGED <<pc, kill_switch, unscanned, active_trades, trade_id_counter, symbol,
                 active_run, marketVars, daily_pnl, results>>

AwaitClose(i) ==
  /\ Turn(i, "Exiting") /\ pending_req_id[i] # NoReq
  /\ unmanaged' = unmanaged \ {i}
  /\ UNCHANGED <<pc, kill_switch, unscanned, tradeVars, marketVars, riskVars, serviceVars>>

\* Whatever the answer, but for a pending one, the trade counts as closed.
SendClose(i, req, kind, id) ==
  LET resp == Relay(RepMessage(kind, id)) IN
  /\ Accepts(kind, [req_id |-> req, op |-> "close_position", ticket |-> state[i].ticket])
  /\ Owe(kind, req, id) /\ Note(kind, req, id)
  /\ positions' = IF Executed(kind) THEN positions \ {state[i].ticket}
                                         ELSE positions
  /\ pending_req_id' = [pending_req_id EXCEPT ![i] =
       IF resp.outcome = "pending" THEN resp.req_id ELSE @]
  /\ state' = [state EXCEPT ![i] =
       IF resp.outcome = "pending" THEN @ ELSE PositionClosed(@)]

SubmitClose(i) ==
  /\ Turn(i, "Exiting") /\ pending_req_id[i] = NoReq
  /\ \E req \in FreshReqs, kind \in Replies :
       /\ IsFresh(req, FreshReqs)
       /\ \E id \in Answered(kind, req) : SendClose(i, req, kind, id)
  /\ unmanaged' = unmanaged \ {i}
  /\ UNCHANGED <<pc, kill_switch, unscanned, active_trades, trade_id_counter, symbol,
                 active_run, marketVars, riskVars, results>>

FinishCooldown(i) ==
  /\ Turn(i, "Cooldown")
  /\ state' = [state EXCEPT ![i] = CooldownComplete(@)]
  /\ unmanaged' = unmanaged \ {i}
  /\ UNCHANGED <<pc, kill_switch, unscanned, active_trades, trade_id_counter, symbol,
                 active_run, pending_req_id, marketVars, riskVars, serviceVars>>

\* A trade that went Idle earlier in this turn waits for the cleanup.
SkipIdle(i) ==
  /\ Turn(i, "Idle")
  /\ unmanaged' = unmanaged \ {i}
  /\ UNCHANGED <<pc, kill_switch, unscanned, tradeVars, marketVars, riskVars, serviceVars>>

(***************************************************************************)
(* An open position: its run is made on first sight, follows the price and *)
(* decides the exit.  A position that is not in profit is held, down to    *)
(* three times its stop.                                                   *)
(***************************************************************************)
Pips(s, price) == IF s.direction = "Long" THEN price - s.entry_price
                                          ELSE s.entry_price - price

\* Mutant: a stalled trade is closed in loss too.
ExitOnAnyStall(s, run, pips) ==
  CASE pips >= s.tp_pips        -> ExitSignal(s, "TakeProfitHit")
    [] pips <= -(3 * s.sl_pips) -> ExitSignal(s, "StopLossHit")
    [] OTHER                    ->
         IF CheckStall(s.symbol, run) THEN ExitSignal(s, "StallTimeout") ELSE s

ExitDecision(s, run, pips) ==
  CASE pips >= s.tp_pips       -> ExitSignal(s, "TakeProfitHit")
    [] pips <= -(3 * s.sl_pips) -> ExitSignal(s, "StopLossHit")
    [] OTHER ->
         IF pips > 0 /\ CheckReversal(s.symbol, run) THEN ExitSignal(s, "ReversalDetected")
         ELSE IF pips > 0 /\ CheckStall(s.symbol, run) THEN ExitSignal(s, "StallTimeout")
         ELSE s

\* The profit or loss: the distance in points at the tick's value, or ten
\* dollars a pip and lot for a tick without a point.
Value(quote, pips, lots) ==
  IF quote.points > 0 THEN pips * quote.points * quote.tick_value * lots
                      ELSE 10 * pips * lots

UpdateOpen(i) ==
  /\ Turn(i, "PositionOpen")
  /\ LET s    == state[i]
         now  == tick[symbol[i]]
         seen == IF active_run[i] = NoRun
                 THEN NewRun(s.entry_price, s.current_lots, s.sl_pips)
                 ELSE active_run[i]
         pips == Pips(s, now.price)
         run  == UpdatePrice(seen, now.price, Value(now, pips, s.current_lots))
     IN  IF tick[symbol[i]] = NoQuote
         THEN /\ active_run' = [active_run EXCEPT ![i] = seen]
              /\ UNCHANGED state
         ELSE /\ active_run' = [active_run EXCEPT ![i] = run]
              /\ state' = [state EXCEPT ![i] = ExitDecision(s, run, pips)]
  /\ unmanaged' = unmanaged \ {i}
  /\ UNCHANGED <<pc, kill_switch, unscanned, active_trades, trade_id_counter, symbol,
                 pending_req_id, marketVars, riskVars, serviceVars>>

-----------------------------------------------------------------------------
(***************************************************************************)
(* 5. The cleanup books the profit or loss of each Idle trade and drops    *)
(* the trade.                                                              *)
(***************************************************************************)
StartCleanup ==
  /\ pc = "manage" /\ unmanaged = {}
  /\ pc' = "cleanup"
  /\ UNCHANGED <<kill_switch, unscanned, unmanaged, tradeVars, marketVars, riskVars,
                 serviceVars>>

Completed == {i \in active_trades : state[i] = Idle}

CleanUp(i) ==
  /\ pc = "cleanup" /\ i \in Completed
  /\ daily_pnl' = daily_pnl + active_run[i].unrealized_pnl
  /\ active_trades' = active_trades \ {i}
  /\ symbol' = [symbol EXCEPT ![i] = NoSymbol]
  /\ active_run' = [active_run EXCEPT ![i] = NoRun]
  /\ pending_req_id' = [pending_req_id EXCEPT ![i] = NoReq]
  /\ UNCHANGED <<loopVars, trade_id_counter, state, marketVars, execution_cooldowns,
                 serviceVars>>

EndTurn ==
  /\ pc = "cleanup" /\ Completed = {}
  /\ pc' = "sleep"
  /\ UNCHANGED <<kill_switch, unscanned, unmanaged, tradeVars, marketVars, riskVars,
                 serviceVars>>

(***************************************************************************)
(* The sleep of the loop, and all the time the turn took.  Bound: a stall  *)
(* clock stops one past the symbol's timeout, which is all CheckStall      *)
(* tells apart.                                                            *)
(***************************************************************************)
Sleep ==
  /\ pc = "sleep"
  /\ pc' = "kill"
  /\ \E d \in TimeSteps :
       /\ state' = [i \in TradeIds |-> Elapse(state[i], d)]
       /\ active_run' = [i \in TradeIds |->
            IF active_run[i] = NoRun THEN NoRun
            ELSE [active_run[i] EXCEPT
                    !.idle_ms = LeastOf(@ + d, StallTimeoutMs[symbol[i]] + 1)]]
       /\ execution_cooldowns' =
            [s \in Symbols |-> Remaining(execution_cooldowns[s], d)]
  /\ UNCHANGED <<kill_switch, unscanned, unmanaged, active_trades, trade_id_counter,
                 symbol, pending_req_id, marketVars, daily_pnl, serviceVars>>

-----------------------------------------------------------------------------
(***************************************************************************)
(* The service's pool of threads and the broker.  Every job ends in one    *)
(* result, unless _push_result fails, which is only logged.                *)
(***************************************************************************)
Push(j, status, shape, data) ==
  \/ /\ results' = results \union {[req_id |-> j.req_id, op |-> j.op, status |-> status,
                                    shape |-> shape, data |-> data]}
     /\ UNCHANGED unseen
  \/ /\ PushMayFail
     /\ results' = results
     /\ unseen' = unseen \union {j.req_id}

ExecuteOrder(j) ==
  /\ j.op = "execute_order"
  /\ jobs' = jobs \ {j}
  /\ \/ \E ticket \in FreshTickets, price \in FillPrices, shape \in OkShapes :
          /\ IsFresh(ticket, FreshTickets)
          /\ positions' = positions \union {ticket}
          /\ Push(j, "ok", shape, [price |-> price, ticket |-> ticket])
     \/ /\ OrderMayFail \/ FreshTickets = {}
        /\ Push(j, "error", "none", NoFill)
        /\ UNCHANGED positions
  /\ UNCHANGED <<loopVars, tradeVars, marketVars, riskVars, owed>>

\* Mutant: any position of the symbol, as for a close that names no ticket.
CloseFirstPosition(j) ==
  /\ j.op = "close_position"
  /\ jobs' = jobs \ {j}
  /\ \E p \in positions : /\ IsFresh(p, positions)
                         /\ positions' = positions \ {p}
                         /\ Push(j, "ok", "none", NoFill)
  /\ UNCHANGED <<loopVars, tradeVars, marketVars, riskVars, owed>>

\* The ticket of a confirmed close is the closing order's, which is no
\* position's.
ClosePosition(j) ==
  /\ j.op = "close_position"
  /\ jobs' = jobs \ {j}
  /\ \/ /\ j.ticket \in positions
        /\ positions' = positions \ {j.ticket}
        /\ \E price \in FillPrices :
             Push(j, "ok", "fill", [price |-> price, ticket |-> NoTicket])
     \/ /\ CloseMayFail \/ j.ticket \notin positions
        /\ Push(j, "error", "none", NoFill)
        /\ UNCHANGED positions
  /\ UNCHANGED <<loopVars, tradeVars, marketVars, riskVars, owed>>

\* _account_updater_loop
PublishAccount ==
  /\ \E a \in Accounts :
       account_msg' = {[balance |-> a.balance, equity |-> a.equity,
                        open_positions |-> Cardinality(positions)]}
  /\ UNCHANGED <<loopVars, tradeVars, tick, account, riskVars, serviceVars>>

-----------------------------------------------------------------------------
ManageTrade(i) == \/ Qualify(i) \/ AwaitFill(i) \/ SubmitOrder(i) \/ UpdateOpen(i)
                  \/ AwaitClose(i) \/ SubmitClose(i) \/ FinishCooldown(i) \/ SkipIdle(i)

MainLoop == \/ CheckKillSwitch \/ DrainMessages
            \/ \E r \in results : HandleResult(r)
            \/ StartScan
            \/ \E s \in Symbols : Spawn(s) \/ SkipSymbol(s)
            \/ StartManage
            \/ \E i \in unmanaged : ManageTrade(i)
            \/ StartCleanup
            \/ \E i \in active_trades : CleanUp(i)
            \/ EndTurn \/ Sleep

Service == \E j \in jobs : ExecuteOrder(j) \/ ClosePosition(j)

Next == MainLoop \/ Service \/ PublishAccount

\* The loop's thread keeps running, the pool executes what was submitted, and
\* the bridge forwards what was pushed: its event loop comes back from every
\* wait (ForwardingResumes of BridgeClient), and the loop drains all there is.
\* Nothing obliges the market to move or the account to be published.
Fairness == /\ WF_vars(MainLoop) /\ WF_vars(Service)
            /\ SF_vars(\E r \in results : HandleResult(r))

Spec == Init /\ [][Next]_vars
FairSpec == Spec /\ Fairness

-----------------------------------------------------------------------------
(***************************************************************************)
(* Safety.                                                                 *)
(*                                                                         *)
(* A trade waits for an answer only where it can use one, no two trades    *)
(* wait for the same request, and what comes back under an id that a trade *)
(* was given in the reply to its own request answers the question it asked *)
(* with it: main.rs tells an order from a close by the state the trade is  *)
(* in when the result arrives (main.rs:165), which is right only as long   *)
(* as this holds.  An id from a late reply is another request's.           *)
(***************************************************************************)
Awaits(i, op) == /\ pending_req_id[i] # NoReq
                 /\ state[i].tag = IF op = "close_position" THEN "Exiting" ELSE "EntryReady"

AnswersMatch ==
  \A i \in Waiting :
    /\ state[i].tag \in {"EntryReady", "Exiting"}
    /\ \A k \in active_trades \ {i} : pending_req_id[k] # pending_req_id[i]
    /\ pending_req_id[i] \notin unseen =>
         \A x \in jobs \union results :
           x.req_id = pending_req_id[i] => Awaits(i, x.op)

(***************************************************************************)
(* What a trade waits for is under way: one job or one result, never both, *)
(* unless the id was another request's or _push_result lost the result.    *)
(* Otherwise the trade would wait for ever, as nothing times out.          *)
(***************************************************************************)
AwaitedIsInFlight ==
  \A i \in Waiting : pending_req_id[i] \notin unseen =>
    Cardinality({x \in jobs \union results : x.req_id = pending_req_id[i]}) = 1

(***************************************************************************)
(* An open trade has its position at the broker, and no other trade has    *)
(* it, whatever the service answers, refuses, delays or loses: no close is *)
(* sent for a position before its trade starts to exit, and none for       *)
(* another trade's.  The exception is a trade that main.rs:174 opened with *)
(* the confirmation of a close, which it waited for after a late reply:    *)
(* its ticket is the closing order's.                                      *)
(***************************************************************************)
Holds(i, p) == Exposed(state[i]) /\ state[i].ticket = p

OpenTradesArePositions ==
  \A i \in active_trades :
    /\ state[i].tag = "PositionOpen" => state[i].ticket \in positions \union {NoTicket}
    /\ Exposed(state[i]) /\ state[i].ticket # NoTicket =>
         \A k \in active_trades \ {i} : ~Holds(k, state[i].ticket)

(***************************************************************************)
(* The engine's trades and the broker's positions agree: every position is *)
(* the ticket of one trade, or is on its way to the trade that ordered it  *)
(* in a result; and every trade that is open or exits has its position,    *)
(* until a close reports that it has gone.                                 *)
(***************************************************************************)
FillUnderWay(p) == \E r \in results, i \in active_trades :
                     /\ r.data.ticket = p /\ r.status = "ok" /\ r.op = "execute_order"
                     /\ pending_req_id[i] = r.req_id /\ state[i].tag = "EntryReady"
CloseReported(i) == \E r \in results : /\ r.req_id = pending_req_id[i]
                                       /\ r.op = "close_position"

EveryPositionOwned == \A p \in positions :
  \/ FillUnderWay(p)
  \/ \E i \in active_trades : Holds(i, p)

HeldUntilReported == \A i \in active_trades : Exposed(state[i]) =>
  state[i].ticket \in positions \/ CloseReported(i)

BooksMatchBroker == EveryPositionOwned /\ HeldUntilReported /\ OpenTradesArePositions

(***************************************************************************)
(* No order is sent twice: the orders in flight are no more than the       *)
(* trades that have one to send (trade_manager.rs:128, "If an async order  *)
(* is already in flight, do NOT re-send").                                 *)
(***************************************************************************)
Entering == {i \in active_trades : state[i].tag = "EntryReady"}

NoResend == Cardinality({j \in jobs : j.op = "execute_order"}) <= Cardinality(Entering)

(***************************************************************************)
(* The guard of trade_manager.rs:128 does that much whatever the service   *)
(* answers to other requests: of the orders whose id got to the trade that *)
(* sent them, none is sent twice, neither after a late reply nor after a   *)
(* lost result.                                                            *)
(***************************************************************************)
NoResendOnceTold ==
  Cardinality({j \in jobs : j.op = "execute_order" /\ j.req_id \notin unseen})
    <= Cardinality(Entering)

(***************************************************************************)
(* How far the global limit may be exceeded: the scan checks it once and   *)
(* then spawns for every symbol, and can_enter counts the positions of the *)
(* last account message.                                                   *)
(***************************************************************************)
ParallelBound == GlobalCount <= MaxParallel - 1 + Cardinality(Symbols)

(***************************************************************************)
(* No trade is closed at a loss (trade_manager.rs:307) unless the price is *)
(* three of the trade's own stops away from its entry, whatever a pip of   *)
(* the symbol is worth; and the profit or loss that decided the exit is    *)
(* still the one on the books when the cleanup adds it up, however long    *)
(* the close and the cooldown took.                                        *)
(***************************************************************************)
Distance(run)    == GreatestOf(run.price - run.entry_price, run.entry_price - run.price)
PaidOrStopped(i) == LET run == active_run[i] IN
  run.unrealized_pnl < 0 => Distance(run) >= 3 * run.sl_pips
ClosedTradesArePaid ==
  \A i \in active_trades : state[i].tag \in {"Exiting", "Cooldown"} => PaidOrStopped(i)

(***************************************************************************)
(* No entry passes the filters once the realized loss is beyond the limit  *)
(* of the current balance, though the kill switch looked at an earlier     *)
(* balance in the same turn.                                               *)
(***************************************************************************)
Enters(i) == state[i].tag = "Qualifying" /\ state'[i].tag = "EntryReady"

NoEntryPastLimit == [][\A i \in TradeIds : Enters(i) => ~DailyLossHit]_vars

-----------------------------------------------------------------------------
(***************************************************************************)
(* Each trade lives the life cycle of the state machine and no other: a    *)
(* trade id is an Idle machine before its trade is spawned and after it    *)
(* is cleaned up.                                                          *)
(***************************************************************************)
Size(s) == CASE s.tag = "PositionOpen" -> s.current_lots
             [] s.tag = "Exiting"      -> s.lots
             [] OTHER                  -> 0

LifeCycle(i) == INSTANCE TradingStateMachine WITH
  current   <- state[i],
  filled    <- Size(state[i]),
  LotSizes  <- {InitialLots(a.equity) : a \in Accounts \union {DefaultAccount}},
  StopSizes <- {StopPips(s, q, t) : s \in Symbols, q \in Quotes, t \in SignalType},
  Prices    <- FillPrices,
  Tickets   <- Tickets \union {NoTicket},
  MaxLots   <- 0

TradesFollowLifeCycle ==
  /\ \A i \in TradeIds : LifeCycle(i)!Init
  /\ [][\A i \in TradeIds : LifeCycle(i)!Next \/ UNCHANGED LifeCycle(i)!vars]_vars

-----------------------------------------------------------------------------
(***************************************************************************)
(* Liveness, up to a halt by the kill switch.                              *)
(*                                                                         *)
(* Every order comes to an end, and a trade that starts to exit is taken   *)
(* for closed, serves its cooldown and is booked; unless it comes to wait  *)
(* for a result that was lost or for another request's, as no deadline     *)
(* ends a wait.                                                            *)
(***************************************************************************)
Halted == pc = "halted"
Excused(i) == Halted \/ pending_req_id[i] \in unseen

EntriesResolve ==
  \A i \in TradeIds : state[i].tag = "EntryReady" ~> (state[i].tag # "EntryReady" \/ Excused(i))

ExitsComplete ==
  \A i \in TradeIds : state[i].tag = "Exiting" ~> (i \notin active_trades \/ Excused(i))

(***************************************************************************)
(* A loss beyond the limit that stands when a turn has been booked stops   *)
(* the loop: nothing between the booking and the next check takes it back. *)
(***************************************************************************)
LossStopsTrading == (pc = "sleep" /\ DailyLossHit) ~> Halted

=============================================================================
