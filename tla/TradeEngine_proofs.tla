-------------------------- MODULE TradeEngine_proofs --------------------------
(***************************************************************************)
(* Proofs about the trading loop, for every number of trades, every set of *)
(* symbols, quotes, accounts, tickets and request ids, and every way the   *)
(* service may answer.                                                     *)
(***************************************************************************)
EXTENDS TradeEngine, TradingStates_proofs, FiniteSetTheorems, TLAPS

(***************************************************************************)
(* The type invariant is not inductive: the stall clock of a run is read   *)
(* off the limits of its trade's symbol, so that the proof needs to know   *)
(* that only trades in the Vec have a run, that they have a symbol, and    *)
(* that the management pass visits only them.                              *)
(***************************************************************************)
Bookkeeping ==
  /\ unmanaged \subseteq active_trades
  /\ pc # "manage" => unmanaged = {}
  /\ \A i \in active_trades : symbol[i] \in Symbols
  /\ \A i \in TradeIds \ active_trades : active_run[i] = NoRun
  /\ IsFiniteSet(positions)

IInv == TypeOK /\ Bookkeeping

-----------------------------------------------------------------------------
\* What the run and the sizing of a trade are made of has its type.
LEMMA RunsType ==
  /\ NoRun \in Run
  /\ \A entry_price, lots, sl_pips \in Int : NewRun(entry_price, lots, sl_pips) \in Run
  /\ \A run \in Run, price, pnl \in Int : UpdatePrice(run, price, pnl) \in Run
<1>1. /\ NoRun \in Run
      /\ \A entry_price, lots, sl_pips \in Int : NewRun(entry_price, lots, sl_pips) \in Run
  BY DEF NoRun, NewRun, Run
<1>2. ASSUME NEW run \in Run, NEW price \in Int, NEW pnl \in Int
      PROVE  UpdatePrice(run, price, pnl) \in Run
  <2>1. GreatestOf(run.peak_profit, pnl) \in Int
    BY DEF Run, GreatestOf
  <2>2. (IF pnl # run.unrealized_pnl THEN 0 ELSE run.idle_ms) \in Nat
    BY DEF Run
  <2>. QED BY <2>1, <2>2 DEF UpdatePrice, Run
<1>. QED BY <1>1, <1>2

\* What a distance of so many pips is worth is an integer.
LEMMA ValueType ==
  \A quote \in Quote : \A pips, lots \in Int : Value(quote, pips, lots) \in Int
<1>. SUFFICES ASSUME NEW quote \in Quote, NEW pips \in Int, NEW lots \in Int
              PROVE  Value(quote, pips, lots) \in Int
  OBVIOUS
<1>1. quote.points \in Int /\ quote.tick_value \in Int
  BY DEF Quote
<1>2. \A a, b \in Int : a * b \in Int
  OBVIOUS
<1>3. pips * quote.points * quote.tick_value * lots \in Int
  BY <1>1, <1>2
<1>4. 10 * pips * lots \in Int
  BY <1>2
<1>. QED BY <1>3, <1>4 DEF Value

LEMMA SizingTypes ==
  /\ \A equity \in Int : InitialLots(equity) \in Int
  /\ \A s, type : \A quote \in Quote : StopPips(s, quote, type) \in Int
<1>1. ASSUME NEW equity \in Int PROVE InitialLots(equity) \in Int
  <2>1. MaxPositionLots \in Int /\ LotPer1000 \in Int
    BY RiskAssumption
  <2>2. (equity * LotPer1000 + 50000) \div 100000 \in Int
    BY <2>1
  <2>. QED BY <2>1, <2>2 DEF InitialLots, GreatestOf, LeastOf
<1>2. ASSUME NEW s, NEW type, NEW quote \in Quote
      PROVE  StopPips(s, quote, type) \in Int
  BY DEF StopPips, Quote, GreatestOf
<1>. QED BY <1>1, <1>2
-----------------------------------------------------------------------------
LEMMA InvInit == Init => IInv
<1>. SUFFICES ASSUME Init PROVE IInv
  OBVIOUS
<1>1. \A a \in Accounts \union {DefaultAccount} : a.balance \in Int /\ a.equity \in Int
  BY EngineAssumption DEF Funds
<1>2. Idle \in TradingState /\ NoRun \in Run
  BY RunsType DEF Idle, TradingState, IdleState
<1>3. account \in AccountState
  BY <1>1 DEF Init, AccountState
<1>4. MaxTrades \in Nat
  BY EngineAssumption
<1>5. /\ kill_switch \in BOOLEAN
      /\ trade_id_counter \in 0..MaxTrades
      /\ IsFiniteSet(positions)
  <2>1. kill_switch \in BOOLEAN
    BY Zenon DEF Init
  <2>2. trade_id_counter \in 0..MaxTrades
    BY <1>4 DEF Init
  <2>3. IsFiniteSet(positions)
    BY FS_EmptySet DEF Init
  <2>. QED BY <2>1, <2>2, <2>3
<1>6. /\ symbol \in [TradeIds -> Symbols \union {NoSymbol}]
      /\ state \in [TradeIds -> TradingState]
      /\ active_run \in [TradeIds -> Run]
      /\ pending_req_id \in [TradeIds -> ReqIds \union {NoReq}]
      /\ tick \in [Symbols -> Quotes \union {NoQuote}]
      /\ execution_cooldowns \in [Symbols -> Nat]
  BY <1>2 DEF Init
<1>7. TypeOK
  BY <1>3, <1>5, <1>6 DEF Init, TypeOK
<1>8. Bookkeeping
  BY <1>5 DEF Init, Bookkeeping
<1>. QED BY <1>7, <1>8 DEF IInv

\* The steps of the loop that leave the trades alone.
LEMMA InvControl ==
  ASSUME IInv,
         CheckKillSwitch \/ StartScan \/ (\E s \in Symbols : SkipSymbol(s))
           \/ StartManage \/ StartCleanup \/ EndTurn
           \/ (\E i \in unmanaged : AwaitFill(i) \/ AwaitClose(i) \/ SkipIdle(i))
  PROVE  IInv'
<1>. USE DEF IInv, TypeOK, Bookkeeping, loopVars, tradeVars, marketVars, riskVars,
             serviceVars
<1>1. CASE CheckKillSwitch
  <2>1. kill_switch' \in BOOLEAN
    BY <1>1 DEF CheckKillSwitch
  <2>. QED BY <1>1, <2>1 DEF CheckKillSwitch
<1>2. CASE StartScan
  BY <1>2 DEF StartScan
<1>3. CASE \E s \in Symbols : SkipSymbol(s)
  BY <1>3 DEF SkipSymbol, ForgetReplies
<1>4. CASE StartManage
  BY <1>4 DEF StartManage
<1>5. CASE StartCleanup
  BY <1>5 DEF StartCleanup
<1>6. CASE EndTurn
  BY <1>6 DEF EndTurn
<1>7. CASE \E i \in unmanaged : AwaitFill(i) \/ AwaitClose(i) \/ SkipIdle(i)
  BY <1>7 DEF AwaitFill, AwaitClose, SkipIdle, Turn
<1>. QED BY <1>1, <1>2, <1>3, <1>4, <1>5, <1>6, <1>7

\* The market, the account and the results that come in.
LEMMA InvMessages ==
  ASSUME IInv, DrainMessages \/ PublishAccount
  PROVE  IInv'
<1>. USE DEF IInv, TypeOK, Bookkeeping, loopVars, tradeVars, marketVars, riskVars,
             serviceVars
<1>1. CASE DrainMessages
  <2>1. \A m \in account_msg : DailyLimit(m.balance) \in Int
    BY RiskAssumption DEF AccountMsg, DailyLimit
  <2>2. account' \in AccountState
    BY <1>1, <2>1 DEF DrainMessages, AccountState, AccountMsg
  <2>. QED BY <1>1, <2>2 DEF DrainMessages
<1>2. CASE PublishAccount
  <2>1. Cardinality(positions) \in Nat
    BY FS_CardinalityType
  <2>2. account_msg' \subseteq AccountMsg
    BY <1>2, <2>1, EngineAssumption DEF PublishAccount, AccountMsg, Funds
  <2>. QED BY <1>2, <2>2 DEF PublishAccount
<1>. QED BY <1>1, <1>2

-----------------------------------------------------------------------------
\* A result is taken by the trade that waits for it.
LEMMA InvResult ==
  ASSUME IInv, NEW r \in results, HandleResult(r)
  PROVE  IInv'
<1>. USE DEF IInv, TypeOK, Bookkeeping, loopVars, marketVars
<1>1. \A s \in TradingState : AfterResult(s, r) \in TradingState
  <2>. SUFFICES ASSUME NEW s \in TradingState PROVE AfterResult(s, r) \in TradingState
    OBVIOUS
  <2>1. r.data.price \in Int /\ r.data.ticket \in Nat
    BY DEF Result, Fill
  <2>. QED BY <2>1, EventsType DEF AfterResult
<1>2. state' \in [TradeIds -> TradingState]
  <2>1. \/ state' = state
        \/ \E i \in TradeIds : state' = [state EXCEPT ![i] = AfterResult(@, r)]
    BY DEF HandleResult
  <2>. QED BY <1>1, <2>1
<1>3. pending_req_id' \in [TradeIds -> ReqIds \union {NoReq}]
  BY DEF HandleResult, ClearPending
<1>4. execution_cooldowns' \in [Symbols -> Nat]
  BY EngineAssumption DEF HandleResult
<1>5. results' \subseteq Result /\ unseen' \subseteq ReqIds
  BY DEF HandleResult
<1>. QED BY <1>2, <1>3, <1>4, <1>5 DEF HandleResult

\* The scan spawns a Qualifying trade under a fresh id.
LEMMA InvSpawn ==
  ASSUME IInv, NEW s \in Symbols, Spawn(s)
  PROVE  IInv'
<1>. USE DEF IInv, TypeOK, Bookkeeping, marketVars, riskVars, serviceVars
<1>. DEFINE id == trade_id_counter + 1
<1>1. id \in TradeIds /\ id \in 0..MaxTrades
  BY EngineAssumption DEF Spawn, TradeIds
<1>2. PICK signal \in Signals :
         state' = [state EXCEPT ![id] = SignalDetected(@, s, signal.dir, signal.type)]
  BY DEF Spawn
<1>3. signal.dir \in Direction /\ signal.type \in SignalType
  BY EngineAssumption DEF Signal
<1>4. state' \in [TradeIds -> TradingState]
  BY <1>1, <1>2, <1>3, EventsType
<1>5. /\ trade_id_counter' = id
      /\ active_trades' = active_trades \union {id}
      /\ symbol' = [symbol EXCEPT ![id] = s]
  BY DEF Spawn
<1>6. \A i \in active_trades' : symbol'[i] \in Symbols
  BY <1>1, <1>5
<1>. QED BY <1>1, <1>4, <1>5, <1>6 DEF Spawn, ForgetReplies

-----------------------------------------------------------------------------
\* The ids and tickets that are drawn, and the id that a reply carries.
LEMMA FreshTypes ==
  /\ FreshReqs \subseteq ReqIds
  /\ FreshTickets \subseteq Tickets
  /\ Tickets \subseteq Nat
BY EngineAssumption DEF FreshReqs, FreshTickets

LEMMA RelayType ==
  \A kind : \A id \in ReqIds :
    Relay(RepMessage(kind, id)).req_id \in ReqIds \union {NoReq}
BY DEF Relay, RepMessage

\* The request that a reply answers, and what is owed and unseen after it.
LEMMA ReplyTypes ==
  ASSUME IInv, NEW req \in ReqIds, NEW kind, NEW id \in Answered(kind, req),
         Owe(kind, req, id), Note(kind, req, id)
  PROVE  id \in ReqIds /\ owed' \subseteq ReqIds /\ unseen' \subseteq ReqIds
<1>1. owed \subseteq ReqIds /\ unseen \subseteq ReqIds
  BY DEF IInv, TypeOK
<1>2. id \in ReqIds
  BY <1>1 DEF Answered
<1>3. owed' \subseteq owed \union {req}
  BY DEF Owe
<1>4. unseen' \subseteq unseen \union {req, id}
  BY DEF Note
<1>. QED BY <1>1, <1>2, <1>3, <1>4

\* The management of one trade.  What every such step has in common: it is
\* done in the management pass, and only the trade's own state may change.
LEMMA InvManage ==
  ASSUME IInv, NEW i \in unmanaged,
         Qualify(i) \/ SubmitOrder(i) \/ UpdateOpen(i) \/ SubmitClose(i)
           \/ FinishCooldown(i)
  PROVE  IInv'
<1>. USE DEF IInv, TypeOK, Bookkeeping, marketVars, riskVars, serviceVars, Turn
<1>0. i \in active_trades /\ i \in TradeIds
  OBVIOUS
<1>1. CASE Qualify(i)
  <2>1. InitialLots(account.equity) \in Int
    BY SizingTypes DEF AccountState
  <2>2. \A type : StopPips(symbol[i], tick[symbol[i]], type) \in Int
    <3>1. tick[symbol[i]] \in Quote
      BY <1>0, EngineAssumption DEF NoQuote, Quote
    <3>. QED BY <3>1, SizingTypes
  <2>3. state' \in [TradeIds -> TradingState]
    BY <1>0, <1>1, <2>1, <2>2, EventsType DEF Qualify
  <2>. QED BY <1>1, <2>3 DEF Qualify
<1>2. CASE UpdateOpen(i)
  <2>. DEFINE s    == state[i]
              now  == tick[symbol[i]]
              seen == IF active_run[i] = NoRun
                      THEN NewRun(s.entry_price, s.current_lots, s.sl_pips)
                      ELSE active_run[i]
              pips == Pips(s, now.price)
              run  == UpdatePrice(seen, now.price, Value(now, pips, s.current_lots))
  <2>1. s \in PositionState
    BY <1>0, <1>2 DEF UpdateOpen, TradingState, IdleState, QualifyingState,
                      EntryReadyState, ExitingState, CooldownState
  <2>2. s.current_lots \in Int /\ s.entry_price \in Int /\ s.sl_pips \in Int
    BY <2>1 DEF PositionState
  <2>3. seen \in Run
    BY <1>0, <2>2, RunsType
  <2>4. now \in Quote /\ now.price \in Int
    BY <1>0, EngineAssumption DEF NoQuote, Quote
  <2>5. pips \in Int
    BY <2>2, <2>4 DEF Pips
  <2>6. Value(now, pips, s.current_lots) \in Int
    BY <2>2, <2>4, <2>5, ValueType
  <2>7. run \in Run
    BY <2>3, <2>4, <2>6, RunsType
  <2>8. ExitDecision(s, run, pips) \in TradingState
    BY <1>0, EventsType DEF ExitDecision, ExitEvents
  <2>9. \/ active_run' = [active_run EXCEPT ![i] = seen] /\ UNCHANGED state
        \/ /\ active_run' = [active_run EXCEPT ![i] = run]
           /\ state' = [state EXCEPT ![i] = ExitDecision(s, run, pips)]
    BY <1>2 DEF UpdateOpen
  <2>. HIDE DEF seen, pips, run
  <2>10. active_run' \in [TradeIds -> Run] /\ state' \in [TradeIds -> TradingState]
    BY <1>0, <2>3, <2>7, <2>8, <2>9
  <2>11. \A k \in TradeIds \ active_trades : active_run'[k] = NoRun
    BY <1>0, <2>9
  <2>. QED BY <1>2, <2>10, <2>11 DEF UpdateOpen
<1>3. CASE FinishCooldown(i)
  <2>1. state' \in [TradeIds -> TradingState]
    BY <1>0, <1>3, EventsType DEF FinishCooldown
  <2>. QED BY <1>3, <2>1 DEF FinishCooldown
<1>4. CASE SubmitOrder(i)
  <2>1. PICK req \in FreshReqs, kind \in Replies, price \in FillPrices,
             ticket \in FreshTickets \union {NoTicket} :
               \E id \in Answered(kind, req) : SendOrder(i, req, kind, id, price, ticket)
    BY <1>4 DEF SubmitOrder
  <2>. PICK id \in Answered(kind, req) : SendOrder(i, req, kind, id, price, ticket)
    BY <2>1
  <2>2. /\ req \in ReqIds /\ price \in Int /\ ticket \in Nat
        /\ FreshTickets \subseteq Tickets
    BY FreshTypes, EngineAssumption DEF FillPrices, NoTicket
  <2>9. id \in ReqIds /\ owed' \subseteq ReqIds /\ unseen' \subseteq ReqIds
    BY <2>2, ReplyTypes DEF SendOrder
  <2>3. jobs' \subseteq Job
    BY <2>2 DEF SendOrder, Accepts, Job, NoTicket
  <2>4. positions' \subseteq Tickets /\ IsFiniteSet(positions')
    <3>1. \/ positions' = positions
          \/ ticket \in Tickets /\ positions' = positions \union {ticket}
      BY <2>2 DEF SendOrder, IsFresh
    <3>. QED BY <3>1, FS_AddElement
  <2>5. pending_req_id' \in [TradeIds -> ReqIds \union {NoReq}]
    BY <1>0, <2>9, RelayType DEF SendOrder
  <2>6. state' \in [TradeIds -> TradingState]
    <3>1. \A resp : AfterReply(state[i], resp, price, ticket) \in TradingState
      BY <1>0, <2>2, EventsType DEF AfterReply
    <3>. QED BY <1>0, <3>1 DEF SendOrder
  <2>7. execution_cooldowns' \in [Symbols -> Nat]
    BY EngineAssumption DEF SendOrder
  <2>8. unmanaged' \subseteq unmanaged
    BY <1>4 DEF SubmitOrder
  <2>. QED BY <1>4, <2>3, <2>4, <2>5, <2>6, <2>7, <2>8, <2>9 DEF SubmitOrder
<1>5. CASE SubmitClose(i)
  <2>1. PICK req \in FreshReqs, kind \in Replies :
               \E id \in Answered(kind, req) : SendClose(i, req, kind, id)
    BY <1>5 DEF SubmitClose
  <2>. PICK id \in Answered(kind, req) : SendClose(i, req, kind, id)
    BY <2>1
  <2>2. req \in ReqIds
    BY FreshTypes
  <2>7. id \in ReqIds /\ owed' \subseteq ReqIds /\ unseen' \subseteq ReqIds
    BY <2>2, ReplyTypes DEF SendClose
  <2>3. jobs' \subseteq Job
    <3>1. state[i].ticket \in Nat
      BY <1>0, <1>5 DEF SubmitClose, TradingState, IdleState, QualifyingState,
                        EntryReadyState, PositionState, ExitingState, CooldownState
    <3>. QED BY <2>2, <3>1 DEF SendClose, Accepts, Job
  <2>4. positions' \subseteq positions /\ IsFiniteSet(positions')
    <3>1. positions' \subseteq positions
      BY DEF SendClose
    <3>. QED BY <3>1, FS_Subset
  <2>5. pending_req_id' \in [TradeIds -> ReqIds \union {NoReq}]
    BY <1>0, <2>7, RelayType DEF SendClose
  <2>6. state' \in [TradeIds -> TradingState]
    BY <1>0, EventsType DEF SendClose
  <2>. QED BY <1>5, <2>3, <2>4, <2>5, <2>6, <2>7 DEF SubmitClose
<1>. QED BY <1>1, <1>2, <1>3, <1>4, <1>5

-----------------------------------------------------------------------------
\* Cleaning up, sleeping, and the service.
LEMMA InvCleanUp ==
  ASSUME IInv, NEW i \in active_trades, CleanUp(i)
  PROVE  IInv'
<1>. USE DEF IInv, TypeOK, Bookkeeping, loopVars, marketVars, serviceVars
<1>1. active_run[i].unrealized_pnl \in Int
  BY DEF Run
<1>2. active_run' \in [TradeIds -> Run] /\ active_run'[i] = NoRun
  BY RunsType DEF CleanUp
<1>. QED BY <1>1, <1>2 DEF CleanUp

LEMMA InvSleep ==
  ASSUME IInv, Sleep
  PROVE  IInv'
<1>. USE DEF IInv, TypeOK, Bookkeeping, marketVars, serviceVars
<1>1. PICK d \in TimeSteps :
        /\ state' = [i \in TradeIds |-> Elapse(state[i], d)]
        /\ active_run' = [i \in TradeIds |->
             IF active_run[i] = NoRun THEN NoRun
             ELSE [active_run[i] EXCEPT
                     !.idle_ms = LeastOf(@ + d, StallTimeoutMs[symbol[i]] + 1)]]
        /\ execution_cooldowns' =
             [s \in Symbols |-> Remaining(execution_cooldowns[s], d)]
  BY DEF Sleep
<1>2. d \in Nat
  BY EngineAssumption
<1>3. state' \in [TradeIds -> TradingState]
  BY <1>1, <1>2, EventsType
<1>4. active_run' \in [TradeIds -> Run]
  <2>. SUFFICES ASSUME NEW i \in TradeIds, active_run[i] # NoRun
                PROVE  [active_run[i] EXCEPT
                          !.idle_ms = LeastOf(@ + d, StallTimeoutMs[symbol[i]] + 1)] \in Run
    BY <1>1, RunsType
  <2>1. i \in active_trades /\ symbol[i] \in Symbols
    OBVIOUS
  <2>2. StallTimeoutMs[symbol[i]] \in Nat
    BY <2>1, RiskAssumption
  <2>3. active_run[i] \in Run /\ active_run[i].idle_ms \in Nat
    BY DEF Run
  <2>4. LeastOf(active_run[i].idle_ms + d, StallTimeoutMs[symbol[i]] + 1) \in Nat
    BY <1>2, <2>2, <2>3 DEF LeastOf
  <2>. QED BY ONLY <2>3, <2>4 DEF Run
<1>5. execution_cooldowns' \in [Symbols -> Nat]
  BY <1>1, <1>2 DEF Remaining
<1>6. \A i \in TradeIds \ active_trades : active_run'[i] = NoRun
  BY <1>1
<1>. QED BY <1>3, <1>4, <1>5, <1>6 DEF Sleep

LEMMA InvService ==
  ASSUME IInv, NEW j \in jobs, ExecuteOrder(j) \/ ClosePosition(j)
  PROVE  IInv'
<1>. USE DEF IInv, TypeOK, Bookkeeping, loopVars, tradeVars, marketVars, riskVars
<1>0. /\ j.req_id \in ReqIds
      /\ j.op \in {"execute_order", "close_position"}
  BY DEF Job
<1>1. \A status \in {"ok", "error"}, shape \in {"fill", "bare", "none"}, data \in Fill :
        Push(j, status, shape, data) => results' \subseteq Result /\ unseen' \subseteq ReqIds
  BY <1>0 DEF Push, Result
<1>2. NoFill \in Fill
  BY DEF NoFill, Fill, NoTicket
<1>3. CASE ExecuteOrder(j)
  <2>1. \A price \in FillPrices, ticket \in FreshTickets :
          [price |-> price, ticket |-> ticket] \in Fill
    <3>1. FillPrices \subseteq Int /\ FreshTickets \subseteq Nat
      BY FreshTypes, EngineAssumption DEF FillPrices
    <3>. QED BY <3>1 DEF Fill
  <2>2. results' \subseteq Result /\ unseen' \subseteq ReqIds
    BY <1>1, <1>2, <1>3, <2>1, EngineAssumption DEF ExecuteOrder
  <2>3. positions' \subseteq Tickets /\ IsFiniteSet(positions')
    <3>1. \/ positions' = positions
          \/ \E ticket \in Tickets : positions' = positions \union {ticket}
      BY <1>3, FreshTypes DEF ExecuteOrder
    <3>. QED BY <3>1, FS_AddElement
  <2>. QED BY <1>3, <2>2, <2>3 DEF ExecuteOrder
<1>4. CASE ClosePosition(j)
  <2>1. results' \subseteq Result /\ unseen' \subseteq ReqIds
    <3>1. \A price \in FillPrices : [price |-> price, ticket |-> NoTicket] \in Fill
      BY EngineAssumption DEF FillPrices, Fill, NoTicket
    <3>. QED BY <1>1, <1>2, <1>4, <3>1, EngineAssumption DEF ClosePosition
  <2>2. positions' \subseteq positions /\ IsFiniteSet(positions')
    <3>1. positions' \subseteq positions
      BY <1>4 DEF ClosePosition
    <3>. QED BY <3>1, FS_Subset
  <2>. QED BY <1>4, <2>1, <2>2 DEF ClosePosition
<1>. QED BY <1>3, <1>4

-----------------------------------------------------------------------------
LEMMA InvStep == IInv /\ [Next]_vars => IInv'
<1>. SUFFICES ASSUME IInv, [Next]_vars PROVE IInv'
  OBVIOUS
<1>1. CASE MainLoop
  BY <1>1, InvControl, InvMessages, InvResult, InvSpawn, InvManage, InvCleanUp, InvSleep
  DEF MainLoop, ManageTrade
<1>2. CASE Service
  BY <1>2, InvService DEF Service
<1>3. CASE PublishAccount
  BY <1>3, InvMessages
<1>4. CASE UNCHANGED vars
  BY <1>4 DEF vars, loopVars, tradeVars, marketVars, riskVars, serviceVars, IInv,
              TypeOK, Bookkeeping
<1>. QED BY <1>1, <1>2, <1>3, <1>4 DEF Next

\* Type correctness of the engine, whatever the market, the broker and the
\* service do.
THEOREM TypeCorrect == Spec => []TypeOK
<1>1. IInv => TypeOK
  BY DEF IInv
<1>. QED BY <1>1, InvInit, InvStep, PTL DEF Spec

-----------------------------------------------------------------------------
(***************************************************************************)
(* What a step does to the state of one trade: nothing, unless the step is *)
(* about that trade or lets time pass.                                     *)
(***************************************************************************)
TradeStep(i) ==
  \/ state'[i] = state[i]
  \/ \E d \in TimeSteps : Sleep /\ state'[i] = Elapse(state[i], d)
  \/ \E s \in Symbols, g \in Signals :
       /\ Spawn(s) /\ i = trade_id_counter + 1
       /\ state'[i] = SignalDetected(state[i], s, g.dir, g.type)
  \/ \E r \in results :
       /\ HandleResult(r) /\ i \in active_trades /\ pending_req_id[i] = r.req_id
       /\ state'[i] = AfterResult(state[i], r)
  \/ /\ i \in unmanaged
     /\ \/ Qualify(i) \/ SubmitOrder(i) \/ SubmitClose(i) \/ UpdateOpen(i)
        \/ FinishCooldown(i)

LEMMA TradeSteps ==
  ASSUME IInv, [Next]_vars, NEW i \in TradeIds
  PROVE  TradeStep(i)
<1>. USE DEF IInv, TypeOK, Bookkeeping
<1>1. CASE \/ CheckKillSwitch \/ DrainMessages \/ StartScan \/ StartManage
           \/ StartCleanup \/ EndTurn \/ PublishAccount \/ UNCHANGED vars
  <2>1. UNCHANGED state
    BY <1>1 DEF CheckKillSwitch, DrainMessages, StartScan, StartManage,
       StartCleanup, EndTurn, PublishAccount, vars, tradeVars
  <2>. QED BY <2>1 DEF TradeStep
<1>2. CASE Sleep
  <2>1. \E d \in TimeSteps : state'[i] = Elapse(state[i], d)
    BY <1>2 DEF Sleep
  <2>. QED BY <1>2, <2>1 DEF TradeStep
<1>3. ASSUME NEW r \in results, HandleResult(r)
      PROVE  TradeStep(i)
  <2>1. \/ state'[i] = state[i]
        \/ /\ i \in active_trades /\ pending_req_id[i] = r.req_id
           /\ state'[i] = AfterResult(state[i], r)
    BY <1>3 DEF HandleResult
  <2>. QED BY <1>3, <2>1 DEF TradeStep
<1>4. ASSUME NEW s \in Symbols, Spawn(s)
      PROVE  TradeStep(i)
  <2>1. PICK g \in Signals :
          state' = [state EXCEPT ![trade_id_counter + 1] =
                      SignalDetected(@, s, g.dir, g.type)]
    BY <1>4 DEF Spawn
  <2>2. CASE i = trade_id_counter + 1
    <3>1. state'[i] = SignalDetected(state[i], s, g.dir, g.type)
      BY <2>1, <2>2
    <3>. QED BY <1>4, <2>2, <3>1 DEF TradeStep
  <2>3. CASE i # trade_id_counter + 1
    <3>1. state'[i] = state[i]
      BY <2>1, <2>3
    <3>. QED BY <3>1 DEF TradeStep
  <2>. QED BY <2>2, <2>3
<1>5. ASSUME NEW s \in Symbols, SkipSymbol(s)
      PROVE  TradeStep(i)
  BY <1>5 DEF SkipSymbol, tradeVars, TradeStep
<1>6. ASSUME NEW k \in unmanaged, ManageTrade(k)
      PROVE  TradeStep(i)
  <2>1. CASE SubmitOrder(k) /\ k # i
    <3>1. PICK req, kind, id, price, ticket : SendOrder(k, req, kind, id, price, ticket)
      BY <2>1 DEF SubmitOrder
    <3>. QED BY <2>1, <3>1 DEF SendOrder, TradeStep
  <2>2. CASE SubmitClose(k) /\ k # i
    <3>1. PICK req, kind, id : SendClose(k, req, kind, id)
      BY <2>2 DEF SubmitClose
    <3>. QED BY <2>2, <3>1 DEF SendClose, TradeStep
  <2>3. CASE (Qualify(k) \/ UpdateOpen(k) \/ FinishCooldown(k)) /\ k # i
    <3>1. state'[i] = state[i]
      BY <2>3 DEF Qualify, UpdateOpen, FinishCooldown
    <3>. QED BY <3>1 DEF TradeStep
  <2>4. CASE AwaitFill(k) \/ AwaitClose(k) \/ SkipIdle(k)
    BY <2>4 DEF AwaitFill, AwaitClose, SkipIdle, tradeVars, TradeStep
  <2>5. CASE k = i
    BY <1>6, <2>4, <2>5 DEF ManageTrade, TradeStep
  <2>. QED BY <1>6, <2>1, <2>2, <2>3, <2>4, <2>5 DEF ManageTrade
<1>7. ASSUME NEW k \in active_trades, CleanUp(k)
      PROVE  TradeStep(i)
  BY <1>7 DEF CleanUp, TradeStep
<1>8. ASSUME NEW j \in jobs, ExecuteOrder(j) \/ ClosePosition(j)
      PROVE  TradeStep(i)
  BY <1>8 DEF ExecuteOrder, ClosePosition, tradeVars, TradeStep
<1>. QED
  BY <1>1, <1>2, <1>3, <1>4, <1>5, <1>6, <1>7, <1>8 DEF Next, MainLoop, Service
-----------------------------------------------------------------------------
(***************************************************************************)
(* What a step does to the requests, their jobs, their results and the     *)
(* trades that wait for them: nothing, unless it sends a request, executes *)
(* a job, takes a result or drops a trade.                                 *)
(***************************************************************************)
QueueStep ==
  \/ /\ UNCHANGED <<pending_req_id, jobs, results, positions, unseen>>
     /\ owed' \subseteq owed
     /\ active_trades \subseteq active_trades'
  \/ \E i \in active_trades : CleanUp(i)
  \/ \E r \in results : HandleResult(r)
  \/ \E i \in unmanaged : SubmitOrder(i) \/ SubmitClose(i)
  \/ \E j \in jobs : ExecuteOrder(j) \/ ClosePosition(j)

LEMMA QueueSteps == ASSUME [Next]_vars PROVE QueueStep
<1>. USE DEF QueueStep, serviceVars, tradeVars
<1>1. CASE \/ CheckKillSwitch \/ DrainMessages \/ StartScan \/ StartManage
           \/ StartCleanup \/ EndTurn \/ PublishAccount \/ Sleep \/ UNCHANGED vars
           \/ \E s \in Symbols : Spawn(s) \/ SkipSymbol(s)
           \/ \E i \in active_trades : CleanUp(i)
  BY <1>1 DEF CheckKillSwitch, DrainMessages, StartScan, StartManage, StartCleanup,
     EndTurn, PublishAccount, Sleep, vars, Spawn, SkipSymbol, CleanUp, ForgetReplies
<1>2. CASE \E r \in results : HandleResult(r)
  BY <1>2
<1>3. ASSUME NEW i \in unmanaged, ManageTrade(i)
      PROVE  QueueStep
  BY <1>3 DEF ManageTrade, Qualify, AwaitFill, UpdateOpen, AwaitClose, FinishCooldown,
     SkipIdle
<1>4. CASE Service
  BY <1>4 DEF Service
<1>. QED BY <1>1, <1>2, <1>3, <1>4 DEF Next, MainLoop

\* A fresh id is nobody's.
LEMMA FreshIsNew ==
  ASSUME NEW req \in FreshReqs
  PROVE  /\ req \in ReqIds /\ req # NoReq /\ req \notin owed
         /\ \A i \in TradeIds : pending_req_id[i] # req
         /\ \A x \in jobs \union results : x.req_id # req
BY EngineAssumption DEF FreshReqs

(***************************************************************************)
(* A request that is sent.  The trade comes to wait for it, and then its   *)
(* job is at the service; or for another request, whose reply was still    *)
(* owed; or for nothing, and then the trade has no id of the job, if there *)
(* is one.                                                                 *)
(***************************************************************************)
SentJob(req, op, ticket) == [req_id |-> req, op |-> op, ticket |-> ticket]

Sent(i, req, op, ticket) ==
  /\ jobs' \in {jobs, jobs \union {SentJob(req, op, ticket)}}
  /\ UNCHANGED <<results, active_trades>>
  /\ owed' \subseteq owed \union {req}
  /\ unseen \ {req} \subseteq unseen'
  /\ \A k \in TradeIds \ {i} : /\ pending_req_id'[k] = pending_req_id[k]
                               /\ state'[k] = state[k]
  /\ \/ /\ pending_req_id'[i] = NoReq
        /\ jobs' = jobs \/ req \in unseen'
     \/ /\ pending_req_id'[i] = req /\ req \notin owed'
        /\ SentJob(req, op, ticket) \in jobs'
        /\ state'[i] = state[i]
     \/ /\ pending_req_id'[i] \in owed \ owed' /\ pending_req_id'[i] \in unseen'
        /\ req \in unseen'
        /\ state'[i] = state[i]

\* The first four conjuncts, and the last, for every kind of reply.
LEMMA ReplyEffect ==
  ASSUME NEW req \in FreshReqs, NEW op, NEW ticket, NEW kind \in Replies,
         NEW id \in Answered(kind, req),
         Accepts(kind, SentJob(req, op, ticket)), Owe(kind, req, id), Note(kind, req, id),
         NEW awaited,
         awaited = IF Relay(RepMessage(kind, id)).outcome = "pending"
                   THEN Relay(RepMessage(kind, id)).req_id ELSE NoReq
  PROVE  /\ jobs' \in {jobs, jobs \union {SentJob(req, op, ticket)}}
         /\ owed' \subseteq owed \union {req}
         /\ unseen \ {req} \subseteq unseen'
         /\ \/ awaited = NoReq /\ (jobs' = jobs \/ req \in unseen')
            \/ /\ awaited = req /\ req \notin owed'
               /\ SentJob(req, op, ticket) \in jobs'
            \/ awaited \in owed \ owed' /\ awaited \in unseen' /\ req \in unseen'
<1>1. kind \in ReplyKind
  BY EngineAssumption
<1>2. SentJob(req, op, ticket) \notin jobs
  BY FreshIsNew DEF SentJob
<1>3. /\ jobs' \in {jobs, jobs \union {SentJob(req, op, ticket)}}
      /\ owed' \subseteq owed \union {req}
      /\ unseen \ {req} \subseteq unseen'
  <2>1. jobs' \in {jobs, jobs \union {SentJob(req, op, ticket)}}
    BY DEF Accepts
  <2>2. owed' \subseteq owed \union {req}
    BY DEF Owe
  <2>3. unseen \ {req} \subseteq unseen'
    BY DEF Note
  <2>. QED BY <2>1, <2>2, <2>3
<1>4. CASE kind = "pending_id"
  <2>1. id = req /\ awaited = req
    BY <1>4 DEF Answered, Relay, RepMessage
  <2>2. owed' = {} /\ jobs' = jobs \union {SentJob(req, op, ticket)}
    BY <1>4 DEF Owe, Accepts
  <2>. QED BY <1>3, <2>1, <2>2
<1>5. CASE kind = "late"
  <2>1. id \in owed /\ awaited = id
    BY <1>5 DEF Answered, Relay, RepMessage
  <2>2. /\ owed' = (owed \ {id}) \union {req}
        /\ unseen' = unseen \union {req, id}
    BY <1>5 DEF Owe, Note
  <2>. QED BY <1>3, <2>1, <2>2, FreshIsNew
<1>6. CASE kind \notin {"pending_id", "late"}
  <2>1. awaited = NoReq
    BY <1>6 DEF Relay, RepMessage
  <2>2. unseen' = IF jobs' = jobs THEN unseen \ {req} ELSE unseen \union {req}
    BY <1>6 DEF Note
  <2>. QED BY <1>3, <2>1, <2>2
<1>. QED BY <1>1, <1>4, <1>5, <1>6

LEMMA SubmitEffect ==
  ASSUME IInv, NEW i \in unmanaged
  PROVE  /\ SubmitOrder(i) => \E req \in FreshReqs : Sent(i, req, "execute_order", NoTicket)
         /\ SubmitClose(i) =>
              \E req \in FreshReqs : Sent(i, req, "close_position", state[i].ticket)
<1>. USE DEF IInv, TypeOK, Bookkeeping
<1>. DEFINE answer(kind, id) == IF Relay(RepMessage(kind, id)).outcome = "pending"
                                THEN Relay(RepMessage(kind, id)).req_id ELSE NoReq
<1>0. i \in TradeIds
  OBVIOUS
<1>1. ASSUME SubmitOrder(i)
      PROVE  \E req \in FreshReqs : Sent(i, req, "execute_order", NoTicket)
  <2>1. PICK req \in FreshReqs, kind \in Replies, price \in FillPrices,
             ticket \in FreshTickets \union {NoTicket} :
               \E id \in Answered(kind, req) : SendOrder(i, req, kind, id, price, ticket)
    BY <1>1 DEF SubmitOrder
  <2>2. PICK id \in Answered(kind, req) : SendOrder(i, req, kind, id, price, ticket)
    BY <2>1
  <2>3. /\ Accepts(kind, SentJob(req, "execute_order", NoTicket))
        /\ Owe(kind, req, id) /\ Note(kind, req, id)
        /\ UNCHANGED <<results, active_trades>>
        /\ \A k \in TradeIds \ {i} : /\ pending_req_id'[k] = pending_req_id[k]
                                     /\ state'[k] = state[k]
        /\ pending_req_id'[i] = answer(kind, id)
    BY <1>0, <1>1, <2>2 DEF SendOrder, SubmitOrder, SentJob
  <2>4. state'[i] = state[i] \/ answer(kind, id) = NoReq
    BY <1>0, <2>2 DEF SendOrder, AfterReply
  <2>5. NoReq \notin owed
    BY EngineAssumption
  <2>. HIDE DEF answer, SentJob
  <2>6. /\ jobs' \in {jobs, jobs \union {SentJob(req, "execute_order", NoTicket)}}
        /\ owed' \subseteq owed \union {req}
        /\ unseen \ {req} \subseteq unseen'
        /\ LET awaited == answer(kind, id) IN
           \/ awaited = NoReq /\ (jobs' = jobs \/ req \in unseen')
           \/ /\ awaited = req /\ req \notin owed'
              /\ SentJob(req, "execute_order", NoTicket) \in jobs'
           \/ awaited \in owed \ owed' /\ awaited \in unseen' /\ req \in unseen'
    BY <2>3, ReplyEffect DEF answer
  <2>. QED BY <2>3, <2>4, <2>5, <2>6, FreshIsNew DEF Sent
<1>2. ASSUME SubmitClose(i)
      PROVE  \E req \in FreshReqs : Sent(i, req, "close_position", state[i].ticket)
  <2>1. PICK req \in FreshReqs, kind \in Replies :
               \E id \in Answered(kind, req) : SendClose(i, req, kind, id)
    BY <1>2 DEF SubmitClose
  <2>2. PICK id \in Answered(kind, req) : SendClose(i, req, kind, id)
    BY <2>1
  <2>3. /\ Accepts(kind, SentJob(req, "close_position", state[i].ticket))
        /\ Owe(kind, req, id) /\ Note(kind, req, id)
        /\ UNCHANGED <<results, active_trades>>
        /\ \A k \in TradeIds \ {i} : /\ pending_req_id'[k] = pending_req_id[k]
                                     /\ state'[k] = state[k]
        /\ pending_req_id'[i] = answer(kind, id)
    BY <1>0, <1>2, <2>2 DEF SendClose, SubmitClose, SentJob
  <2>4. state'[i] = state[i] \/ answer(kind, id) = NoReq
    BY <1>0, <2>2 DEF SendClose
  <2>5. NoReq \notin owed
    BY EngineAssumption
  <2>. HIDE DEF answer, SentJob
  <2>6. /\ jobs' \in {jobs, jobs \union {SentJob(req, "close_position", state[i].ticket)}}
        /\ owed' \subseteq owed \union {req}
        /\ unseen \ {req} \subseteq unseen'
        /\ LET awaited == answer(kind, id) IN
           \/ awaited = NoReq /\ (jobs' = jobs \/ req \in unseen')
           \/ /\ awaited = req /\ req \notin owed'
              /\ SentJob(req, "close_position", state[i].ticket) \in jobs'
           \/ awaited \in owed \ owed' /\ awaited \in unseen' /\ req \in unseen'
    BY <2>3, ReplyEffect DEF answer
  <2>. QED BY <2>3, <2>4, <2>5, <2>6, FreshIsNew DEF Sent
<1>. QED BY <1>1, <1>2

\* A job that is executed is replaced by its result, unless that is lost; then
\* its id counts as unseen.
LEMMA ExecuteEffect ==
  ASSUME NEW j \in jobs, ExecuteOrder(j) \/ ClosePosition(j)
  PROVE  /\ jobs' = jobs \ {j}
         /\ \/ /\ PushMayFail /\ results' = results
               /\ unseen' = unseen \union {j.req_id}
            \/ /\ unseen' = unseen
               /\ \E status, shape, data :
                    results' = results \union
                      {[req_id |-> j.req_id, op |-> j.op, status |-> status,
                        shape |-> shape, data |-> data]}
         /\ UNCHANGED tradeVars /\ UNCHANGED owed
<1>1. jobs' = jobs \ {j} /\ UNCHANGED tradeVars /\ UNCHANGED owed
  BY DEF ExecuteOrder, ClosePosition
<1>2. \E status, shape, data : Push(j, status, shape, data)
  BY DEF ExecuteOrder, ClosePosition
<1>. QED BY <1>1, <1>2 DEF Push

\* A result that is taken is gone, and with it the marker of its trade.
LEMMA ResultEffect ==
  ASSUME NEW r \in results, HandleResult(r)
  PROVE  /\ results' = results \ {r} /\ UNCHANGED <<jobs, positions, active_trades, owed>>
         /\ unseen' = unseen \ {r.req_id}
         /\ \/ /\ UNCHANGED <<pending_req_id, state>>
               /\ \A i \in active_trades : pending_req_id[i] # r.req_id
            \/ \E i \in active_trades :
                 /\ pending_req_id[i] = r.req_id
                 /\ pending_req_id' = [pending_req_id EXCEPT ![i] = NoReq]
                 /\ state' = [state EXCEPT ![i] = AfterResult(@, r)]
BY DEF HandleResult, ClearPending

\* The scan adds a trade to the Vec and the cleanup drops one; a trade that is
\* dropped is Idle.
LEMMA ActiveSteps ==
  ASSUME IInv, [Next]_vars
  PROVE  \/ active_trades' = active_trades
         \/ \E s \in Symbols : /\ Spawn(s)
                               /\ active_trades' = active_trades \union {trade_id_counter + 1}
         \/ \E i \in active_trades : /\ CleanUp(i) /\ state[i] = Idle
                                     /\ active_trades' = active_trades \ {i}
<1>1. CASE \/ CheckKillSwitch \/ DrainMessages \/ StartScan \/ StartManage
           \/ StartCleanup \/ EndTurn \/ PublishAccount \/ Sleep \/ UNCHANGED vars
           \/ \E s \in Symbols : SkipSymbol(s)
  BY <1>1 DEF CheckKillSwitch, DrainMessages, StartScan, StartManage, StartCleanup,
     EndTurn, PublishAccount, Sleep, vars, SkipSymbol, tradeVars
<1>2. CASE \E s \in Symbols : Spawn(s)
  BY <1>2 DEF Spawn
<1>3. CASE \E i \in active_trades : CleanUp(i)
  BY <1>3 DEF CleanUp, Completed
<1>4. CASE \E r \in results : HandleResult(r)
  BY <1>4 DEF HandleResult
<1>5. ASSUME NEW i \in unmanaged, ManageTrade(i)
      PROVE  UNCHANGED active_trades
  BY <1>5 DEF ManageTrade, Qualify, AwaitFill, SubmitOrder, UpdateOpen, AwaitClose,
     SubmitClose, FinishCooldown, SkipIdle, tradeVars
<1>6. CASE Service
  BY <1>6 DEF Service, ExecuteOrder, ClosePosition, tradeVars
<1>. QED BY <1>1, <1>2, <1>3, <1>4, <1>5, <1>6 DEF Next, MainLoop
\* There are finitely many trades.
LEMMA TradesFinite == \A T \in SUBSET TradeIds : IsFiniteSet(T) /\ Cardinality(T) \in Nat
<1>1. 1 \in Int /\ MaxTrades \in Int
  BY EngineAssumption
<1>2. IsFiniteSet(TradeIds)
  BY <1>1, FS_Interval DEF TradeIds
<1>. QED BY <1>2, FS_Subset, FS_CardinalityType

-----------------------------------------------------------------------------
(***************************************************************************)
(* Results meet the trade that asked.  AnswersMatch as a statement about   *)
(* every trade id: no trade outside the Vec waits for anything, so that a  *)
(* new trade cannot inherit an answer; and none waits for a request whose  *)
(* reply is still owed, so that a late reply gives an id to one trade.     *)
(***************************************************************************)
AwaitsRight(i) ==
  /\ i \in active_trades
  /\ state[i].tag \in {"EntryReady", "Exiting"}
  /\ pending_req_id[i] \notin owed
  /\ \A k \in TradeIds \ {i} : pending_req_id[k] # pending_req_id[i]
  /\ pending_req_id[i] \notin unseen =>
       \A x \in jobs \union results : x.req_id = pending_req_id[i] => Awaits(i, x.op)

Awaiting == \A i \in TradeIds : pending_req_id[i] # NoReq => AwaitsRight(i)

LEMMA AwaitingImpliesAnswersMatch ==
  ASSUME IInv, Awaiting PROVE AnswersMatch
BY DEF IInv, TypeOK, Awaiting, AwaitsRight, AnswersMatch, Waiting

\* A step that leaves alone the markers, the jobs and the results, keeps the
\* trades, and changes the state of no waiting trade.
LEMMA AwaitingKept ==
  ASSUME IInv, Awaiting,
         UNCHANGED <<pending_req_id, jobs, results, unseen>>, owed' \subseteq owed,
         active_trades \subseteq active_trades',
         \A i \in TradeIds : pending_req_id[i] # NoReq => state'[i].tag = state[i].tag
  PROVE  Awaiting'
BY DEF IInv, TypeOK, Awaiting, AwaitsRight, Awaits

\* The steps that leave every marker alone.
LEMMA AwaitingQuiet ==
  ASSUME IInv, Awaiting,
         CheckKillSwitch \/ DrainMessages \/ StartScan \/ StartManage
           \/ StartCleanup \/ EndTurn \/ Sleep \/ PublishAccount
           \/ (\E s \in Symbols : Spawn(s) \/ SkipSymbol(s))
           \/ (\E i \in unmanaged : Qualify(i) \/ AwaitFill(i) \/ UpdateOpen(i)
                                      \/ AwaitClose(i) \/ FinishCooldown(i) \/ SkipIdle(i))
  PROVE  Awaiting'
<1>. USE AwaitingKept DEF tradeVars, serviceVars
<1>0. \A i \in TradeIds : pending_req_id[i] # NoReq =>
        state[i].tag \in {"EntryReady", "Exiting"}
  BY DEF Awaiting, AwaitsRight
<1>1. CASE CheckKillSwitch \/ DrainMessages \/ StartScan \/ StartManage
             \/ StartCleanup \/ EndTurn \/ PublishAccount
  BY <1>1 DEF CheckKillSwitch, DrainMessages, StartScan, StartManage, StartCleanup,
              EndTurn, PublishAccount
<1>2. CASE Sleep
  <2>1. \A s, d : s.tag \in {"EntryReady", "Exiting"} => Elapse(s, d).tag = s.tag
    BY DEF Elapse
  <2>. QED BY <1>0, <1>2, <2>1 DEF Sleep
<1>3. ASSUME NEW s \in Symbols, Spawn(s)
      PROVE  Awaiting'
  <2>1. \A t, dir, type : t.tag \in {"EntryReady", "Exiting"} =>
          SignalDetected(t, s, dir, type) = t
    BY DEF SignalDetected
  <2>2. \A k \in TradeIds : pending_req_id[k] # NoReq => state'[k] = state[k]
    BY <1>0, <1>3, <2>1 DEF Spawn, IInv, TypeOK
  <2>. QED BY <1>3, <2>2 DEF Spawn, ForgetReplies
<1>4. ASSUME NEW s \in Symbols, SkipSymbol(s)
      PROVE  Awaiting'
  BY <1>4 DEF SkipSymbol, ForgetReplies
<1>5. ASSUME NEW i \in unmanaged,
             Qualify(i) \/ UpdateOpen(i) \/ FinishCooldown(i)
      PROVE  Awaiting'
  <2>1. pending_req_id[i] = NoReq
    BY <1>0, <1>5 DEF Qualify, UpdateOpen, FinishCooldown, Turn, IInv, TypeOK
  <2>2. \A k \in TradeIds \ {i} : state'[k] = state[k]
    BY <1>5 DEF Qualify, UpdateOpen, FinishCooldown, IInv, TypeOK
  <2>. QED BY <1>5, <2>1, <2>2 DEF Qualify, UpdateOpen, FinishCooldown
<1>6. ASSUME NEW i \in unmanaged, AwaitFill(i) \/ AwaitClose(i) \/ SkipIdle(i)
      PROVE  Awaiting'
  BY <1>6 DEF AwaitFill, AwaitClose, SkipIdle
<1>. QED BY <1>1, <1>2, <1>3, <1>4, <1>5, <1>6

LEMMA AwaitingResult ==
  ASSUME IInv, Awaiting, NEW r \in results, HandleResult(r)
  PROVE  Awaiting'
<1>. USE DEF IInv, TypeOK
<1>1. /\ results' \subseteq results /\ unseen' = unseen \ {r.req_id}
      /\ UNCHANGED <<jobs, active_trades, owed>>
  BY ResultEffect
<1>2. ASSUME NEW k \in TradeIds, pending_req_id'[k] # NoReq
      PROVE  /\ pending_req_id'[k] = pending_req_id[k] /\ state'[k] = state[k]
             /\ pending_req_id[k] # r.req_id
  BY <1>2, ResultEffect DEF Awaiting, AwaitsRight
<1>3. \A k, m \in TradeIds : pending_req_id'[m] \in {pending_req_id[m], NoReq}
  BY ResultEffect
<1>. QED BY <1>1, <1>2, <1>3 DEF Awaiting, AwaitsRight, Awaits

\* Sending a request: the trade that waits for no answer comes to wait for the
\* one it asked for, or for one whose reply was owed.
LEMMA AwaitingSubmits ==
  ASSUME IInv, Awaiting, NEW i \in unmanaged, SubmitOrder(i) \/ SubmitClose(i)
  PROVE  Awaiting'
<1>. USE DEF IInv, TypeOK, Bookkeeping, Turn
<1>0. i \in active_trades /\ i \in TradeIds
  OBVIOUS
<1>1. PICK req, op, ticket :
        /\ req \in FreshReqs /\ Sent(i, req, op, ticket)
        /\ state[i].tag = IF op = "close_position" THEN "Exiting" ELSE "EntryReady"
  <2>1. CASE SubmitOrder(i)
    <3>1. state[i].tag = "EntryReady"
      BY <2>1 DEF SubmitOrder
    <3>. QED BY <2>1, <3>1, SubmitEffect
  <2>2. CASE SubmitClose(i)
    <3>1. state[i].tag = "Exiting"
      BY <2>2 DEF SubmitClose
    <3>. QED BY <2>2, <3>1, SubmitEffect
  <2>. QED BY <2>1, <2>2
<1>2. /\ req # NoReq /\ req \notin owed
      /\ \A k \in TradeIds : pending_req_id[k] # req
      /\ \A x \in jobs \union results : x.req_id # req
  BY <1>1, FreshIsNew
<1>3. ASSUME NEW k \in TradeIds \ {i}, pending_req_id'[k] # NoReq
      PROVE  AwaitsRight(k)'
  <2>1. /\ pending_req_id'[k] = pending_req_id[k] /\ state'[k] = state[k]
        /\ pending_req_id[k] # req /\ AwaitsRight(k)
    BY <1>1, <1>2, <1>3 DEF Sent, Awaiting
  <2>2. /\ pending_req_id[k] \notin owed \union {req}
        /\ owed' \subseteq owed \union {req} /\ unseen \ {req} \subseteq unseen'
    BY <1>1, <2>1 DEF Sent, AwaitsRight
  <2>3. \A x \in jobs' \union results' :
          x.req_id = pending_req_id[k] => x \in jobs \union results
    BY <1>1, <2>1 DEF Sent, SentJob
  <2>4. \A m \in TradeIds \ {k} : pending_req_id'[m] # pending_req_id[k]
    <3>1. pending_req_id'[i] \in owed \union {req, NoReq}
      BY <1>1 DEF Sent
    <3>. QED BY <1>1, <1>3, <2>1, <2>2, <3>1 DEF Sent, AwaitsRight
  <2>5. k \in active_trades' /\ state'[k].tag \in {"EntryReady", "Exiting"}
    BY <1>1, <2>1 DEF Sent, AwaitsRight
  <2>6. pending_req_id'[k] \notin unseen' =>
          \A x \in jobs' \union results' : x.req_id = pending_req_id'[k] => Awaits(k, x.op)'
    BY <2>1, <2>2, <2>3 DEF AwaitsRight, Awaits
  <2>. QED BY <2>1, <2>2, <2>4, <2>5, <2>6 DEF AwaitsRight
<1>4. ASSUME pending_req_id'[i] # NoReq
      PROVE  AwaitsRight(i)'
  <2>1. /\ state'[i] = state[i] /\ i \in active_trades'
        /\ pending_req_id'[i] \notin owed' /\ pending_req_id'[i] \in owed \union {req}
    BY <1>0, <1>1, <1>4 DEF Sent
  <2>2. \A m \in TradeIds \ {i} : pending_req_id'[m] # pending_req_id'[i]
    <3>. SUFFICES ASSUME NEW m \in TradeIds \ {i}
                  PROVE  pending_req_id[m] # pending_req_id'[i]
      BY <1>1 DEF Sent
    <3>. QED BY <1>2, <1>4, <2>1 DEF Awaiting, AwaitsRight
  <2>3. ASSUME pending_req_id'[i] \notin unseen', NEW x \in jobs' \union results',
               x.req_id = pending_req_id'[i]
        PROVE  Awaits(i, x.op)'
    <3>1. pending_req_id'[i] = req
      BY <1>1, <1>4, <2>3 DEF Sent
    <3>2. x.op = op
      BY <1>1, <1>2, <2>3, <3>1 DEF Sent, SentJob
    <3>. QED BY <1>1, <1>4, <2>1, <3>2 DEF Awaits
  <2>. QED BY <1>1, <2>1, <2>2, <2>3 DEF AwaitsRight
<1>. QED BY <1>3, <1>4 DEF Awaiting

LEMMA AwaitingCleanUp ==
  ASSUME IInv, Awaiting, NEW i \in active_trades, CleanUp(i)
  PROVE  Awaiting'
<1>1. pending_req_id[i] = NoReq
  BY DEF CleanUp, Completed, Awaiting, AwaitsRight, Idle, IInv, TypeOK
<1>. QED BY <1>1 DEF CleanUp, Awaiting, AwaitsRight, Awaits, serviceVars, IInv, TypeOK

LEMMA AwaitingService ==
  ASSUME IInv, Awaiting, NEW j \in jobs, ExecuteOrder(j) \/ ClosePosition(j)
  PROVE  Awaiting'
<1>1. /\ jobs' \subseteq jobs /\ unseen \subseteq unseen' /\ owed' = owed
      /\ UNCHANGED tradeVars
  BY ExecuteEffect
<1>2. \A x \in results' \ results : x.req_id = j.req_id /\ x.op = j.op
  BY ExecuteEffect
<1>. QED BY <1>1, <1>2 DEF Awaiting, AwaitsRight, Awaits, tradeVars

LEMMA AwaitingStep == IInv /\ Awaiting /\ [Next]_vars => Awaiting'
<1>. SUFFICES ASSUME IInv, Awaiting, [Next]_vars PROVE Awaiting'
  OBVIOUS
<1>1. CASE MainLoop
  BY <1>1, AwaitingQuiet, AwaitingResult, AwaitingSubmits, AwaitingCleanUp
  DEF MainLoop, ManageTrade
<1>2. CASE Service
  BY <1>2, AwaitingService DEF Service
<1>3. CASE PublishAccount
  BY <1>3, AwaitingQuiet
<1>4. CASE UNCHANGED vars
  BY <1>4 DEF vars, tradeVars, serviceVars, Awaiting, AwaitsRight, Awaits
<1>. QED BY <1>1, <1>2, <1>3, <1>4 DEF Next

\* Whatever the service answers, refuses, delays or loses, and whichever reply
\* the socket hands over: no two trades wait for the same request, and a result
\* under the id of a trade's own request answers what that trade asked, so that
\* telling an order from a close by the state of the trade is right.
THEOREM AnswersMatchCorrect == Spec => []AnswersMatch
<1>1. Init => Awaiting
  BY DEF Init, Awaiting
<1>2. IInv /\ Awaiting => AnswersMatch
  BY AwaitingImpliesAnswersMatch
<1>. QED BY <1>1, <1>2, InvInit, InvStep, AwaitingStep, PTL DEF Spec

-----------------------------------------------------------------------------
(***************************************************************************)
(* A request id stands for one job or one result, whatever the service     *)
(* answers or loses, because an id is drawn from those not in use and an   *)
(* execution replaces the job by its result.                               *)
(***************************************************************************)
UniqueIds ==
  /\ \A x, y \in jobs : x.req_id = y.req_id => x = y
  /\ \A x, y \in results : x.req_id = y.req_id => x = y
  /\ \A x \in jobs, y \in results : x.req_id # y.req_id

LEMMA UniqueIdsStep == IInv /\ UniqueIds /\ [Next]_vars => UniqueIds'
<1>. SUFFICES ASSUME IInv, UniqueIds, [Next]_vars PROVE UniqueIds'
  OBVIOUS
<1>1. CASE /\ UNCHANGED <<pending_req_id, jobs, results, positions, unseen>>
           /\ active_trades \subseteq active_trades'
  BY <1>1 DEF UniqueIds
<1>2. ASSUME NEW i \in active_trades, CleanUp(i)
      PROVE  UniqueIds'
  BY <1>2 DEF CleanUp, serviceVars, UniqueIds
<1>3. ASSUME NEW r \in results, HandleResult(r)
      PROVE  UniqueIds'
  BY <1>3, ResultEffect DEF UniqueIds
<1>4. ASSUME NEW i \in unmanaged, SubmitOrder(i) \/ SubmitClose(i)
      PROVE  UniqueIds'
  <2>1. PICK req, op, ticket : req \in FreshReqs /\ Sent(i, req, op, ticket)
    BY <1>4, SubmitEffect
  <2>2. /\ jobs' \subseteq jobs \union {SentJob(req, op, ticket)} /\ results' = results
        /\ SentJob(req, op, ticket).req_id = req
    BY <2>1 DEF Sent, SentJob
  <2>3. \A x \in jobs \union results : x.req_id # req
    BY <2>1, FreshIsNew
  <2>. QED BY <2>2, <2>3 DEF UniqueIds
<1>5. ASSUME NEW j \in jobs, ExecuteOrder(j) \/ ClosePosition(j)
      PROVE  UniqueIds'
  <2>1. /\ jobs' = jobs \ {j}
        /\ \E res : res.req_id = j.req_id /\ results' \subseteq results \union {res}
    BY <1>5, ExecuteEffect
  <2>. QED BY <2>1 DEF UniqueIds
<1>. QED BY <1>1, <1>2, <1>3, <1>4, <1>5, QueueSteps DEF QueueStep

(***************************************************************************)
(* What a trade waits for is under way, as long as it is its own request   *)
(* and the result is not lost.                                             *)
(***************************************************************************)
InFlight ==
  \A i \in TradeIds : pending_req_id[i] # NoReq /\ pending_req_id[i] \notin unseen =>
    \E x \in jobs \union results : x.req_id = pending_req_id[i]

LEMMA InFlightStep == IInv /\ Awaiting /\ InFlight /\ [Next]_vars => InFlight'
<1>. SUFFICES ASSUME IInv, Awaiting, InFlight, [Next]_vars PROVE InFlight'
  OBVIOUS
<1>. USE DEF IInv, TypeOK, Bookkeeping
<1>1. CASE /\ UNCHANGED <<pending_req_id, jobs, results, positions, unseen>>
           /\ active_trades \subseteq active_trades'
  BY <1>1 DEF InFlight
<1>2. ASSUME NEW i \in active_trades, CleanUp(i)
      PROVE  InFlight'
  BY <1>2 DEF CleanUp, serviceVars, InFlight
<1>3. ASSUME NEW r \in results, HandleResult(r)
      PROVE  InFlight'
  <2>1. /\ jobs' = jobs /\ results' = results \ {r} /\ unseen' = unseen \ {r.req_id}
        /\ \A k \in TradeIds : pending_req_id'[k] # NoReq =>
             pending_req_id'[k] = pending_req_id[k] /\ pending_req_id[k] # r.req_id
    BY <1>3, ResultEffect DEF Awaiting, AwaitsRight
  <2>. QED BY <2>1 DEF InFlight
<1>4. ASSUME NEW i \in unmanaged, SubmitOrder(i) \/ SubmitClose(i)
      PROVE  InFlight'
  <2>1. PICK req, op, ticket : req \in FreshReqs /\ Sent(i, req, op, ticket)
    BY <1>4, SubmitEffect
  <2>2. /\ jobs \subseteq jobs' /\ results' = results /\ unseen \ {req} \subseteq unseen'
        /\ \A k \in TradeIds \ {i} : pending_req_id'[k] = pending_req_id[k]
        /\ \A k \in TradeIds : pending_req_id[k] # req
    BY <2>1, FreshIsNew DEF Sent
  <2>3. pending_req_id'[i] # NoReq /\ pending_req_id'[i] \notin unseen' =>
          \E x \in jobs' : x.req_id = pending_req_id'[i]
    BY <2>1 DEF Sent, SentJob
  <2>. QED BY <2>2, <2>3 DEF InFlight
<1>5. ASSUME NEW j \in jobs, ExecuteOrder(j) \/ ClosePosition(j)
      PROVE  InFlight'
  <2>1. /\ jobs' = jobs \ {j} /\ UNCHANGED pending_req_id
        /\ \/ results' = results /\ unseen' = unseen \union {j.req_id}
           \/ /\ unseen' = unseen
              /\ \E res : res.req_id = j.req_id /\ results' = results \union {res}
    BY <1>5, ExecuteEffect DEF tradeVars
  <2>. QED BY <2>1 DEF InFlight
<1>. QED BY <1>1, <1>2, <1>3, <1>4, <1>5, QueueSteps DEF QueueStep

\* A trade that waits for its own request waits for exactly one job or one
\* result, unless _push_result lost the result (it only logs that); however
\* the service answers, and whatever late replies other trades were given.
THEOREM InFlightCorrect == Spec => []AwaitedIsInFlight
<1>1. Init => Awaiting /\ UniqueIds /\ InFlight
  BY DEF Init, Awaiting, UniqueIds, InFlight
<1>2. IInv /\ UniqueIds /\ InFlight => AwaitedIsInFlight
  <2>. SUFFICES ASSUME IInv, UniqueIds, InFlight,
                       NEW i \in active_trades, pending_req_id[i] # NoReq,
                       pending_req_id[i] \notin unseen
                PROVE  Cardinality({x \in jobs \union results :
                                      x.req_id = pending_req_id[i]}) = 1
    BY DEF AwaitedIsInFlight, Waiting
  <2>1. PICK x \in jobs \union results : x.req_id = pending_req_id[i]
    BY DEF IInv, TypeOK, InFlight
  <2>2. \A y \in jobs \union results : y.req_id = x.req_id => y = x
    BY DEF UniqueIds
  <2>3. {y \in jobs \union results : y.req_id = pending_req_id[i]} = {x}
    BY <2>1, <2>2
  <2>. QED BY <2>3, FS_Singleton
<1>. QED
  BY <1>1, <1>2, InvInit, InvStep, AwaitingStep, UniqueIdsStep, InFlightStep, PTL DEF Spec

-----------------------------------------------------------------------------
(***************************************************************************)
(* No order whose id got to its trade is sent twice.  Every such order     *)
(* among the jobs is one that a trade waits for, so that these orders map  *)
(* into the trades that are ready to enter, and as each order has its own  *)
(* id no two map to the same trade.                                        *)
(***************************************************************************)
Told == {j \in jobs : j.op = "execute_order" /\ j.req_id \notin unseen}

TellsOfOrders == \A j \in Told : \E i \in active_trades : pending_req_id[i] = j.req_id

LEMMA TellsOfOrdersStep ==
  IInv /\ Awaiting /\ UniqueIds /\ TellsOfOrders /\ [Next]_vars => TellsOfOrders'
<1>. SUFFICES ASSUME IInv, Awaiting, UniqueIds, TellsOfOrders, [Next]_vars
              PROVE  TellsOfOrders'
  OBVIOUS
<1>. USE DEF IInv, TypeOK, Bookkeeping, Told
<1>0. \A j \in jobs : j.req_id # NoReq
  BY EngineAssumption DEF Job
<1>1. CASE /\ UNCHANGED <<pending_req_id, jobs, results, positions, unseen>>
           /\ active_trades \subseteq active_trades'
  BY <1>1 DEF TellsOfOrders
<1>2. ASSUME NEW i \in active_trades, CleanUp(i)
      PROVE  TellsOfOrders'
  <2>1. pending_req_id[i] = NoReq
    BY <1>2 DEF CleanUp, Completed, Awaiting, AwaitsRight, Idle
  <2>2. /\ jobs' = jobs /\ unseen' = unseen /\ active_trades' = active_trades \ {i}
        /\ pending_req_id' = [pending_req_id EXCEPT ![i] = NoReq]
    BY <1>2 DEF CleanUp, serviceVars
  <2>. QED BY <1>0, <2>1, <2>2 DEF TellsOfOrders
<1>3. ASSUME NEW r \in results, HandleResult(r)
      PROVE  TellsOfOrders'
  <2>1. /\ jobs' = jobs /\ active_trades' = active_trades /\ unseen' = unseen \ {r.req_id}
        /\ \A k \in active_trades : pending_req_id[k] # r.req_id =>
             pending_req_id'[k] = pending_req_id[k]
    BY <1>3, ResultEffect
  <2>2. \A j \in jobs : j.req_id # r.req_id
    BY DEF UniqueIds
  <2>. QED BY <2>1, <2>2 DEF TellsOfOrders
<1>4. ASSUME NEW i \in unmanaged, SubmitOrder(i) \/ SubmitClose(i)
      PROVE  TellsOfOrders'
  <2>1. i \in active_trades /\ pending_req_id[i] = NoReq
    BY <1>4 DEF SubmitOrder, SubmitClose
  <2>2. PICK req, op, ticket : req \in FreshReqs /\ Sent(i, req, op, ticket)
    BY <1>4, SubmitEffect
  <2>3. /\ active_trades' = active_trades /\ unseen \ {req} \subseteq unseen'
        /\ \A k \in active_trades \ {i} : pending_req_id'[k] = pending_req_id[k]
        /\ \A j \in jobs : j.req_id # req
    BY <2>2, FreshIsNew DEF Sent
  <2>4. \A j \in jobs' \ jobs : j.req_id \notin unseen' => pending_req_id'[i] = j.req_id
    BY <2>2 DEF Sent, SentJob
  <2>. QED BY <1>0, <2>1, <2>3, <2>4 DEF TellsOfOrders
<1>5. ASSUME NEW j \in jobs, ExecuteOrder(j) \/ ClosePosition(j)
      PROVE  TellsOfOrders'
  BY <1>5, ExecuteEffect DEF tradeVars, TellsOfOrders
<1>. QED BY <1>1, <1>2, <1>3, <1>4, <1>5, QueueSteps DEF QueueStep

\* Never are there more orders at the service whose ids got to their trades
\* than trades that are ready to enter, whatever the service answers to these
\* and to other requests and whatever it delays or loses.  The run resend
\* shows what becomes of the others, which is all of them with the shipped
\* service.
THEOREM NoResendCorrect == Spec => []NoResendOnceTold
<1>1. Init => Awaiting /\ UniqueIds /\ TellsOfOrders
  BY DEF Init, Awaiting, UniqueIds, TellsOfOrders, Told
<1>2. IInv /\ Awaiting /\ UniqueIds /\ TellsOfOrders => NoResendOnceTold
  <2>. SUFFICES ASSUME IInv, Awaiting, UniqueIds, TellsOfOrders PROVE NoResendOnceTold
    OBVIOUS
  <2>. DEFINE f == [j \in Told |-> CHOOSE i \in Entering : pending_req_id[i] = j.req_id]
  <2>1. \A j \in Told : \E i \in Entering : pending_req_id[i] = j.req_id
    <3>. SUFFICES ASSUME NEW j \in Told
                  PROVE  \E i \in Entering : pending_req_id[i] = j.req_id
      OBVIOUS
    <3>1. PICK i \in active_trades : pending_req_id[i] = j.req_id
      BY DEF TellsOfOrders
    <3>2. i \in TradeIds /\ pending_req_id[i] # NoReq
      BY <3>1, EngineAssumption DEF IInv, TypeOK, Job, Told
    <3>3. state[i].tag = "EntryReady"
      BY <3>1, <3>2 DEF Awaiting, AwaitsRight, Awaits, Told
    <3>. QED BY <3>1, <3>3 DEF Entering
  <2>2. \A j \in Told : f[j] \in Entering /\ pending_req_id[f[j]] = j.req_id
    BY <2>1
  <2>3. f \in Injection(Told, Entering)
    <3>1. \A x, y \in Told : f[x] = f[y] => x = y
      <4>. HIDE DEF f
      <4>. SUFFICES ASSUME NEW x \in Told, NEW y \in Told, f[x] = f[y] PROVE x = y
        OBVIOUS
      <4>1. x.req_id = y.req_id
        BY <2>2
      <4>. QED BY <4>1 DEF UniqueIds, Told
    <3>2. f \in [Told -> Entering]
      BY <2>2
    <3>. HIDE DEF f
    <3>. QED BY <3>1, <3>2 DEF Injection, IsInjective
  <2>4. IsFiniteSet(Entering)
    BY TradesFinite DEF IInv, TypeOK, Entering
  <2>5. Cardinality(Told) <= Cardinality(Entering)
    <3>. HIDE DEF f
    <3>. QED BY <2>3, <2>4, FS_Injection
  <2>. QED BY <2>5 DEF NoResendOnceTold, Told
<1>. QED
  BY <1>1, <1>2, InvInit, InvStep, AwaitingStep, UniqueIdsStep, TellsOfOrdersStep, PTL
  DEF Spec

-----------------------------------------------------------------------------
(***************************************************************************)
(* Every open trade has its position.  A ticket is in one pair of hands:   *)
(* of the result that reports the fill, then of the trade that took it;    *)
(* and no job names it before that trade exits.                            *)
(***************************************************************************)
ExposedApart(i) == Exposed(state[i]) =>
  /\ i \in active_trades
  /\ state[i].ticket # NoTicket =>
       /\ \A k \in TradeIds \ {i} : ~Holds(k, state[i].ticket)
       /\ \A r \in results : r.data.ticket # state[i].ticket
       /\ state[i].tag # "Exiting" =>
            /\ state[i].ticket \in positions
            /\ \A j \in jobs : j.ticket # state[i].ticket

ReportedApart(r) == r.data.ticket # NoTicket =>
  /\ r.data.ticket \in positions
  /\ \A q \in results \ {r} : q.data.ticket # r.data.ticket
  /\ \A j \in jobs : j.ticket # r.data.ticket

Custody == /\ \A i \in TradeIds : ExposedApart(i)
           /\ \A r \in results : ReportedApart(r)

\* A fresh ticket is at no broker, in no result and no job, and held by no trade.
LEMMA FreshTicketIsNew ==
  ASSUME IInv, Custody, NEW ticket \in FreshTickets
  PROVE  /\ ticket \in Tickets /\ ticket # NoTicket /\ ticket \notin positions
         /\ \A i \in TradeIds : ~Holds(i, ticket)
         /\ \A r \in results : r.data.ticket # ticket
         /\ \A j \in jobs : j.ticket # ticket
<1>1. /\ ticket \in Tickets /\ ticket # NoTicket /\ ticket \notin positions
      /\ ticket \notin HeldTickets
      /\ \A r \in results : r.data.ticket # ticket
      /\ \A j \in jobs : j.ticket # ticket
  BY EngineAssumption DEF FreshTickets
<1>2. ASSUME NEW i \in TradeIds, Holds(i, ticket) PROVE FALSE
  <2>1. i \in active_trades /\ Exposed(state[i]) /\ state[i].ticket = ticket
    BY <1>2 DEF Holds, Custody, ExposedApart
  <2>. QED BY <1>1, <2>1 DEF HeldTickets
<1>. QED BY <1>1, <1>2

\* A trade that is exposed stays so, with its ticket, and once it exits it only
\* exits.
Holding(i) == /\ Exposed(state[i]) /\ state'[i].ticket = state[i].ticket
              /\ state[i].tag = "Exiting" => state'[i].tag = "Exiting"

\* A step that leaves alone what is on its way and what is open, and opens no
\* trade, keeps every ticket where it is.
LEMMA CustodyKept ==
  ASSUME IInv, Custody,
         UNCHANGED <<jobs, results, positions>>,
         active_trades \subseteq active_trades',
         \A i \in TradeIds : Exposed(state'[i]) => Holding(i)
  PROVE  Custody'
<1>1. \A i \in TradeIds : ExposedApart(i)'
  BY DEF Custody, ExposedApart, Holds, Holding
<1>2. \A r \in results : ReportedApart(r)'
  BY DEF Custody, ReportedApart
<1>. QED BY <1>1, <1>2 DEF Custody

\* The exposed trades keep their tickets, and only a fill exposes a trade.
LEMMA ExposureSteps ==
  ASSUME IInv, Awaiting, [Next]_vars, NEW i \in TradeIds, Exposed(state'[i])
  PROVE  \/ Holding(i)
         \/ i \in unmanaged /\ SubmitOrder(i)
         \/ \E r \in results :
              /\ HandleResult(r) /\ i \in active_trades /\ pending_req_id[i] = r.req_id
              /\ state[i].tag = "EntryReady" /\ r.status = "ok" /\ r.shape = "fill"
              /\ state'[i] = OrderFilled(state[i], r.data.price, r.data.ticket)
<1>. USE DEF IInv, TypeOK, Bookkeeping, Exposed, Turn, Holding
<1>1. TradeStep(i)
  BY TradeSteps
<1>2. ASSUME NEW d \in TimeSteps, state'[i] = Elapse(state[i], d)
      PROVE  Holding(i)
  <2>1. state[i].tag # "Cooldown" /\ state[i].tag # "EntryReady"
    BY <1>2 DEF Elapse, TradingState, IdleState, QualifyingState, EntryReadyState,
                PositionState, ExitingState, CooldownState
  <2>. QED BY <1>2, <2>1 DEF Elapse
<1>3. ASSUME NEW s \in Symbols, NEW g \in Signals,
             state'[i] = SignalDetected(state[i], s, g.dir, g.type)
      PROVE  Holding(i)
  BY <1>3 DEF SignalDetected
<1>4. ASSUME NEW r \in results, state'[i] = AfterResult(state[i], r)
      PROVE  \/ Holding(i)
             \/ /\ state[i].tag = "EntryReady" /\ r.status = "ok" /\ r.shape = "fill"
                /\ state'[i] = OrderFilled(state[i], r.data.price, r.data.ticket)
  BY <1>4 DEF AfterResult, PositionClosed, OrderFilled, OrderTimeout, Idle
<1>5. ASSUME i \in unmanaged, Qualify(i) \/ FinishCooldown(i) PROVE FALSE
  BY <1>5 DEF Qualify, FinishCooldown, FiltersPass, FiltersReject, CooldownComplete, Idle
<1>6. ASSUME i \in unmanaged, UpdateOpen(i)
      PROVE  Holding(i)
  <2>1. state[i].tag = "PositionOpen"
    BY <1>6 DEF UpdateOpen
  <2>2. \A run, pips : ExitDecision(state[i], run, pips).ticket = state[i].ticket
    BY <2>1 DEF ExitDecision, ExitSignal, ExitingFrom
  <2>. QED BY <1>6, <2>1, <2>2 DEF UpdateOpen
<1>7. ASSUME i \in unmanaged, SubmitClose(i)
      PROVE  Holding(i)
  <2>1. PICK req, kind, id : SendClose(i, req, kind, id)
    BY <1>7 DEF SubmitClose
  <2>. QED BY <1>7, <2>1 DEF SubmitClose, SendClose, PositionClosed
<1>8. CASE state'[i] = state[i]
  BY <1>8
<1>. QED BY <1>1, <1>2, <1>3, <1>4, <1>5, <1>6, <1>7, <1>8 DEF TradeStep

LEMMA CustodyResult ==
  ASSUME IInv, Awaiting, Custody, [Next]_vars, NEW r \in results, HandleResult(r)
  PROVE  Custody'
<1>. USE DEF IInv, TypeOK, Bookkeeping
<1>1. results' = results \ {r} /\ UNCHANGED <<jobs, positions, active_trades>>
  BY ResultEffect
<1>2. \A q \in results' : ReportedApart(q)'
  BY <1>1 DEF Custody, ReportedApart
<1>3. CASE UNCHANGED <<pending_req_id, state>>
  <2>1. \A i \in TradeIds : ExposedApart(i)'
    BY <1>1, <1>3 DEF Custody, ExposedApart, Holds
  <2>. QED BY <1>1, <1>2, <2>1 DEF Custody
<1>4. ASSUME NEW i \in active_trades, pending_req_id[i] = r.req_id,
             pending_req_id' = [pending_req_id EXCEPT ![i] = NoReq],
             state' = [state EXCEPT ![i] = AfterResult(@, r)]
      PROVE  Custody'
  <2>0. /\ i \in TradeIds /\ pending_req_id[i] # NoReq
        /\ state[i].tag \in {"EntryReady", "Exiting"}
    BY <1>4, EngineAssumption DEF Result, Awaiting, AwaitsRight
  <2>. DEFINE t == r.data.ticket
  <2>1. ~Exposed(state'[i]) \/ state'[i].ticket = t
    <3>1. CASE state[i].tag = "Exiting"
      BY <1>4, <2>0, <3>1 DEF AfterResult, PositionClosed, Exposed
    <3>2. CASE state[i].tag = "EntryReady"
      <4>1. \/ state'[i] = state[i] \/ state'[i] = Idle
            \/ state'[i] = OrderFilled(state[i], r.data.price, t)
        BY <1>4, <2>0, <3>2 DEF AfterResult, OrderTimeout
      <4>. QED BY <3>2, <4>1 DEF OrderFilled, Exposed, Idle
    <3>. QED BY <2>0, <3>1, <3>2
  <2>2. \A k \in TradeIds \ {i} : state'[k] = state[k]
    BY <1>4, <2>0
  <2>3. ASSUME NEW k \in TradeIds \ {i}, Exposed(state[k])
        PROVE  ExposedApart(k)'
    <3>1. state[k].ticket # NoTicket => ~Holds(i, state[k].ticket)'
      BY <2>1, <2>2, <2>3 DEF Holds, Custody, ExposedApart
    <3>. QED BY <1>1, <2>2, <2>3, <3>1 DEF Custody, ExposedApart, Holds
  <2>4. ASSUME Exposed(state'[i])
        PROVE  ExposedApart(i)'
    <3>1. state'[i].ticket = t
      BY <2>1, <2>4
    <3>2. t # NoTicket =>
            /\ t \in positions
            /\ \A q \in results \ {r} : q.data.ticket # t
            /\ \A j \in jobs : j.ticket # t
      BY DEF Custody, ReportedApart
    <3>3. t # NoTicket => \A k \in TradeIds \ {i} : ~Holds(k, t)'
      BY <2>2 DEF Holds, Custody, ExposedApart
    <3>. QED BY <1>1, <1>4, <3>1, <3>2, <3>3 DEF ExposedApart
  <2>5. \A k \in TradeIds : ExposedApart(k)'
    BY <2>2, <2>3, <2>4 DEF ExposedApart
  <2>. QED BY <1>1, <1>2, <2>5 DEF Custody
<1>. QED BY <1>3, <1>4, ResultEffect

LEMMA CustodyOrder ==
  ASSUME IInv, Custody, NEW i \in unmanaged, SubmitOrder(i)
  PROVE  Custody'
<1>. USE DEF IInv, TypeOK, Bookkeeping
<1>0. i \in active_trades /\ i \in TradeIds /\ state[i].tag = "EntryReady"
  BY DEF SubmitOrder, Turn
<1>1. PICK req \in FreshReqs, kind \in Replies, price \in FillPrices,
           ticket \in FreshTickets \union {NoTicket} :
             \E id \in Answered(kind, req) : SendOrder(i, req, kind, id, price, ticket)
  BY DEF SubmitOrder
<1>2. PICK id \in Answered(kind, req) : SendOrder(i, req, kind, id, price, ticket)
  BY <1>1
<1>3. \A j \in jobs' : j \in jobs \/ j.ticket = NoTicket
  BY <1>2 DEF SendOrder, Accepts
<1>4. /\ UNCHANGED <<results, active_trades>>
      /\ \A k \in TradeIds \ {i} : state'[k] = state[k]
  BY <1>2 DEF SubmitOrder, SendOrder
<1>5. CASE Executed(kind)
  <2>1. IsFresh(ticket, FreshTickets) /\ positions' = positions \union {ticket}
    BY <1>2, <1>5 DEF SendOrder
  <2>2. ticket \in FreshTickets
    BY <2>1 DEF IsFresh
  <2>3. /\ ticket # NoTicket
        /\ \A k \in TradeIds : ~Holds(k, ticket)
        /\ \A r \in results : r.data.ticket # ticket
        /\ \A j \in jobs : j.ticket # ticket
    BY <2>2, FreshTicketIsNew
  <2>4. Exposed(state'[i]) => state'[i].ticket = ticket
    BY <1>0, <1>2 DEF SendOrder, AfterReply, OrderFilled, OrderTimeout, Exposed, Idle
  <2>5. ASSUME NEW k \in TradeIds \ {i}, Exposed(state[k])
        PROVE  ExposedApart(k)'
    <3>1. state[k].ticket # ticket /\ ~Holds(i, state[k].ticket)'
      BY <1>4, <2>3, <2>4, <2>5 DEF Holds
    <3>. QED BY <1>3, <1>4, <2>1, <2>5, <3>1 DEF Custody, ExposedApart, Holds
  <2>6. Exposed(state'[i]) => ExposedApart(i)'
    BY <1>0, <1>3, <1>4, <2>1, <2>3, <2>4 DEF ExposedApart, Holds
  <2>7. \A k \in TradeIds : ExposedApart(k)'
    BY <1>4, <2>5, <2>6 DEF ExposedApart
  <2>8. \A r \in results' : ReportedApart(r)'
    BY <1>3, <1>4, <2>1 DEF Custody, ReportedApart
  <2>. QED BY <2>7, <2>8 DEF Custody
<1>6. CASE ~Executed(kind)
  <2>1. UNCHANGED positions
    BY <1>2, <1>6 DEF SendOrder
  <2>2. ~Exposed(state'[i])
    <3>1. state'[i] = state[i] \/ state'[i] = Idle
          \/ Relay(RepMessage(kind, id)).data = "fill"
      BY <1>0, <1>2 DEF SendOrder, AfterReply, OrderTimeout
    <3>2. Relay(RepMessage(kind, id)).data # "fill"
      BY <1>6 DEF Relay, RepMessage, Executed
    <3>. QED BY <1>0, <3>1, <3>2 DEF Exposed, Idle
  <2>3. ASSUME NEW k \in TradeIds \ {i}, Exposed(state[k])
        PROVE  ExposedApart(k)'
    BY <1>3, <1>4, <2>1, <2>2, <2>3 DEF Custody, ExposedApart, Holds
  <2>4. \A k \in TradeIds : ExposedApart(k)'
    BY <1>4, <2>2, <2>3 DEF ExposedApart
  <2>5. \A r \in results' : ReportedApart(r)'
    BY <1>3, <1>4, <2>1 DEF Custody, ReportedApart
  <2>. QED BY <2>4, <2>5 DEF Custody
<1>. QED BY <1>5, <1>6

\* The job of a close names the ticket of a trade that exits, and only that
\* ticket may go.
LEMMA CustodyClose ==
  ASSUME IInv, Custody, NEW i \in unmanaged, SubmitClose(i)
  PROVE  Custody'
<1>. USE DEF IInv, TypeOK, Bookkeeping
<1>0. i \in active_trades /\ i \in TradeIds /\ state[i].tag = "Exiting"
  BY DEF SubmitClose, Turn
<1>. DEFINE t == state[i].ticket
<1>1. PICK req, kind, id : SendClose(i, req, kind, id)
  BY DEF SubmitClose
<1>2. UNCHANGED <<results, active_trades>>
  BY DEF SubmitClose
<1>3. \A j \in jobs' : j \in jobs \/ j.ticket = t
  BY <1>1 DEF SendClose, Accepts
<1>4. /\ positions \ {t} \subseteq positions'
      /\ \A k \in TradeIds \ {i} : state'[k] = state[k]
      /\ state'[i] = state[i] \/ state'[i] = PositionClosed(state[i])
  BY <1>0, <1>1 DEF SendClose
<1>5. t # NoTicket => /\ \A k \in TradeIds \ {i} : ~Holds(k, t)
                      /\ \A r \in results : r.data.ticket # t
  BY <1>0 DEF Custody, ExposedApart, Exposed
<1>6. ASSUME NEW k \in TradeIds \ {i}, Exposed(state[k])
      PROVE  ExposedApart(k)'
  <2>1. state[k].ticket # NoTicket => state[k].ticket # t
    BY <1>5, <1>6 DEF Holds
  <2>2. state[k].ticket # NoTicket => ~Holds(i, state[k].ticket)'
    BY <1>0, <1>4, <2>1 DEF Holds, PositionClosed, Exposed
  <2>. QED BY <1>2, <1>3, <1>4, <1>6, <2>1, <2>2 DEF Custody, ExposedApart, Holds
<1>7. ExposedApart(i)'
  BY <1>0, <1>2, <1>4, <1>5 DEF ExposedApart, Holds, PositionClosed, Exposed
<1>8. \A k \in TradeIds : ExposedApart(k)'
  BY <1>4, <1>6, <1>7 DEF ExposedApart
<1>9. \A r \in results' : ReportedApart(r)'
  BY <1>2, <1>3, <1>4, <1>5 DEF Custody, ReportedApart
<1>. QED BY <1>8, <1>9 DEF Custody

LEMMA CustodyService ==
  ASSUME IInv, Custody, NEW j \in jobs, ExecuteOrder(j) \/ ClosePosition(j)
  PROVE  Custody'
<1>. USE DEF IInv, TypeOK, Bookkeeping
<1>0. jobs' = jobs \ {j} /\ UNCHANGED <<active_trades, state>>
  BY DEF ExecuteOrder, ClosePosition, tradeVars
<1>5. NoFill.ticket = NoTicket
  BY DEF NoFill
\* No result, or one that carries no ticket.
<1>1. ASSUME NEW status, NEW shape, NEW data, data.ticket = NoTicket,
             Push(j, status, shape, data),
             positions \ {j.ticket} \subseteq positions'
      PROVE  Custody'
  <2>1. \A r \in results' : r \in results \/ r.data.ticket = NoTicket
    BY <1>1 DEF Push
  <2>2. ASSUME NEW i \in TradeIds, Exposed(state[i])
        PROVE  ExposedApart(i)'
    BY <1>0, <1>1, <2>1, <2>2 DEF Custody, ExposedApart, Holds
  <2>3. ASSUME NEW r \in results' PROVE ReportedApart(r)'
    BY <1>0, <1>1, <2>1 DEF Custody, ReportedApart
  <2>4. \A i \in TradeIds : ExposedApart(i)'
    BY <1>0, <2>2 DEF ExposedApart
  <2>. QED BY <2>3, <2>4 DEF Custody
\* A result that reports a fill, or none.
<1>2. ASSUME NEW ticket \in FreshTickets, NEW price, NEW shape,
             positions' = positions \union {ticket},
             Push(j, "ok", shape, [price |-> price, ticket |-> ticket])
      PROVE  Custody'
  <2>. DEFINE res == [req_id |-> j.req_id, op |-> j.op, status |-> "ok",
                      shape |-> shape, data |-> [price |-> price, ticket |-> ticket]]
  <2>1. results' \subseteq results \union {res} /\ res.data.ticket = ticket
    BY <1>2 DEF Push
  <2>2. /\ ticket # NoTicket
        /\ \A i \in TradeIds : ~Holds(i, ticket)
        /\ \A r \in results : r.data.ticket # ticket
        /\ \A k \in jobs : k.ticket # ticket
    BY FreshTicketIsNew
  <2>. HIDE DEF res
  <2>3. ASSUME NEW i \in TradeIds, Exposed(state[i])
        PROVE  ExposedApart(i)'
    BY <1>0, <1>2, <2>1, <2>2, <2>3 DEF Custody, ExposedApart, Holds
  <2>4. ASSUME NEW r \in results' PROVE ReportedApart(r)'
    <3>1. CASE r = res
      BY <1>0, <1>2, <2>1, <2>2, <3>1 DEF ReportedApart
    <3>2. CASE r \in results
      BY <1>0, <1>2, <2>1, <2>2, <3>2 DEF Custody, ReportedApart
    <3>. QED BY <2>1, <3>1, <3>2
  <2>5. \A i \in TradeIds : ExposedApart(i)'
    BY <1>0, <2>3 DEF ExposedApart
  <2>. QED BY <2>4, <2>5 DEF Custody
<1>3. CASE ExecuteOrder(j)
  <2>1. \/ \E ticket \in FreshTickets, price \in FillPrices, shape \in OkShapes :
             /\ positions' = positions \union {ticket}
             /\ Push(j, "ok", shape, [price |-> price, ticket |-> ticket])
        \/ Push(j, "error", "none", NoFill) /\ positions' = positions
    BY <1>3 DEF ExecuteOrder
  <2>2. CASE Push(j, "error", "none", NoFill) /\ positions' = positions
    BY <1>1, <1>5, <2>2
  <2>. QED BY <1>2, <2>1, <2>2
<1>4. CASE ClosePosition(j)
  <2>1. positions \ {j.ticket} \subseteq positions'
    BY <1>4 DEF ClosePosition
  <2>2. CASE Push(j, "error", "none", NoFill)
    BY <1>1, <1>5, <2>1, <2>2
  <2>3. ASSUME NEW price \in FillPrices,
               Push(j, "ok", "fill", [price |-> price, ticket |-> NoTicket])
        PROVE  Custody'
    <3>. DEFINE data == [price |-> price, ticket |-> NoTicket]
    <3>1. data.ticket = NoTicket /\ Push(j, "ok", "fill", data)
      BY <2>3
    <3>. HIDE DEF data
    <3>. QED BY <1>1, <2>1, <3>1
  <2>. QED BY <1>4, <2>2, <2>3 DEF ClosePosition
<1>. QED BY <1>3, <1>4

LEMMA CustodyStep == IInv /\ Awaiting /\ Custody /\ [Next]_vars => Custody'
<1>. SUFFICES ASSUME IInv, Awaiting, Custody, [Next]_vars PROVE Custody'
  OBVIOUS
<1>1. CASE \E r \in results : HandleResult(r)
  BY <1>1, CustodyResult
<1>2. CASE \E i \in unmanaged : SubmitOrder(i) \/ SubmitClose(i)
  BY <1>2, CustodyOrder, CustodyClose
<1>3. CASE \E j \in jobs : ExecuteOrder(j) \/ ClosePosition(j)
  BY <1>3, CustodyService
<1>4. ASSUME NEW i \in active_trades, CleanUp(i)
      PROVE  Custody'
  <2>1. /\ UNCHANGED <<state, jobs, results, positions>>
        /\ active_trades' = active_trades \ {i} /\ ~Exposed(state[i])
    BY <1>4 DEF CleanUp, Completed, serviceVars, Idle, Exposed
  <2>2. \A k \in TradeIds : ExposedApart(k)'
    BY <2>1 DEF Custody, ExposedApart, Holds
  <2>3. \A r \in results : ReportedApart(r)'
    BY <2>1 DEF Custody, ReportedApart
  <2>. QED BY <2>1, <2>2, <2>3 DEF Custody
<1>5. CASE /\ UNCHANGED <<pending_req_id, jobs, results, positions, unseen>>
           /\ active_trades \subseteq active_trades'
           /\ ~\E r \in results : HandleResult(r)
           /\ ~\E i \in unmanaged : SubmitOrder(i)
  BY <1>5, ExposureSteps, CustodyKept
<1>. QED BY <1>1, <1>2, <1>3, <1>4, <1>5, QueueSteps DEF QueueStep

\* Every open trade has its position, and no other trade has it, whatever the
\* service answers, refuses, delays or loses: but for a trade that took the
\* confirmation of a close for its fill, no close that the engine sends takes
\* the position of a trade that did not ask for it.
THEOREM OpenTradesCorrect == Spec => []OpenTradesArePositions
<1>1. Init => Awaiting /\ Custody
  <2>. SUFFICES ASSUME Init PROVE Awaiting /\ Custody
    OBVIOUS
  <2>1. \A i \in TradeIds : ~Exposed(state[i])
    BY DEF Init, Exposed, Idle
  <2>. QED BY <2>1 DEF Init, Awaiting, Custody, ExposedApart
<1>2. IInv /\ Custody => OpenTradesArePositions
  BY DEF IInv, TypeOK, Custody, ExposedApart, OpenTradesArePositions, Exposed
<1>. QED
  BY <1>1, <1>2, InvInit, InvStep, AwaitingStep, CustodyStep, PTL DEF Spec

-----------------------------------------------------------------------------
(***************************************************************************)
(* The global limit.  The trades in play and the new ones that the filters *)
(* have still to judge, together with the symbols the scan has still to    *)
(* visit, never exceed the limit by more than the scan can add.  Only the  *)
(* scan makes new trades, and no trade is still unjudged when the next     *)
(* scan counts.                                                            *)
(***************************************************************************)
Busy(s) == InPlay(s) \/ s.tag = "Qualifying"
Live    == {i \in active_trades : Busy(state[i])}

ScanBound == MaxParallel - 1 + Cardinality(Symbols)

JudgedInTime ==
  \A i \in active_trades : state[i].tag = "Qualifying" =>
    pc = "scan" \/ (pc = "manage" /\ i \in unmanaged)

LiveBound ==
  /\ Cardinality(Live) <= ScanBound
  /\ pc = "scan" => Cardinality(Live) + Cardinality(unscanned) <= ScanBound

\* No step but a Spawn makes a trade busy.
LEMMA LiveSteps ==
  ASSUME IInv, [Next]_vars
  PROVE  \/ Live' \subseteq Live
         \/ \E s \in Symbols : Spawn(s) /\ Live' \subseteq Live \union {trade_id_counter + 1}
<1>. USE DEF IInv, TypeOK, Bookkeeping
<1>1. ASSUME NEW i \in TradeIds, Busy(state'[i]), ~Busy(state[i])
      PROVE  \E s \in Symbols : Spawn(s) /\ i = trade_id_counter + 1
  <2>. USE DEF Busy, InPlay
  <2>1. TradeStep(i)
    BY TradeSteps
  <2>2. ASSUME NEW d \in TimeSteps, state'[i] = Elapse(state[i], d)
        PROVE  FALSE
    BY <1>1, <2>2 DEF Elapse
  <2>3. ASSUME NEW r \in results, state'[i] = AfterResult(state[i], r)
        PROVE  FALSE
    BY <1>1, <2>3 DEF AfterResult, PositionClosed, OrderFilled, OrderTimeout
  <2>4. CASE \/ Qualify(i) \/ SubmitOrder(i) \/ SubmitClose(i) \/ UpdateOpen(i)
    BY <1>1, <2>4 DEF Qualify, SubmitOrder, SubmitClose, UpdateOpen, Turn
  <2>5. ASSUME FinishCooldown(i)
        PROVE  FALSE
    BY <1>1, <2>5 DEF FinishCooldown, CooldownComplete, Idle
  <2>. QED BY <1>1, <2>1, <2>2, <2>3, <2>4, <2>5 DEF TradeStep
<1>2. CASE \E s \in Symbols : Spawn(s)
  <2>1. PICK s \in Symbols : Spawn(s)
    BY <1>2
  <2>2. active_trades' = active_trades \union {trade_id_counter + 1}
    BY <2>1 DEF Spawn
  <2>3. Live' \subseteq Live \union {trade_id_counter + 1}
    BY <1>1, <2>2 DEF Live
  <2>. QED BY <2>1, <2>3
<1>3. CASE ~\E s \in Symbols : Spawn(s)
  <2>1. active_trades' \subseteq active_trades
    BY <1>3, ActiveSteps
  <2>. QED BY <1>1, <1>3, <2>1 DEF Live
<1>. QED BY <1>2, <1>3

LEMMA JudgedStep == IInv /\ JudgedInTime /\ [Next]_vars => JudgedInTime'
<1>. SUFFICES ASSUME IInv, JudgedInTime, [Next]_vars,
                     NEW i \in active_trades', state'[i].tag = "Qualifying"
              PROVE  pc' = "scan" \/ (pc' = "manage" /\ i \in unmanaged')
  BY DEF JudgedInTime
<1>. USE DEF IInv, TypeOK, Bookkeeping, loopVars, tradeVars
<1>0. i \in TradeIds
  BY InvStep
<1>1. CASE \E s \in Symbols : Spawn(s)
  BY <1>1 DEF Spawn
<1>2. CASE ~\E s \in Symbols : Spawn(s)
  <2>1. i \in active_trades
    BY <1>2, ActiveSteps
  <2>2. state[i].tag = "Qualifying" /\ ~(i \in unmanaged /\ ManageTrade(i))
    <3>1. TradeStep(i)
      BY <1>0, TradeSteps
    <3>2. ASSUME NEW d \in TimeSteps, state'[i] = Elapse(state[i], d)
          PROVE  state[i].tag = "Qualifying"
      BY <3>2 DEF Elapse
    <3>3. ASSUME NEW r \in results, state'[i] = AfterResult(state[i], r)
          PROVE  state[i].tag = "Qualifying"
      BY <3>3 DEF AfterResult, PositionClosed, OrderFilled, OrderTimeout, Idle
    <3>4. ASSUME i \in unmanaged, ManageTrade(i)
          PROVE  FALSE
      <4>. USE <1>0 DEF Turn, Idle
      <4>1. CASE Qualify(i)
        BY <4>1 DEF Qualify, FiltersPass, FiltersReject
      <4>2. CASE AwaitFill(i) \/ AwaitClose(i) \/ SkipIdle(i)
        BY <4>2 DEF AwaitFill, AwaitClose, SkipIdle
      <4>3. CASE SubmitOrder(i)
        <5>1. PICK req, kind, id, price, ticket : SendOrder(i, req, kind, id, price, ticket)
          BY <4>3 DEF SubmitOrder
        <5>. QED BY <4>3, <5>1
             DEF SubmitOrder, SendOrder, AfterReply, OrderFilled, OrderTimeout
      <4>4. CASE SubmitClose(i)
        <5>1. PICK req, kind, id : SendClose(i, req, kind, id)
          BY <4>4 DEF SubmitClose
        <5>. QED BY <4>4, <5>1 DEF SubmitClose, SendClose, PositionClosed
      <4>5. CASE FinishCooldown(i)
        BY <4>5 DEF FinishCooldown, CooldownComplete
      <4>6. CASE UpdateOpen(i)
        <5>1. \A run, pips : ExitDecision(state[i], run, pips).tag # "Qualifying"
          BY <4>6 DEF UpdateOpen, ExitDecision, ExitSignal, ExitingFrom
        <5>. QED BY <4>6, <5>1 DEF UpdateOpen
      <4>. QED BY <3>4, <4>1, <4>2, <4>3, <4>4, <4>5, <4>6 DEF ManageTrade
    <3>. QED BY <1>2, <3>1, <3>2, <3>3, <3>4 DEF TradeStep, ManageTrade
  <2>3. pc = "scan" \/ (pc = "manage" /\ i \in unmanaged)
    BY <2>1, <2>2 DEF JudgedInTime
  <2>4. CASE MainLoop
    <3>1. CASE StartManage
      BY <2>1, <3>1 DEF StartManage
    <3>2. CASE \/ CheckKillSwitch \/ DrainMessages \/ StartScan \/ StartCleanup \/ EndTurn
               \/ Sleep \/ (\E r \in results : HandleResult(r))
               \/ (\E k \in active_trades : CleanUp(k))
      BY <2>3, <3>2 DEF CheckKillSwitch, DrainMessages, StartScan, StartCleanup, EndTurn,
         Sleep, HandleResult, CleanUp
    <3>3. CASE \E s \in Symbols : SkipSymbol(s)
      BY <2>3, <3>3 DEF SkipSymbol
    <3>4. ASSUME NEW k \in unmanaged, ManageTrade(k)
          PROVE  pc' = "manage" /\ i \in unmanaged'
      <4>1. k # i
        BY <2>2, <3>4
      <4>2. pc' = pc /\ pc = "manage" /\ unmanaged \ {k} \subseteq unmanaged'
        BY <3>4 DEF ManageTrade, Turn, Qualify, AwaitFill, SubmitOrder, UpdateOpen,
           AwaitClose, SubmitClose, FinishCooldown, SkipIdle
      <4>. QED BY <2>3, <4>1, <4>2
    <3>. QED BY <1>2, <2>4, <3>1, <3>2, <3>3, <3>4 DEF MainLoop
  <2>5. CASE Service \/ PublishAccount \/ UNCHANGED vars
    BY <2>3, <2>5 DEF Service, ExecuteOrder, ClosePosition, PublishAccount, vars
  <2>. QED BY <2>4, <2>5 DEF Next
<1>. QED BY <1>1, <1>2

\* Nothing but StartScan begins a scan, and nothing lengthens one.
LEMMA ScanSteps ==
  ASSUME [Next]_vars, ~StartScan, pc' = "scan"
  PROVE  pc = "scan" /\ unscanned' \subseteq unscanned
<1>. USE DEF loopVars
<1>1. CASE \/ CheckKillSwitch \/ DrainMessages \/ StartManage \/ StartCleanup \/ EndTurn
           \/ Sleep \/ PublishAccount \/ UNCHANGED vars
           \/ \E s \in Symbols : Spawn(s) \/ SkipSymbol(s)
           \/ \E i \in active_trades : CleanUp(i)
           \/ \E r \in results : HandleResult(r)
  BY <1>1 DEF CheckKillSwitch, DrainMessages, StartManage, StartCleanup, EndTurn, Sleep,
     PublishAccount, vars, Spawn, SkipSymbol, CleanUp, HandleResult
<1>2. ASSUME NEW i \in unmanaged, ManageTrade(i)
      PROVE  pc' = pc /\ unscanned' = unscanned
  BY <1>2 DEF ManageTrade, Turn, Qualify, AwaitFill, SubmitOrder, UpdateOpen,
     AwaitClose, SubmitClose, FinishCooldown, SkipIdle
<1>3. CASE Service
  BY <1>3 DEF Service, ExecuteOrder, ClosePosition
<1>. QED BY <1>1, <1>2, <1>3 DEF Next, MainLoop

LEMMA LiveBoundStep ==
  ASSUME IsFiniteSet(Symbols)
  PROVE  IInv /\ JudgedInTime /\ LiveBound /\ [Next]_vars => LiveBound'
<1>. SUFFICES ASSUME IInv, JudgedInTime, LiveBound, [Next]_vars PROVE LiveBound'
  OBVIOUS
<1>. USE DEF IInv, TypeOK, Bookkeeping
<1>0. ScanBound \in Int /\ ScanBound' = ScanBound
  BY RiskAssumption, FS_CardinalityType DEF ScanBound
<1>1. \A T \in SUBSET TradeIds : IsFiniteSet(T) /\ Cardinality(T) \in Nat
  BY TradesFinite
<1>2. Live \in SUBSET TradeIds /\ Live' \in SUBSET TradeIds
  BY InvStep DEF Live
<1>3. \A T \in SUBSET Symbols : IsFiniteSet(T) /\ Cardinality(T) \in Nat
  BY FS_Subset, FS_CardinalityType
<1>4. CASE \E s \in Symbols : Spawn(s)
  <2>1. PICK s \in Symbols : Spawn(s)
    BY <1>4
  <2>2. /\ pc = "scan" /\ pc' = "scan" /\ s \in unscanned
        /\ unscanned' = unscanned \ {s}
    BY <2>1 DEF Spawn
  <2>3. Cardinality(unscanned') = Cardinality(unscanned) - 1
    BY <1>3, <2>2, FS_RemoveElement
  <2>4. Cardinality(Live') <= Cardinality(Live) + 1
    <3>. DEFINE grown == Live \union {trade_id_counter + 1}
    <3>1. Live' \subseteq grown
      BY LiveSteps
    <3>2. /\ IsFiniteSet(grown)
          /\ Cardinality(grown) \in {Cardinality(Live), Cardinality(Live) + 1}
      BY <1>1, <1>2, FS_AddElement
    <3>3. Cardinality(Live') <= Cardinality(grown)
      BY <3>1, <3>2, FS_Subset
    <3>. HIDE DEF grown
    <3>. QED BY <1>1, <1>2, <3>2, <3>3
  <2>5. Cardinality(Live) + Cardinality(unscanned) <= ScanBound
    BY <2>2 DEF LiveBound
  <2>. QED BY <1>0, <1>1, <1>2, <1>3, <2>2, <2>3, <2>4, <2>5 DEF LiveBound
<1>5. CASE ~\E s \in Symbols : Spawn(s)
  <2>1. Cardinality(Live') <= Cardinality(Live)
    BY <1>1, <1>2, <1>5, LiveSteps, FS_Subset
  <2>2. Cardinality(Live) <= ScanBound
    BY DEF LiveBound
  <2>3. CASE StartScan
    <3>1. Live = {i \in active_trades : InPlay(state[i])}
      BY <2>3 DEF StartScan, JudgedInTime, Live, Busy
    <3>2. CASE GlobalCount < MaxParallel
      <4>1. Cardinality(Live) < MaxParallel
        BY <3>1, <3>2 DEF GlobalCount
      <4>2. unscanned' = Symbols
        BY <2>3, <3>2 DEF StartScan
      <4>. QED BY <1>1, <1>2, <1>3, <2>1, <2>2, <4>1, <4>2, RiskAssumption
           DEF LiveBound, ScanBound
    <3>3. CASE ~(GlobalCount < MaxParallel)
      <4>1. unscanned' = {}
        BY <2>3, <3>3 DEF StartScan
      <4>2. Cardinality(unscanned') = 0
        BY <4>1, FS_EmptySet
      <4>. QED BY <1>0, <1>1, <1>2, <2>1, <2>2, <4>2 DEF LiveBound
    <3>. QED BY <3>2, <3>3
  <2>4. CASE ~StartScan
    <3>1. pc' = "scan" => pc = "scan" /\ unscanned' \subseteq unscanned
      BY <1>5, <2>4, ScanSteps
    <3>2. unscanned' \subseteq unscanned => Cardinality(unscanned') <= Cardinality(unscanned)
      BY <1>3, FS_Subset
    <3>3. pc = "scan" => Cardinality(Live) + Cardinality(unscanned) <= ScanBound
      BY DEF LiveBound
    <3>4. Cardinality(unscanned) \in Nat /\ Cardinality(unscanned') \in Nat
      BY <1>3, InvStep
    <3>. QED BY <1>0, <1>1, <1>2, <2>1, <2>2, <3>1, <3>2, <3>3, <3>4 DEF LiveBound
  <2>. QED BY <2>3, <2>4
<1>. QED BY <1>4, <1>5

\* However many trades wait, and whatever the broker reports as open, the trades
\* in play exceed the global limit by one less than there are symbols at most.
THEOREM ParallelCorrect ==
  ASSUME IsFiniteSet(Symbols), Symbols # {} PROVE Spec => []ParallelBound
<1>1. Init => JudgedInTime /\ LiveBound
  <2>. SUFFICES ASSUME Init PROVE JudgedInTime /\ LiveBound
    OBVIOUS
  <2>1. Live = {} /\ pc = "kill"
    BY DEF Init, Live
  <2>2. Cardinality(Live) = 0
    BY <2>1, FS_EmptySet
  <2>3. Cardinality(Symbols) \in Nat /\ Cardinality(Symbols) # 0
    BY FS_CardinalityType, FS_EmptySet
  <2>. QED BY <2>1, <2>2, <2>3, RiskAssumption DEF Init, JudgedInTime, LiveBound, ScanBound
<1>2. IInv /\ LiveBound => ParallelBound
  <2>. SUFFICES ASSUME IInv, LiveBound PROVE ParallelBound
    OBVIOUS
  <2>. DEFINE inPlay == {i \in active_trades : InPlay(state[i])}
  <2>1. inPlay \subseteq Live /\ Live \in SUBSET TradeIds
    BY DEF Live, Busy, IInv, TypeOK
  <2>2. IsFiniteSet(Live)
    BY <2>1, TradesFinite
  <2>3. Cardinality(inPlay) <= Cardinality(Live)
    BY <2>1, <2>2, FS_Subset
  <2>4. IsFiniteSet(inPlay)
    BY <2>1, <2>2, FS_Subset
  <2>5. /\ Cardinality(inPlay) \in Nat /\ Cardinality(Live) \in Nat
        /\ Cardinality(Symbols) \in Nat
    BY <2>2, <2>4, FS_CardinalityType
  <2>. HIDE DEF inPlay
  <2>6. Cardinality(inPlay) <= ScanBound
    BY <2>3, <2>5, RiskAssumption DEF LiveBound, ScanBound
  <2>. QED BY <2>6 DEF ParallelBound, GlobalCount, ScanBound, inPlay
<1>. QED BY <1>1, <1>2, InvInit, InvStep, JudgedStep, LiveBoundStep, PTL DEF Spec

-----------------------------------------------------------------------------
(***************************************************************************)
(* What the Vec does not hold is as it was before it was spawned, and a    *)
(* trade id is never used again.                                           *)
(***************************************************************************)
Dormant ==
  /\ \A i \in TradeIds \ active_trades : state[i] = Idle
  /\ active_trades \subseteq 1..trade_id_counter

LEMMA CounterSteps ==
  ASSUME [Next]_vars, ~\E s \in Symbols : Spawn(s)
  PROVE  trade_id_counter' = trade_id_counter
<1>. USE DEF tradeVars
<1>1. CASE \/ CheckKillSwitch \/ DrainMessages \/ StartScan \/ StartManage
           \/ StartCleanup \/ EndTurn \/ PublishAccount \/ Sleep \/ UNCHANGED vars
           \/ \E s \in Symbols : SkipSymbol(s)
           \/ \E i \in active_trades : CleanUp(i)
           \/ \E r \in results : HandleResult(r)
  BY <1>1 DEF CheckKillSwitch, DrainMessages, StartScan, StartManage, StartCleanup,
     EndTurn, PublishAccount, Sleep, vars, SkipSymbol, CleanUp, HandleResult
<1>2. ASSUME NEW i \in unmanaged, ManageTrade(i)
      PROVE  trade_id_counter' = trade_id_counter
  BY <1>2 DEF ManageTrade, Qualify, AwaitFill, SubmitOrder, UpdateOpen, AwaitClose,
     SubmitClose, FinishCooldown, SkipIdle
<1>3. CASE Service
  BY <1>3 DEF Service, ExecuteOrder, ClosePosition
<1>. QED BY <1>1, <1>2, <1>3 DEF Next, MainLoop

LEMMA DormantStep == IInv /\ Dormant /\ [Next]_vars => Dormant'
<1>. SUFFICES ASSUME IInv, Dormant, [Next]_vars PROVE Dormant'
  OBVIOUS
<1>. USE DEF IInv, TypeOK, Bookkeeping
<1>1. ASSUME NEW i \in TradeIds \ active_trades'
      PROVE  state'[i] = Idle
  <2>1. TradeStep(i)
    BY TradeSteps
  <2>2. state[i] = Idle
    BY ActiveSteps DEF Dormant
  <2>3. \A d : Elapse(Idle, d) = Idle
    BY DEF Elapse, Idle
  <2>4. i \notin active_trades \/ (i \in active_trades /\ CleanUp(i))
    BY ActiveSteps
  <2>5. CASE CleanUp(i)
    BY <2>2, <2>5 DEF CleanUp
  <2>6. CASE i \notin active_trades
    <3>1. ~\E s \in Symbols : Spawn(s) /\ i = trade_id_counter + 1
      BY DEF Spawn
    <3>. QED BY <2>1, <2>2, <2>3, <2>6, <3>1 DEF TradeStep
  <2>. QED BY <2>4, <2>5, <2>6
<1>2. active_trades' \subseteq 1..trade_id_counter'
  <2>1. CASE \E s \in Symbols : Spawn(s)
    <3>1. /\ active_trades' = active_trades \union {trade_id_counter + 1}
          /\ trade_id_counter' = trade_id_counter + 1
      BY <2>1 DEF Spawn
    <3>2. trade_id_counter \in Nat
      BY EngineAssumption
    <3>. QED BY <3>1, <3>2 DEF Dormant
  <2>2. CASE ~\E s \in Symbols : Spawn(s)
    <3>1. active_trades' \subseteq active_trades
      BY <2>2, ActiveSteps
    <3>. QED BY <2>2, <3>1, CounterSteps DEF Dormant
  <2>. QED BY <2>1, <2>2
<1>. QED BY <1>1, <1>2 DEF Dormant

-----------------------------------------------------------------------------
(***************************************************************************)
(* Only trades that are not in loss, or three stops away, are closed.  The *)
(* sizes that make it so are fixed on entry: a lot at least, a stop of 30  *)
(* pips at least and a take profit of two stops; and the run measures from *)
(* the entry and by the stop of its position.                              *)
(***************************************************************************)
SizedWell(i) == LET s == state[i]  run == active_run[i] IN
  /\ s.tag \in {"Qualifying", "EntryReady"} => run = NoRun
  /\ s.tag = "EntryReady" => s.sl_pips >= 30 /\ s.calculated_lots >= 1
  /\ s.tag = "PositionOpen" =>
       /\ s.sl_pips >= 30 /\ s.current_lots >= 1 /\ s.tp_pips = 2 * s.sl_pips
       /\ run = NoRun \/ (run.entry_price = s.entry_price /\ run.sl_pips = s.sl_pips)
  /\ s.tag \in {"Exiting", "Cooldown"} => PaidOrStopped(i)

LEMMA SizingFloors ==
  /\ \A equity \in Int : InitialLots(equity) >= 1
  /\ \A s, type : \A quote \in Quote : StopPips(s, quote, type) >= 30
<1>1. ASSUME NEW equity \in Int PROVE InitialLots(equity) >= 1
  <2>1. MaxPositionLots \in Int /\ LotPer1000 \in Int
    BY RiskAssumption
  <2>2. (equity * LotPer1000 + 50000) \div 100000 \in Int
    BY <2>1
  <2>. QED BY <2>1, <2>2 DEF InitialLots, GreatestOf, LeastOf
<1>2. ASSUME NEW s, NEW type, NEW quote \in Quote
      PROVE  StopPips(s, quote, type) >= 30
  <2>1. \A n \in Int : n >= 30 => (12 * n) \div 10 >= 30
    OBVIOUS
  <2>. QED BY <2>1 DEF StopPips, Quote, GreatestOf
<1>. QED BY <1>1, <1>2

\* A move in favour is worth no loss, whatever a point is worth.
LEMMA ValueOfGain ==
  ASSUME NEW quote \in Quote, NEW pips \in Int, pips > 0, NEW lots \in Int, lots >= 1
  PROVE  Value(quote, pips, lots) >= 0
<1>1. \A a, b \in Int : a * b \in Int /\ (a >= 0 /\ b >= 0 => a * b >= 0)
  OBVIOUS
<1>2. PICK points \in Int, tick_value \in Int :
        /\ points = quote.points /\ points >= 0
        /\ tick_value = quote.tick_value /\ tick_value >= 0
  BY DEF Quote
<1>3. pips * points >= 0 /\ pips * points \in Int
  BY <1>1, <1>2
<1>4. pips * points * tick_value >= 0 /\ pips * points * tick_value \in Int
  BY <1>1, <1>2, <1>3
<1>5. pips * points * tick_value * lots >= 0
  BY <1>1, <1>4
<1>6. 10 * pips * lots >= 0
  BY <1>1
<1>. QED BY <1>2, <1>5, <1>6 DEF Value

\* A run keeps its entry, its stop, its price and its profit, except where the
\* position is followed and where the trade is dropped.
LEMMA RunKept ==
  ASSUME IInv, [Next]_vars, NEW i \in TradeIds,
         ~(i \in unmanaged /\ UpdateOpen(i)), ~(i \in active_trades /\ CleanUp(i))
  PROVE  /\ active_run[i] = NoRun => active_run'[i] = NoRun
         /\ \A f \in {"entry_price", "price", "sl_pips", "unrealized_pnl"} :
              active_run'[i][f] = active_run[i][f]
<1>. USE DEF IInv, TypeOK, Bookkeeping, tradeVars
<1>1. CASE \/ CheckKillSwitch \/ DrainMessages \/ StartScan \/ StartManage
           \/ StartCleanup \/ EndTurn \/ PublishAccount \/ UNCHANGED vars
           \/ \E s \in Symbols : Spawn(s) \/ SkipSymbol(s)
           \/ \E r \in results : HandleResult(r)
  BY <1>1 DEF CheckKillSwitch, DrainMessages, StartScan, StartManage, StartCleanup,
     EndTurn, PublishAccount, vars, Spawn, SkipSymbol, HandleResult
<1>2. CASE Sleep
  <2>1. PICK n : active_run'[i] = IF active_run[i] = NoRun THEN NoRun
                                  ELSE [active_run[i] EXCEPT !.idle_ms = n]
    BY <1>2 DEF Sleep
  <2>2. active_run[i] \in Run
    OBVIOUS
  <2>. QED BY <2>1, <2>2 DEF Run
<1>3. ASSUME NEW k \in unmanaged, ManageTrade(k)
      PROVE  active_run'[i] = active_run[i]
  <2>1. CASE UpdateOpen(k)
    BY <2>1 DEF UpdateOpen
  <2>2. CASE ~UpdateOpen(k)
    BY <1>3, <2>2 DEF ManageTrade, Qualify, AwaitFill, SubmitOrder, AwaitClose,
       SubmitClose, FinishCooldown, SkipIdle
  <2>. QED BY <2>1, <2>2
<1>4. ASSUME NEW k \in active_trades, CleanUp(k)
      PROVE  active_run'[i] = active_run[i]
  BY <1>4 DEF CleanUp
<1>5. CASE Service
  BY <1>5 DEF Service, ExecuteOrder, ClosePosition
<1>. QED BY <1>1, <1>2, <1>3, <1>4, <1>5 DEF Next, MainLoop

\* An open position: the price decides, and only a gain or three stops close.
LEMMA SizedUpdate ==
  ASSUME IInv, NEW i \in unmanaged, UpdateOpen(i), SizedWell(i)
  PROVE  SizedWell(i)'
<1>. USE DEF IInv, TypeOK, Bookkeeping
<1>. DEFINE s    == state[i]
            now  == tick[symbol[i]]
            seen == IF active_run[i] = NoRun
                    THEN NewRun(s.entry_price, s.current_lots, s.sl_pips)
                    ELSE active_run[i]
            pips == Pips(s, now.price)
            run  == UpdatePrice(seen, now.price, Value(now, pips, s.current_lots))
<1>0. i \in active_trades /\ i \in TradeIds
  OBVIOUS
<1>1. s \in PositionState /\ s.tag = "PositionOpen"
  BY <1>0 DEF UpdateOpen, Turn, TradingState, IdleState, QualifyingState,
              EntryReadyState, ExitingState, CooldownState
<1>2. /\ s.current_lots \in Int /\ s.entry_price \in Int
      /\ s.sl_pips \in Int /\ s.tp_pips \in Int
  BY <1>1 DEF PositionState
<1>3. /\ s.sl_pips >= 30 /\ s.current_lots >= 1 /\ s.tp_pips = 2 * s.sl_pips
      /\ \/ active_run[i] = NoRun
         \/ active_run[i].entry_price = s.entry_price /\ active_run[i].sl_pips = s.sl_pips
  BY <1>1 DEF SizedWell
<1>4. seen \in Run /\ seen.entry_price = s.entry_price /\ seen.sl_pips = s.sl_pips
  BY <1>0, <1>2, <1>3, RunsType DEF NewRun
<1>5. now \in Quote /\ now.price \in Int
  BY <1>0, EngineAssumption DEF NoQuote, Quote
<1>6. pips \in Int /\ pips \in {now.price - s.entry_price, s.entry_price - now.price}
  BY <1>2, <1>5 DEF Pips
<1>7. /\ run.entry_price = s.entry_price /\ run.sl_pips = s.sl_pips
      /\ run.price = now.price
      /\ run.unrealized_pnl = Value(now, pips, s.current_lots)
  <2>. HIDE DEF s, now, seen, pips
  <2>. QED BY <1>4 DEF UpdatePrice, Run
<1>8. \/ active_run'[i] = seen /\ state'[i] = s
      \/ active_run'[i] = run /\ state'[i] = ExitDecision(s, run, pips)
  BY <1>0 DEF UpdateOpen
<1>9. CASE active_run'[i] = seen /\ state'[i] = s
  BY <1>1, <1>3, <1>4, <1>9 DEF SizedWell
<1>10. CASE active_run'[i] = run /\ state'[i] = ExitDecision(s, run, pips)
  <2>1. CASE pips >= s.tp_pips \/ pips <= -(3 * s.sl_pips) \/ pips > 0
    <3>. HIDE DEF s, now, seen, pips, run
    <3>1. ASSUME pips <= -(3 * s.sl_pips)
          PROVE  PaidOrStopped(i)'
      <4>1. Distance(run) >= 3 * run.sl_pips
        BY <1>2, <1>5, <1>6, <1>7, <3>1 DEF Distance, GreatestOf
      <4>. QED BY <1>10, <4>1 DEF PaidOrStopped
    <3>2. ASSUME pips > 0
          PROVE  PaidOrStopped(i)'
      <4>1. run.unrealized_pnl >= 0 /\ run.unrealized_pnl \in Int
        BY <1>2, <1>3, <1>5, <1>6, <1>7, <3>2, ValueOfGain, ValueType
      <4>2. ~(run.unrealized_pnl < 0)
        BY <4>1
      <4>. QED BY <1>10, <4>2 DEF PaidOrStopped
    <3>3. pips > 0 \/ pips <= -(3 * s.sl_pips)
      BY <1>2, <1>3, <1>6, <2>1
    <3>4. state'[i] = s \/ state'[i].tag = "Exiting"
      BY <1>1, <1>10 DEF ExitDecision, ExitSignal, ExitingFrom
    <3>5. PaidOrStopped(i)'
      BY <3>1, <3>2, <3>3
    <3>. QED BY <1>1, <1>3, <1>7, <1>10, <3>4, <3>5 DEF SizedWell
  <2>2. CASE ~(pips >= s.tp_pips \/ pips <= -(3 * s.sl_pips) \/ pips > 0)
    <3>. HIDE DEF now, seen, pips, run
    <3>1. state'[i] = s
      BY <1>10, <2>2 DEF ExitDecision
    <3>. QED BY <1>1, <1>3, <1>7, <1>10, <3>1 DEF SizedWell
  <2>. QED BY <2>1, <2>2
<1>. QED BY <1>8, <1>9, <1>10

LEMMA SizedStep ==
  IInv /\ Dormant /\ (\A i \in TradeIds : SizedWell(i)) /\ [Next]_vars
    => (\A i \in TradeIds : SizedWell(i))'
<1>. SUFFICES ASSUME IInv, Dormant, [Next]_vars, NEW i \in TradeIds, SizedWell(i)
              PROVE  SizedWell(i)'
  OBVIOUS
<1>. USE DEF IInv, TypeOK, Bookkeeping
<1>1. CASE i \in unmanaged /\ UpdateOpen(i)
  BY <1>1, SizedUpdate
<1>2. CASE i \in active_trades /\ CleanUp(i)
  BY <1>2 DEF CleanUp, Completed, Idle, SizedWell
<1>3. CASE ~(i \in unmanaged /\ UpdateOpen(i)) /\ ~(i \in active_trades /\ CleanUp(i))
  <2>. DEFINE old == state[i]
              new == state'[i]
  <2>1. /\ active_run[i] = NoRun => active_run'[i] = NoRun
        /\ active_run'[i].entry_price = active_run[i].entry_price
        /\ active_run'[i].sl_pips = active_run[i].sl_pips
        /\ PaidOrStopped(i) => PaidOrStopped(i)'
    BY <1>3, RunKept DEF PaidOrStopped, Distance
  <2>2. CASE /\ new.tag = old.tag
             /\ old.tag = "EntryReady" => /\ new.sl_pips = old.sl_pips
                                          /\ new.calculated_lots = old.calculated_lots
             /\ old.tag = "PositionOpen" => new = old
    BY <2>1, <2>2 DEF SizedWell
  <2>3. CASE old.tag = "EntryReady" /\ \E price, ticket : new = OrderFilled(old, price, ticket)
    BY <2>1, <2>3 DEF SizedWell, OrderFilled
  <2>4. CASE new = Idle
    BY <2>4 DEF SizedWell, Idle
  <2>5. CASE old.tag = "Exiting" /\ new = PositionClosed(old)
    BY <2>1, <2>5 DEF SizedWell, PositionClosed
  <2>6. CASE old.tag # "Exiting" /\ \E r \in results : new = AfterResult(old, r)
    BY <2>2, <2>3, <2>4, <2>6 DEF AfterResult, OrderFilled, OrderTimeout
  <2>7. ASSUME NEW d \in TimeSteps, new = Elapse(old, d)
        PROVE  SizedWell(i)'
    <3>1. old \in TradingState
      OBVIOUS
    <3>. HIDE DEF old, new
    <3>2. /\ new.tag = old.tag
          /\ old.tag = "EntryReady" => /\ new.sl_pips = old.sl_pips
                                       /\ new.calculated_lots = old.calculated_lots
          /\ old.tag = "PositionOpen" => new = old
      BY <2>7, <3>1 DEF Elapse, TradingState, IdleState, QualifyingState, EntryReadyState,
                        PositionState, ExitingState, CooldownState
    <3>. QED BY <2>2, <3>2
  <2>8. ASSUME NEW s \in Symbols, NEW g \in Signals, Spawn(s), i = trade_id_counter + 1,
               new = SignalDetected(old, s, g.dir, g.type)
        PROVE  SizedWell(i)'
    <3>1. i \notin active_trades
      BY <2>8 DEF Dormant
    <3>2. old = Idle /\ active_run[i] = NoRun
      BY <3>1 DEF Dormant
    <3>. QED BY <2>1, <2>8, <3>2 DEF SizedWell, SignalDetected, Idle
  <2>9. ASSUME i \in unmanaged, Qualify(i)
        PROVE  SizedWell(i)'
    <3>1. InitialLots(account.equity) >= 1
      BY SizingFloors DEF AccountState
    <3>2. \A type : StopPips(symbol[i], tick[symbol[i]], type) >= 30
      <4>1. tick[symbol[i]] \in Quote
        BY <2>9, EngineAssumption DEF NoQuote, Quote
      <4>. QED BY <4>1, SizingFloors
    <3>3. \E lots, sl : /\ lots >= 1 /\ sl >= 30
                        /\ new = FiltersPass(old, lots, sl) \/ new = FiltersReject(old)
      <4>1. \/ new = FiltersReject(old)
            \/ new = FiltersPass(old, InitialLots(account.equity),
                       StopPips(symbol[i], tick[symbol[i]], old.signal_type))
        BY <2>9 DEF Qualify
      <4>. QED BY <3>1, <3>2, <4>1
    <3>4. old.tag = "Qualifying"
      BY <2>9 DEF Qualify, Turn
    <3>. QED BY <2>1, <3>3, <3>4 DEF SizedWell, FiltersPass, FiltersReject, Idle
  <2>10. ASSUME SubmitOrder(i), i \in unmanaged
         PROVE  SizedWell(i)'
    <3>1. PICK req, kind, id, price, ticket : SendOrder(i, req, kind, id, price, ticket)
      BY <2>10 DEF SubmitOrder
    <3>2. old.tag = "EntryReady"
      BY <2>10 DEF SubmitOrder, Turn
    <3>3. new = old \/ new = Idle \/ new = OrderFilled(old, price, ticket)
      BY <3>1, <3>2 DEF SendOrder, AfterReply, OrderTimeout
    <3>. QED BY <2>2, <2>3, <2>4, <3>2, <3>3
  <2>11. ASSUME SubmitClose(i), i \in unmanaged
         PROVE  SizedWell(i)'
    <3>1. PICK req, kind, id : SendClose(i, req, kind, id)
      BY <2>11 DEF SubmitClose
    <3>2. old.tag = "Exiting"
      BY <2>11 DEF SubmitClose, Turn
    <3>3. new = old \/ new = PositionClosed(old)
      BY <3>1 DEF SendClose
    <3>. QED BY <2>2, <2>5, <3>2, <3>3
  <2>12. ASSUME FinishCooldown(i), i \in unmanaged
         PROVE  SizedWell(i)'
    <3>1. new = old \/ new = Idle
      BY <2>12 DEF FinishCooldown, CooldownComplete
    <3>. QED BY <2>2, <2>4, <3>1
  <2>13. TradeStep(i)
    BY TradeSteps
  <2>14. ASSUME NEW r \in results, new = AfterResult(old, r)
         PROVE  SizedWell(i)'
    <3>1. CASE old.tag = "Exiting"
      BY <2>5, <2>14, <3>1 DEF AfterResult
    <3>. QED BY <2>6, <2>14, <3>1
  <2>. HIDE DEF old, new
  <2>15. CASE new = old
    BY <2>2, <2>15
  <2>. QED
    BY <1>3, <2>7, <2>8, <2>9, <2>10, <2>11, <2>12, <2>13, <2>14, <2>15
    DEF TradeStep, old, new
<1>. QED BY <1>1, <1>2, <1>3

\* Every trade that is being closed, or cools down, shows no loss or was closed
\* three of its own stops away from its entry, whatever a pip is worth, and the
\* books still say so, whatever prices, answers and delays came since.
THEOREM PaidCorrect == Spec => []ClosedTradesArePaid
<1>1. Init => Dormant /\ \A i \in TradeIds : SizedWell(i)
  <2>. SUFFICES ASSUME Init PROVE Dormant /\ \A i \in TradeIds : SizedWell(i)
    OBVIOUS
  <2>1. \A i \in TradeIds : state[i] = Idle
    BY DEF Init
  <2>. QED BY <2>1 DEF Init, Dormant, SizedWell, Idle
<1>2. IInv /\ (\A i \in TradeIds : SizedWell(i)) => ClosedTradesArePaid
  BY DEF IInv, TypeOK, SizedWell, ClosedTradesArePaid
<1>. QED BY <1>1, <1>2, InvInit, InvStep, DormantStep, SizedStep, PTL DEF Spec

-----------------------------------------------------------------------------
(***************************************************************************)
(* The limit that can_enter uses and the one the loop stops at differ: the *)
(* first is 0 until an account message comes, the second follows the       *)
(* balance from the start.  A broker that starts with a negative balance   *)
(* is stopped by the first check, before any entry.                        *)
(***************************************************************************)
LimitInv ==
  \/ account.daily_loss_limit = LossLimit
  \/ /\ account.daily_loss_limit = 0
     /\ LossLimit >= 0 \/ (pc \in {"kill", "halted"} /\ daily_pnl = 0)

LEMMA LimitInit == Init => LimitInv
BY DEF Init, LimitInv

LEMMA LimitKept ==
  ASSUME LimitInv, UNCHANGED <<account, daily_pnl>>,
         pc' = pc \/ LossLimit >= 0 \/ account.daily_loss_limit = LossLimit
  PROVE  LimitInv'
BY DEF LimitInv, LossLimit, DailyLimit

LEMMA LimitStep == IInv /\ LimitInv /\ [Next]_vars => LimitInv'
<1>. SUFFICES ASSUME IInv, LimitInv, [Next]_vars PROVE LimitInv'
  OBVIOUS
<1>. USE DEF loopVars, marketVars, riskVars
<1>0. LossLimit \in Int /\ daily_pnl \in Int
  BY RiskAssumption DEF IInv, TypeOK, AccountState, LossLimit, DailyLimit
<1>1. CASE CheckKillSwitch
  <2>1. CASE account.daily_loss_limit = LossLimit \/ LossLimit >= 0
    BY <1>1, <2>1, LimitKept DEF CheckKillSwitch
  <2>2. CASE ~(account.daily_loss_limit = LossLimit \/ LossLimit >= 0)
    <3>1. account.daily_loss_limit = 0 /\ LossLimit < 0 /\ daily_pnl = 0
      BY <1>0, <2>2 DEF LimitInv
    <3>2. DailyLossHit
      BY <1>0, <3>1 DEF DailyLossHit
    <3>3. kill_switch'
      BY <1>1, <3>2 DEF CheckKillSwitch
    <3>4. pc' = "halted"
      BY <1>1, <3>3 DEF CheckKillSwitch
    <3>. QED BY <1>1, <3>1, <3>4 DEF CheckKillSwitch, LimitInv
  <2>. QED BY <2>1, <2>2
<1>2. CASE DrainMessages
  <2>1. UNCHANGED account \/ account'.daily_loss_limit = DailyLimit(account'.balance)
    BY <1>2 DEF DrainMessages
  <2>2. pc = "messages" /\ UNCHANGED daily_pnl
    BY <1>2 DEF DrainMessages
  <2>. QED BY <2>1, <2>2 DEF LimitInv, LossLimit
<1>3. ASSUME NEW i \in active_trades, CleanUp(i)
      PROVE  LimitInv'
  BY <1>3 DEF CleanUp, LimitInv, LossLimit
<1>4. CASE StartScan \/ StartManage \/ StartCleanup \/ EndTurn \/ Sleep
  BY <1>4, LimitKept DEF LimitInv, StartScan, StartManage, StartCleanup, EndTurn, Sleep
<1>5. ASSUME NEW r \in results, HandleResult(r)
      PROVE  LimitInv'
  BY <1>5, LimitKept DEF HandleResult
<1>6. ASSUME NEW s \in Symbols, Spawn(s) \/ SkipSymbol(s)
      PROVE  LimitInv'
  BY <1>6, LimitKept DEF Spawn, SkipSymbol
<1>7. ASSUME NEW i \in unmanaged, ManageTrade(i)
      PROVE  LimitInv'
  BY <1>7, LimitKept DEF ManageTrade, Qualify, AwaitFill, SubmitOrder, UpdateOpen,
     AwaitClose, SubmitClose, FinishCooldown, SkipIdle
<1>8. ASSUME NEW j \in jobs, ExecuteOrder(j) \/ ClosePosition(j)
      PROVE  LimitInv'
  BY <1>8, LimitKept DEF ExecuteOrder, ClosePosition
<1>9. CASE PublishAccount
  BY <1>9, LimitKept DEF PublishAccount
<1>10. CASE UNCHANGED vars
  BY <1>10, LimitKept DEF vars
<1>. QED
  BY <1>1, <1>2, <1>3, <1>4, <1>5, <1>6, <1>7, <1>8, <1>9, <1>10
  DEF Next, MainLoop, Service

\* Only the filters let a trade enter.
LEMMA EntersByFilters ==
  ASSUME IInv, [Next]_vars, NEW i \in TradeIds, Enters(i)
  PROVE  i \in unmanaged /\ Qualify(i)
<1>1. TradeStep(i) /\ state[i].tag = "Qualifying" /\ state'[i].tag = "EntryReady"
  BY TradeSteps DEF Enters
<1>2. \A d, s, dir, type : /\ Elapse(state[i], d) = state[i]
                           /\ SignalDetected(state[i], s, dir, type) = state[i]
  BY <1>1 DEF Elapse, SignalDetected
<1>3. \A r : AfterResult(state[i], r) = state[i]
  BY <1>1 DEF AfterResult, OrderFilled, OrderTimeout
<1>4. ASSUME i \in unmanaged,
             SubmitOrder(i) \/ SubmitClose(i) \/ UpdateOpen(i) \/ FinishCooldown(i)
      PROVE  FALSE
  BY <1>1, <1>4 DEF SubmitOrder, SubmitClose, UpdateOpen, FinishCooldown, Turn
<1>. QED BY <1>1, <1>2, <1>3, <1>4 DEF TradeStep

\* No entry passes the filters once the realized loss is beyond the limit of
\* the balance the engine knows, whatever balances the broker reports.
THEOREM LossStopsEntries == Spec => NoEntryPastLimit
<1>1. ASSUME IInv, LimitInv, [Next]_vars, NEW i \in TradeIds, Enters(i)
      PROVE  ~DailyLossHit
  <2>1. i \in unmanaged /\ Qualify(i) /\ pc = "manage"
    BY <1>1, EntersByFilters DEF Qualify, Turn
  <2>2. MayEnter(i)
    <3>. SUFFICES ASSUME ~MayEnter(i) PROVE FALSE
      OBVIOUS
    <3>1. state'[i] = FiltersReject(state[i])
      BY <1>1, <2>1 DEF Qualify, IInv, TypeOK
    <3>. QED BY <1>1, <3>1 DEF FiltersReject, Enters, Idle
  <2>3. daily_pnl >= -account.daily_loss_limit
    BY <2>2 DEF MayEnter, CanEnter
  <2>4. LossLimit \in Int /\ daily_pnl \in Int
    BY <1>1, RiskAssumption DEF IInv, TypeOK, AccountState, LossLimit, DailyLimit
  <2>5. account.daily_loss_limit = LossLimit \/ (account.daily_loss_limit = 0 /\ LossLimit >= 0)
    BY <1>1, <2>1 DEF LimitInv
  <2>. QED BY <2>3, <2>4, <2>5 DEF DailyLossHit
<1>2. IInv /\ LimitInv /\ [Next]_vars =>
        [\A i \in TradeIds : Enters(i) => ~DailyLossHit]_vars
  BY <1>1
<1>. QED BY <1>2, InvInit, InvStep, LimitInit, LimitStep, PTL DEF Spec, NoEntryPastLimit

-----------------------------------------------------------------------------
(***************************************************************************)
(* Each trade implements the state machine.  What feeds its events comes   *)
(* from outside, and has the values the broker may use: the equity that    *)
(* sizes an order is one the broker published, a fill has a price that was *)
(* quoted and a ticket of the broker's.                                    *)
(***************************************************************************)
Equities == {a.equity : a \in Accounts \union {DefaultAccount}}

FromOutside ==
  /\ account.equity \in Equities
  /\ \A m \in account_msg : m.equity \in Equities
  /\ \A r \in results : r.status = "ok" /\ r.shape = "fill" =>
       r.data.price \in FillPrices /\ r.data.ticket \in Tickets \union {NoTicket}

LEMMA OutsideInit == Init => FromOutside
BY DEF Init, FromOutside, Equities

LEMMA OutsideStep == IInv /\ FromOutside /\ [Next]_vars => FromOutside'
<1>. SUFFICES ASSUME IInv, FromOutside, [Next]_vars PROVE FromOutside'
  OBVIOUS
<1>. USE DEF marketVars, serviceVars
<1>1. CASE DrainMessages
  BY <1>1 DEF DrainMessages, FromOutside
<1>2. CASE PublishAccount
  <2>1. PICK a \in Accounts :
          account_msg' = {[balance |-> a.balance, equity |-> a.equity,
                           open_positions |-> Cardinality(positions)]}
    BY <1>2 DEF PublishAccount
  <2>2. \A m \in account_msg' : m.equity = a.equity
    BY <2>1
  <2>3. UNCHANGED <<account, results>>
    BY <1>2 DEF PublishAccount
  <2>. QED BY <2>2, <2>3 DEF FromOutside, Equities
<1>3. ASSUME NEW j \in jobs, ExecuteOrder(j) \/ ClosePosition(j)
      PROVE  FromOutside'
  <2>1. UNCHANGED <<account, account_msg>>
    BY <1>3 DEF ExecuteOrder, ClosePosition
  <2>2. \/ \E price \in FillPrices, ticket \in FreshTickets \union {NoTicket} : \E shape :
             Push(j, "ok", shape, [price |-> price, ticket |-> ticket])
        \/ Push(j, "error", "none", NoFill)
    BY <1>3 DEF ExecuteOrder, ClosePosition
  <2>3. \A r \in results' \ results : r.status = "ok" /\ r.shape = "fill" =>
          r.data.price \in FillPrices /\ r.data.ticket \in Tickets \union {NoTicket}
    <3>1. ASSUME NEW price \in FillPrices, NEW ticket \in FreshTickets \union {NoTicket},
                 NEW shape,
                 Push(j, "ok", shape, [price |-> price, ticket |-> ticket]),
                 NEW r \in results' \ results
          PROVE  r.data.price \in FillPrices /\ r.data.ticket \in Tickets \union {NoTicket}
      BY <3>1, FreshTypes DEF Push
    <3>2. ASSUME NEW r \in results' \ results,
                 Push(j, "error", "none", NoFill)
          PROVE  ~(r.status = "ok" /\ r.shape = "fill")
      BY <3>2 DEF Push
    <3>. QED BY <2>2, <3>1, <3>2
  <2>. QED BY <2>1, <2>3 DEF FromOutside
<1>4. CASE \/ CheckKillSwitch \/ StartScan \/ StartManage
           \/ StartCleanup \/ EndTurn \/ Sleep \/ UNCHANGED vars
           \/ \E s \in Symbols : Spawn(s) \/ SkipSymbol(s)
           \/ \E i \in active_trades : CleanUp(i)
           \/ \E r \in results : HandleResult(r)
  BY <1>4 DEF CheckKillSwitch, StartScan, StartManage, StartCleanup, EndTurn, Sleep,
     vars, Spawn, SkipSymbol, CleanUp, HandleResult, FromOutside
<1>5. ASSUME NEW i \in unmanaged, ManageTrade(i)
      PROVE  FromOutside'
  BY <1>5 DEF ManageTrade, Qualify, AwaitFill, SubmitOrder, UpdateOpen, AwaitClose,
     SubmitClose, FinishCooldown, SkipIdle, FromOutside
<1>. QED BY <1>1, <1>2, <1>3, <1>4, <1>5 DEF Next, MainLoop, Service

Lives(i) == LifeCycle(i)!Next \/ UNCHANGED LifeCycle(i)!vars


\* The events of the life cycle, as the engine applies them.
LEMMA LivesByEvent ==
  ASSUME NEW i,
         \/ state'[i] = state[i]
         \/ \E d \in TimeSteps : state'[i] = Elapse(state[i], d)
         \/ \E s \in Symbols, dir \in Direction, type \in SignalType :
              state'[i] = SignalDetected(state[i], s, dir, type)
         \/ \E a \in Accounts \union {DefaultAccount},
               s \in Symbols, q \in Quotes, t \in SignalType :
              state'[i] = FiltersPass(state[i], InitialLots(a.equity), StopPips(s, q, t))
         \/ state'[i] = FiltersReject(state[i])
         \/ \E price \in FillPrices, ticket \in Tickets \union {NoTicket} :
              state'[i] = OrderFilled(state[i], price, ticket)
         \/ state'[i] = OrderTimeout(state[i])
         \/ \E reason \in ExitEvents : state'[i] = ExitSignal(state[i], reason)
         \/ state'[i] = PositionClosed(state[i])
         \/ state'[i] = CooldownComplete(state[i])
  PROVE  Lives(i)
<1>. USE DEF Lives, Size, Idle, LifeCycle!vars, LifeCycle!Next, LifeCycle!Process,
             LifeCycle!Idle
<1>1. CASE state'[i] = state[i]
  BY <1>1
<1>2. ASSUME NEW d \in TimeSteps, state'[i] = Elapse(state[i], d)
      PROVE  Lives(i)
  <2>1. Size(Elapse(state[i], d)) = Size(state[i])
    BY DEF Elapse
  <2>. QED BY <1>2, <2>1 DEF LifeCycle!PassTime, LifeCycle!Elapse, LifeCycle!Remaining,
       Elapse, Remaining
<1>3. ASSUME NEW s \in Symbols, NEW dir \in Direction, NEW type \in SignalType,
             state'[i] = SignalDetected(state[i], s, dir, type)
      PROVE  Lives(i)
  BY <1>3 DEF LifeCycle!Detect, LifeCycle!SignalDetected, LifeCycle!Direction,
     LifeCycle!SignalType, SignalDetected, Direction, SignalType
<1>4. ASSUME NEW a \in Accounts \union {DefaultAccount}, NEW s \in Symbols,
             NEW q \in Quotes, NEW t \in SignalType,
             state'[i] = FiltersPass(state[i], InitialLots(a.equity), StopPips(s, q, t))
      PROVE  Lives(i)
  <2>. DEFINE lots == InitialLots(a.equity)
              stop == StopPips(s, q, t)
  <2>1. /\ lots \in {InitialLots(b.equity) : b \in Accounts \union {DefaultAccount}}
        /\ stop \in {StopPips(x, y, z) : x \in Symbols, y \in Quotes, z \in SignalType}
    OBVIOUS
  <2>2. /\ state'[i] = LifeCycle(i)!FiltersPass(state[i], lots, stop)
        /\ Size(state'[i]) = Size(state[i])
    BY <1>4 DEF LifeCycle!FiltersPass, FiltersPass
  <2>. HIDE DEF lots, stop
  <2>3. LifeCycle(i)!Qualify
    BY <2>1, <2>2 DEF LifeCycle!Qualify
  <2>. QED BY <2>3
<1>5. CASE state'[i] = FiltersReject(state[i])
  BY <1>5 DEF LifeCycle!Qualify, LifeCycle!FiltersReject, FiltersReject
<1>6. ASSUME NEW price \in FillPrices, NEW ticket \in Tickets \union {NoTicket},
             state'[i] = OrderFilled(state[i], price, ticket)
      PROVE  Lives(i)
  BY <1>6 DEF LifeCycle!Fill, LifeCycle!OrderFilled, OrderFilled
<1>7. CASE state'[i] = OrderTimeout(state[i])
  BY <1>7 DEF LifeCycle!TimeOutEntry, LifeCycle!OrderTimeout, OrderTimeout
<1>8. ASSUME NEW reason \in ExitEvents, state'[i] = ExitSignal(state[i], reason)
      PROVE  Lives(i)
  BY <1>8 DEF LifeCycle!Manage, LifeCycle!ExitSignal, LifeCycle!ExitingFrom,
     LifeCycle!ExitEvents, ExitSignal, ExitingFrom, ExitEvents
<1>9. CASE state'[i] = PositionClosed(state[i])
  BY <1>9 DEF LifeCycle!Close, LifeCycle!PositionClosed, PositionClosed
<1>10. CASE state'[i] = CooldownComplete(state[i])
  BY <1>10 DEF LifeCycle!FinishCooldown, LifeCycle!CooldownComplete, CooldownComplete
<1>. QED BY <1>1, <1>2, <1>3, <1>4, <1>5, <1>6, <1>7, <1>8, <1>9, <1>10

LEMMA LivesStep ==
  ASSUME IInv, FromOutside, [Next]_vars, NEW i \in TradeIds
  PROVE  Lives(i)
<1>. USE LivesByEvent DEF IInv, TypeOK, Bookkeeping, Turn
<1>1. TradeStep(i)
  BY TradeSteps
<1>2. ASSUME NEW g \in Signals
      PROVE  g.dir \in Direction /\ g.type \in SignalType
  BY EngineAssumption DEF Signal
<1>3. ASSUME NEW r \in results, state'[i] = AfterResult(state[i], r)
      PROVE  Lives(i)
  <2>1. \/ state'[i] = PositionClosed(state[i])
        \/ /\ r.status = "ok" /\ r.shape = "fill"
           /\ state'[i] = OrderFilled(state[i], r.data.price, r.data.ticket)
        \/ state'[i] = state[i]
        \/ state'[i] = OrderTimeout(state[i])
    BY <1>3 DEF AfterResult
  <2>. QED BY <2>1 DEF FromOutside
<1>4. ASSUME i \in unmanaged, Qualify(i)
      PROVE  Lives(i)
  <2>1. CASE MayEnter(i)
    <3>1. tick[symbol[i]] \in Quotes /\ symbol[i] \in Symbols
      BY <1>4, <2>1 DEF MayEnter
    <3>2. state[i].signal_type \in SignalType
      BY <1>4 DEF Qualify, TradingState, IdleState, QualifyingState, EntryReadyState,
                  PositionState, ExitingState, CooldownState
    <3>3. PICK a \in Accounts \union {DefaultAccount} : account.equity = a.equity
      BY DEF FromOutside, Equities
    <3>4. state'[i] = FiltersPass(state[i], InitialLots(a.equity),
                        StopPips(symbol[i], tick[symbol[i]], state[i].signal_type))
      BY <1>4, <2>1, <3>3 DEF Qualify
    <3>. QED BY <3>1, <3>2, <3>4
  <2>2. CASE ~MayEnter(i)
    BY <1>4, <2>2 DEF Qualify
  <2>. QED BY <2>1, <2>2
<1>5. ASSUME i \in unmanaged, SubmitOrder(i)
      PROVE  Lives(i)
  <2>1. PICK req \in FreshReqs, kind \in Replies, price \in FillPrices,
             ticket \in FreshTickets \union {NoTicket} :
               \E id \in Answered(kind, req) : SendOrder(i, req, kind, id, price, ticket)
    BY <1>5 DEF SubmitOrder
  <2>2. \/ state'[i] = state[i] \/ state'[i] = OrderTimeout(state[i])
        \/ state'[i] = OrderFilled(state[i], price, ticket)
    BY <2>1 DEF SendOrder, AfterReply
  <2>. QED BY <2>1, <2>2, FreshTypes
<1>6. ASSUME i \in unmanaged, SubmitClose(i)
      PROVE  Lives(i)
  <2>1. PICK req, kind, id : SendClose(i, req, kind, id)
    BY <1>6 DEF SubmitClose
  <2>2. state'[i] = state[i] \/ state'[i] = PositionClosed(state[i])
    BY <2>1 DEF SendClose
  <2>. QED BY <2>2
<1>7. ASSUME i \in unmanaged, UpdateOpen(i)
      PROVE  Lives(i)
  <2>1. \A run, pips : \/ ExitDecision(state[i], run, pips) = state[i]
                       \/ \E reason \in ExitEvents :
                            ExitDecision(state[i], run, pips) = ExitSignal(state[i], reason)
    BY DEF ExitDecision, ExitEvents
  <2>2. \/ state'[i] = state[i]
        \/ \E reason \in ExitEvents : state'[i] = ExitSignal(state[i], reason)
    BY <1>7, <2>1 DEF UpdateOpen
  <2>. QED BY <2>2
<1>8. ASSUME i \in unmanaged, FinishCooldown(i)
      PROVE  Lives(i)
  BY <1>8 DEF FinishCooldown
<1>. QED BY <1>1, <1>2, <1>3, <1>4, <1>5, <1>6, <1>7, <1>8 DEF TradeStep

\* Each trade of the engine is a state machine of its own: what the life cycle
\* promises of one machine under any events, the engine keeps for every trade.
THEOREM LifeCycleCorrect == Spec => TradesFollowLifeCycle
<1>1. Init => \A i \in TradeIds : LifeCycle(i)!Init
  BY DEF Init, LifeCycle!Init, LifeCycle!Idle, Idle, Size
<1>2. IInv /\ FromOutside /\ [Next]_vars =>
        [\A i \in TradeIds : LifeCycle(i)!Next \/ UNCHANGED LifeCycle(i)!vars]_vars
  BY LivesStep DEF Lives
<1>. QED
  BY <1>1, <1>2, InvInit, InvStep, OutsideInit, OutsideStep, PTL
  DEF Spec, TradesFollowLifeCycle

=============================================================================
