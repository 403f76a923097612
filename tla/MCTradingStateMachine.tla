------------------------ MODULE MCTradingStateMachine ------------------------
(***************************************************************************)
(* Model values for TradingStateMachine: two symbols, so that a change of  *)
(* symbol would show; two lot sizes, two stops, two tickets.  MaxLots lets *)
(* a position scale in five times, more than the three the documentation   *)
(* allows.                                                                 *)
(***************************************************************************)
EXTENDS TradingStateMachine

MCSymbols        == {"EURUSD", "XAUUSD"}
MCLotSizes       == {1, 2}
MCStopSizes      == {30, 36}
MCPrices         == {100}
MCTickets        == {1, 2}
MCTimeSteps      == {1, 2}
MCMaxLots        == 6
MCCooldownMs     == 3
MCEntryTimeoutMs == 2
=============================================================================
