----------------------------- MODULE RiskEnforcer -----------------------------
(***************************************************************************)
(* The decisions of risk_enforcer.rs and the run it keeps on each open     *)
(* position, as operators.  Money is in cents, lots are hundredths of a    *)
(* lot, spreads and distances are pips, ratios are percentages.  The       *)
(* per-symbol overrides of the configuration are resolved: each limit that *)
(* may be overridden is a function of the symbol.                          *)
(***************************************************************************)
EXTENDS Integers

CONSTANTS
  DailyLossPct,         \* daily_loss_limit_pct
  MaxParallel,          \* max_parallel_trades
  MaxPerSymbol,         \* max_trades_per_symbol
  MaxPositionLots,      \* max_position_lots
  LotPer1000,           \* lot_per_1000
  MaxSpreadMultiplier,  \* by symbol, percent
  MaxSpreadPips,        \* by symbol
  MaxLatencyMs,         \* by symbol
  ReversalThreshold,    \* reversal_threshold_pct
  StallTimeoutMs,       \* by symbol
  PipMultiplier,        \* by symbol, Tick::pip_multiplier
  Metals                \* symbols whose name contains XAU or GOLD

LeastOf(a, b)    == IF a <= b THEN a ELSE b
GreatestOf(a, b) == IF a >= b THEN a ELSE b

\* Five dollars of profit on a symbol allow a trade above its limit.
PyramidProfit == 500

-----------------------------------------------------------------------------
(***************************************************************************)
(* TradingRun.  tp_pips repeats the field of the PositionOpen state and    *)
(* nothing changes scale_count or locked_profit, so that total_pnl is      *)
(* unrealized_pnl.  idle_ms is the time since last_price_change_ms; price  *)
(* is a history, the _new_price that update_price is given and drops.      *)
(***************************************************************************)
Run == [entry_price : Int, price : Int, lots : Int, sl_pips : Int,
        unrealized_pnl : Int, peak_profit : Int, idle_ms : Nat]

NewRun(entry_price, lots, sl_pips) ==
  [entry_price |-> entry_price, price |-> entry_price, lots |-> lots,
   sl_pips |-> sl_pips, unrealized_pnl |-> 0, peak_profit |-> 0, idle_ms |-> 0]

\* update_price and update_peak
UpdatePrice(run, price, pnl) ==
  [run EXCEPT !.price = price,
              !.idle_ms = IF pnl # run.unrealized_pnl THEN 0 ELSE @,
              !.unrealized_pnl = pnl,
              !.peak_profit = GreatestOf(@, pnl)]

-----------------------------------------------------------------------------
DailyLimit(balance) == (balance * DailyLossPct) \div 100

\* Mutant: the daily limit is left to the kill switch.
CanEnterAfterLoss(symbol, account, quote, daily_pnl, symbol_positions, pyramiding) ==
  /\ account.open_positions < MaxParallel
  /\ symbol_positions < MaxPerSymbol \/ pyramiding
  /\ 100 * quote.spread <= quote.avg_spread * MaxSpreadMultiplier[symbol]
  /\ quote.spread <= MaxSpreadPips[symbol]
  /\ quote.latency_ms <= MaxLatencyMs[symbol]

(***************************************************************************)
(* can_enter.  The order of the early returns only picks the veto that is  *)
(* logged, so the decision is the conjunction of the checks.               *)
(***************************************************************************)
CanEnter(symbol, account, quote, daily_pnl, symbol_positions, pyramiding) ==
  /\ daily_pnl >= -account.daily_loss_limit
  /\ account.open_positions < MaxParallel
  /\ symbol_positions < MaxPerSymbol \/ pyramiding
  /\ 100 * quote.spread <= quote.avg_spread * MaxSpreadMultiplier[symbol]
  /\ quote.spread <= MaxSpreadPips[symbol]
  /\ quote.latency_ms <= MaxLatencyMs[symbol]

\* Rounded to the nearest hundredth of a lot, then clamped.
InitialLots(equity) ==
  GreatestOf(1, LeastOf(MaxPositionLots, (equity * LotPer1000 + 50000) \div 100000))

(***************************************************************************)
(* The stop distance the trade manager computes for an entry: eight        *)
(* average spreads (20 pips while the spread reads 0), doubled on a slow   *)
(* feed, at least 30 pips (100 when the average spread is above 5, 300 for *)
(* gold), and a fifth more for a reversion entry.  The distances in use    *)
(* are multiples of 5, for which the last division is exact.               *)
(***************************************************************************)
StopPips(symbol, quote, signal_type) ==
  LET base     == IF quote.spread > 0 THEN 8 * quote.avg_spread ELSE 20
      delayed  == IF quote.latency_ms > 100 THEN 2 * base ELSE base
      floor    == IF quote.avg_spread > 5 THEN 100 ELSE 30
      stop     == GreatestOf(delayed, IF symbol \in Metals THEN GreatestOf(floor, 300)
                                                           ELSE floor)
  IN  IF signal_type = "Reversion" THEN (12 * stop) \div 10 ELSE stop

\* check_reversal.  The cushion compares peak_profit / current_lots *
\* pip_multiplier with 3.0; lots and cents are both hundredths.
CheckReversal(symbol, run) ==
  /\ run.peak_profit > 0
  /\ run.peak_profit * PipMultiplier[symbol] >= 3 * run.lots
  /\ run.unrealized_pnl > 0
  /\ 100 * (run.peak_profit - run.unrealized_pnl) > ReversalThreshold * run.peak_profit

CheckStall(symbol, run) == run.idle_ms > StallTimeoutMs[symbol]
=============================================================================
