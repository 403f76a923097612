---------------------------- MODULE MCTradeEngine ----------------------------
(***************************************************************************)
(* The values TLC checks TradeEngine with.                                 *)
(***************************************************************************)
EXTENDS TradeEngine, TLC

MCLong      == {[dir |-> "Long", type |-> "Momentum"]}
MCShort     == {[dir |-> "Short", type |-> "Momentum"]}
MCReversion == {[dir |-> "Long", type |-> "Reversion"]}

\* A quote at a price, with a spread and a latency that every filter accepts;
\* the stop is 30 pips, the take profit 60 and the emergency stop 90 below, a
\* fifth more for a reversion entry.
Worth(price, points, value) ==
  [price |-> price, spread |-> 1, avg_spread |-> 1, latency_ms |-> 0,
   points |-> points, tick_value |-> value]
At(price) == Worth(price, 10, 1)
MCTwo     == {At(0), At(100)}
\* Three prices of a symbol whose tick value changes, once without a point: a
\* trade may take profit, stop, be held, stall, or lose half its profit at the
\* same price, which is a reversal.
MCThree   == {Worth(0, 0, 1), Worth(50, 20, 1), At(50), At(110)}

MCAccount  == [balance |-> 1000000, equity |-> 1000000]
MCAccounts == {MCAccount}
MCRich     == [balance |-> 100000000, equity |-> 1000000]

\* The limits of config/risk_limits.toml, the same for every symbol.
OneEach(n) == [s \in Symbols |-> n]
MC180   == OneEach(180)
MC2     == OneEach(2)
MC100   == OneEach(100)
MC10000 == OneEach(10000)
MC0     == OneEach(0)

MCSymmetry == Permutations(Symbols)
=============================================================================
