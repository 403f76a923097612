---------------------------- MODULE TradingStates ----------------------------
(***************************************************************************)
(* The transition function of the trade life cycle, as rust_core's         *)
(* state_machine.rs computes it in calculate_transition: one operator per  *)
(* StateEvent, giving the state the machine is in after process_event.     *)
(* process_event returns Err and leaves the state alone when no arm of the *)
(* match fits, and every caller in the program drops that Err, so each     *)
(* operator is the identity there.                                         *)
(*                                                                         *)
(* Deadlines (until_ms, timeout_at_ms) are kept as the time that is left,  *)
(* so that "now" is always 0; Elapse moves time on.  The two timestamps no *)
(* code compares (started_at_ms and entry_time_ms) are left out.           *)
(*                                                                         *)
(* A definition whose comment begins with "Mutant" is a plausible mistake  *)
(* in the definition that follows it; PROJECT.json says which property     *)
(* finds it.  The same holds for the other modules.                        *)
(***************************************************************************)
EXTENDS Integers

CONSTANTS
  Symbols,          \* traded symbols (config.market.symbols)
  CooldownMs,       \* cooldown_ms: 30000 in TradingStateMachine::new
  EntryTimeoutMs    \* the 5000 of timeout_at_ms

ASSUME TimersAssumption == /\ CooldownMs \in Nat \ {0}
                           /\ EntryTimeoutMs \in Nat \ {0}

Direction  == {"Long", "Short"}
SignalType == {"Momentum", "Reversion"}

ExitReason == {"TakeProfitHit", "StopLossHit", "MomentumDecay", "StallTimeout",
               "ReversalDetected", "SpreadExpansion", "ManualExit", "KillSwitch"}

(***************************************************************************)
(* TradingState, one set of records per variant of the enum.  Lots are     *)
(* hundredths of a lot, prices and distances are pips.                     *)
(***************************************************************************)
IdleState       == [tag : {"Idle"}]
QualifyingState == [tag : {"Qualifying"}, symbol : Symbols,
                    momentum_direction : Direction, signal_type : SignalType]
EntryReadyState == [tag : {"EntryReady"}, symbol : Symbols, direction : Direction,
                    calculated_lots : Int, sl_pips : Int, timeout_at_ms : Nat]
PositionState   == [tag : {"PositionOpen", "Scaling"}, symbol : Symbols,
                    direction : Direction, entry_price : Int, current_lots : Int,
                    sl_pips : Int, tp_pips : Int, ticket : Nat]
ExitingState    == [tag : {"Exiting"}, symbol : Symbols, direction : Direction,
                    reason : ExitReason, lots : Int, ticket : Nat]
CooldownState   == [tag : {"Cooldown"}, until_ms : Nat]

TradingState == IdleState \union QualifyingState \union EntryReadyState
                \union PositionState \union ExitingState \union CooldownState

Idle == [tag |-> "Idle"]

-----------------------------------------------------------------------------
(***************************************************************************)
(* One operator per event.                                                 *)
(***************************************************************************)
SignalDetected(s, symbol, dir, type) ==
  IF s.tag = "Idle"
  THEN [tag |-> "Qualifying", symbol |-> symbol,
        momentum_direction |-> dir, signal_type |-> type]
  ELSE s

FiltersPass(s, lots, sl_pips) ==
  IF s.tag = "Qualifying"
  THEN [tag |-> "EntryReady", symbol |-> s.symbol,
        direction |-> s.momentum_direction, calculated_lots |-> lots,
        sl_pips |-> sl_pips, timeout_at_ms |-> EntryTimeoutMs]
  ELSE s

FiltersReject(s) == IF s.tag = "Qualifying" THEN Idle ELSE s

\* The take-profit distance is fixed here, at twice the stop distance.
OrderFilled(s, price, ticket) ==
  IF s.tag = "EntryReady"
  THEN [tag |-> "PositionOpen", symbol |-> s.symbol, direction |-> s.direction,
        entry_price |-> price, current_lots |-> s.calculated_lots,
        sl_pips |-> s.sl_pips, tp_pips |-> 2 * s.sl_pips, ticket |-> ticket]
  ELSE s

\* The only arm that leaves EntryReady without a fill.  timeout_at_ms is not
\* read, here or anywhere else.
OrderTimeout(s) == IF s.tag = "EntryReady" THEN Idle ELSE s

\* ProfitLocked rebuilds the same PositionOpen; it never changes the state.
ProfitLocked(s) == s

MomentumContinues(s) ==
  IF s.tag = "PositionOpen" THEN [s EXCEPT !.tag = "Scaling"] ELSE s

\* Mutant: the lots of the scale-in replace the size.
ScaleReplacesSize(s, new_lots) ==
  IF s.tag = "Scaling"
  THEN [s EXCEPT !.tag = "PositionOpen", !.current_lots = new_lots]
  ELSE s

ScaleComplete(s, new_lots) ==
  IF s.tag = "Scaling"
  THEN [s EXCEPT !.tag = "PositionOpen", !.current_lots = @ + new_lots]
  ELSE s

\* Mutant: the exit does not carry the ticket.
ExitingWithoutTicket(s, reason) ==
  [tag |-> "Exiting", symbol |-> s.symbol, direction |-> s.direction,
   reason |-> reason, lots |-> s.current_lots, ticket |-> 0]

ExitingFrom(s, reason) ==
  [tag |-> "Exiting", symbol |-> s.symbol, direction |-> s.direction,
   reason |-> reason, lots |-> s.current_lots, ticket |-> s.ticket]

MaxScalesReached(s) ==
  IF s.tag = "Scaling" THEN ExitingFrom(s, "MomentumDecay") ELSE s

\* The six events that close an open position, by the reason they record.
ExitEvents == {"TakeProfitHit", "StopLossHit", "MomentumDecay", "StallTimeout",
               "ReversalDetected", "SpreadExpansion"}

ExitSignal(s, reason) ==
  IF s.tag = "PositionOpen" THEN ExitingFrom(s, reason) ELSE s

PositionClosed(s) ==
  IF s.tag = "Exiting" THEN [tag |-> "Cooldown", until_ms |-> CooldownMs] ELSE s

CooldownComplete(s) ==
  IF s.tag = "Cooldown" THEN IF s.until_ms = 0 THEN Idle ELSE s ELSE s

\* Mutant: a position being scaled is forgotten.
KillForgetsScaling(s) ==
  IF s.tag \in {"Idle", "Cooldown", "Scaling"}
  THEN Idle
  ELSE [tag |-> "Exiting", symbol |-> s.symbol,
        direction |-> IF s.tag = "Qualifying" THEN s.momentum_direction
                                              ELSE s.direction,
        reason |-> "KillSwitch", lots |-> 0, ticket |-> 0]

\* The kill switch leaves lots and ticket at 0, whatever the state held.
KillSwitchTriggered(s) ==
  IF s.tag \in {"Idle", "Cooldown"}
  THEN Idle
  ELSE [tag |-> "Exiting", symbol |-> s.symbol,
        direction |-> IF s.tag = "Qualifying" THEN s.momentum_direction
                                              ELSE s.direction,
        reason |-> "KillSwitch", lots |-> 0, ticket |-> 0]

-----------------------------------------------------------------------------
\* Mutant: plain subtraction.
RemainingBelowZero(t, d) == t - d

Remaining(t, d) == IF t > d THEN t - d ELSE 0

\* The state d time units later.
Elapse(s, d) ==
  CASE s.tag = "Cooldown"   -> [s EXCEPT !.until_ms = Remaining(@, d)]
    [] s.tag = "EntryReady" -> [s EXCEPT !.timeout_at_ms = Remaining(@, d)]
    [] OTHER                -> s

\* A state in which the machine believes it holds a position at the broker.
Exposed(s) == s.tag \in {"PositionOpen", "Scaling", "Exiting"}

\* Mutant: an order under way is not counted.
InPlayOnceFilled(s) == s.tag \in {"PositionOpen", "Exiting"}

\* The states the scanner and the trade manager count as "in play".
InPlay(s) == s.tag \in {"PositionOpen", "Exiting", "EntryReady"}
=============================================================================
