------------------------- MODULE TradingStateMachine -------------------------
(***************************************************************************)
(* TradingStateMachine of state_machine.rs by itself: a machine that       *)
(* answers any event at any time, the events main.rs never sends included  *)
(* (ProfitLocked, MomentumContinues, ScaleComplete, MaxScalesReached,      *)
(* MomentumDecay, SpreadExpanded and KillSwitchTriggered).  It is what the *)
(* life cycle promises to its callers; TradeEngine implements it once per  *)
(* trade.                                                                  *)
(***************************************************************************)
EXTENDS TradingStates

CONSTANTS
  LotSizes,     \* lots FiltersPass and ScaleComplete may carry
  StopSizes,    \* sl_pips FiltersPass may carry
  Prices,       \* fill prices
  Tickets,      \* tickets
  TimeSteps,    \* how far the clock may move between two events
  MaxLots       \* bound on the size of a position, for TLC

ASSUME MachineAssumption ==
  /\ LotSizes \subseteq Int /\ StopSizes \subseteq Int /\ Prices \subseteq Int
  /\ Tickets \subseteq Nat /\ TimeSteps \subseteq Nat \ {0}
  /\ MaxLots \in Nat

VARIABLES
  current,      \* the state
  filled        \* history: lots filled for the current position

vars == <<current, filled>>

TypeOK == /\ current \in TradingState
          /\ filled \in Int

Init == /\ current = Idle
        /\ filled = 0

-----------------------------------------------------------------------------
\* process_event for the events that neither fill an order nor close one.
Process(next) == current' = next /\ UNCHANGED filled

Detect == \E symbol \in Symbols, dir \in Direction, type \in SignalType :
            Process(SignalDetected(current, symbol, dir, type))

Qualify == \/ \E lots \in LotSizes, sl \in StopSizes :
                Process(FiltersPass(current, lots, sl))
           \/ Process(FiltersReject(current))

Fill == \E price \in Prices, ticket \in Tickets :
          /\ current' = OrderFilled(current, price, ticket)
          /\ IF current.tag = "EntryReady"
             THEN filled' = current.calculated_lots
             ELSE UNCHANGED filled

TimeOutEntry == Process(OrderTimeout(current))

Manage == \/ Process(ProfitLocked(current))
          \/ Process(MomentumContinues(current))
          \/ Process(MaxScalesReached(current))
          \/ \E reason \in ExitEvents : Process(ExitSignal(current, reason))

ScaleIn == \E lots \in LotSizes :
             /\ current.tag = "Scaling" => current.current_lots + lots <= MaxLots
             /\ current' = ScaleComplete(current, lots)
             /\ IF current.tag = "Scaling"
                THEN filled' = filled + lots
                ELSE UNCHANGED filled

Close == /\ current' = PositionClosed(current)
         /\ IF current.tag = "Exiting"
            THEN filled' = 0
            ELSE UNCHANGED filled

FinishCooldown == Process(CooldownComplete(current))

Kill == Process(KillSwitchTriggered(current))

PassTime == \E d \in TimeSteps : Process(Elapse(current, d))

Next == \/ Detect \/ Qualify \/ Fill \/ TimeOutEntry \/ Manage \/ ScaleIn
        \/ Close \/ FinishCooldown \/ Kill \/ PassTime

Spec == Init /\ [][Next]_vars

-----------------------------------------------------------------------------
\* An exit that asks the broker to close what was opened; the kill switch
\* (lots 0, ticket 0) does not.
Closes(s) == s.tag = "Exiting" /\ s.reason # "KillSwitch"

(***************************************************************************)
(* The size the machine believes in is the size that was filled: the first *)
(* fill plus every scale-in, still whole when the exit order is built, so  *)
(* that a close leaves nothing behind.                                     *)
(***************************************************************************)
SizeIsWhatWasFilled ==
  /\ current.tag \in {"PositionOpen", "Scaling"} => current.current_lots = filled
  /\ Closes(current) => current.lots = filled

(***************************************************************************)
(* A machine that believes it holds a position stops believing so in one   *)
(* way only: the close of an exit was reported, and the cooldown begins.   *)
(* No timeout, rejected filter, second signal or kill drops a position.    *)
(***************************************************************************)
ExposureEndsByClose ==
  [][Exposed(current) /\ ~Exposed(current') =>
       current.tag = "Exiting" /\ current'.tag = "Cooldown"]_vars

(***************************************************************************)
(* While it is exposed, a machine stays with the same symbol, direction    *)
(* and broker ticket through scaling and exit; only the kill switch may    *)
(* change what the exit refers to.                                         *)
(***************************************************************************)
PositionIdentity ==
  [][Exposed(current) /\ Exposed(current') =>
       /\ current'.symbol = current.symbol
       /\ current'.direction = current.direction
       /\ \/ current'.ticket = current.ticket
          \/ current'.tag = "Exiting" /\ current'.reason = "KillSwitch"]_vars
=============================================================================
