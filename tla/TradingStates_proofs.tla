-------------------------- MODULE TradingStates_proofs --------------------------
(***************************************************************************)
(* Facts about the event operators of the life cycle, for every module     *)
(* that applies them: the only place where the records of the states are   *)
(* opened for typing.                                                      *)
(***************************************************************************)
EXTENDS TradingStates, TLAPS

\* Every event operator maps states to states (calculate_transition returns a
\* well-formed TradingState in every arm).
LEMMA EventsType ==
  ASSUME NEW s \in TradingState
  PROVE  /\ \A symbol \in Symbols, dir \in Direction, type \in SignalType :
              SignalDetected(s, symbol, dir, type) \in TradingState
         /\ \A lots \in Int, sl \in Int : FiltersPass(s, lots, sl) \in TradingState
         /\ FiltersReject(s) \in TradingState
         /\ \A price \in Int, ticket \in Nat :
              OrderFilled(s, price, ticket) \in TradingState
         /\ OrderTimeout(s) \in TradingState
         /\ ProfitLocked(s) \in TradingState
         /\ MomentumContinues(s) \in TradingState
         /\ \A lots \in Int : ScaleComplete(s, lots) \in TradingState
         /\ MaxScalesReached(s) \in TradingState
         /\ \A reason \in ExitEvents : ExitSignal(s, reason) \in TradingState
         /\ PositionClosed(s) \in TradingState
         /\ CooldownComplete(s) \in TradingState
         /\ KillSwitchTriggered(s) \in TradingState
         /\ \A d \in Nat : Elapse(s, d) \in TradingState
<1>. USE TimersAssumption
     DEF TradingState, IdleState, QualifyingState, EntryReadyState,
         PositionState, ExitingState, CooldownState, Idle
<1>1. \A symbol \in Symbols, dir \in Direction, type \in SignalType :
        SignalDetected(s, symbol, dir, type) \in TradingState
  BY DEF SignalDetected
<1>2. \A lots \in Int, sl \in Int : FiltersPass(s, lots, sl) \in TradingState
  BY DEF FiltersPass
<1>3. FiltersReject(s) \in TradingState /\ OrderTimeout(s) \in TradingState
  BY DEF FiltersReject, OrderTimeout
<1>4. \A price \in Int, ticket \in Nat : OrderFilled(s, price, ticket) \in TradingState
  BY DEF OrderFilled
<1>5. ProfitLocked(s) \in TradingState /\ MomentumContinues(s) \in TradingState
  BY DEF ProfitLocked, MomentumContinues
<1>6. \A lots \in Int : ScaleComplete(s, lots) \in TradingState
  <2> SUFFICES ASSUME NEW lots \in Int
               PROVE  ScaleComplete(s, lots) \in TradingState
    OBVIOUS
  <2>1. CASE s.tag = "Scaling"
    <3>1. s \in PositionState
      BY <2>1
    <3>2. s.current_lots + lots \in Int
      BY <3>1
    <3>3. [s EXCEPT !.tag = "PositionOpen",
                    !.current_lots = s.current_lots + lots] \in PositionState
      BY ONLY <3>1, <3>2 DEF PositionState
    <3>. QED BY <2>1, <3>3 DEF ScaleComplete
  <2>2. CASE s.tag # "Scaling"
    BY <2>2 DEF ScaleComplete
  <2>. QED BY <2>1, <2>2
<1>7. MaxScalesReached(s) \in TradingState
  BY DEF MaxScalesReached, ExitingFrom, ExitReason
<1>8. \A reason \in ExitEvents : ExitSignal(s, reason) \in TradingState
  BY DEF ExitSignal, ExitingFrom, ExitReason, ExitEvents
<1>9. PositionClosed(s) \in TradingState /\ CooldownComplete(s) \in TradingState
  BY DEF PositionClosed, CooldownComplete
<1>10. KillSwitchTriggered(s) \in TradingState
  BY DEF KillSwitchTriggered, ExitReason
<1>11. \A d \in Nat : Elapse(s, d) \in TradingState
  BY DEF Elapse, Remaining
<1>. QED BY <1>1, <1>2, <1>3, <1>4, <1>5, <1>6, <1>7, <1>8, <1>9, <1>10, <1>11
=============================================================================
