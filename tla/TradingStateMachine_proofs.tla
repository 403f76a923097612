---------------------- MODULE TradingStateMachine_proofs ----------------------
(***************************************************************************)
(* Proofs about the trade life cycle, for every set of symbols, lot sizes, *)
(* stops, prices and tickets.                                              *)
(***************************************************************************)
EXTENDS TradingStateMachine, TradingStates_proofs, TLAPS

-----------------------------------------------------------------------------
\* Type correctness of the machine: whatever events come, in whatever order,
\* the state is one of the variants of TradingState.
THEOREM TypeCorrect == Spec => []TypeOK
<1>1. Init => TypeOK
  BY DEF Init, TypeOK, Idle, TradingState, IdleState
<1>2. TypeOK /\ [Next]_vars => TypeOK'
  <2> SUFFICES ASSUME TypeOK, [Next]_vars PROVE TypeOK'
    OBVIOUS
  <2>. USE MachineAssumption, EventsType DEF Process
  <2>0. current \in TradingState /\ filled \in Int
    BY DEF TypeOK
  <2>1. CASE Detect
    <3>1. PICK symbol \in Symbols, dir \in Direction, type \in SignalType :
            current' = SignalDetected(current, symbol, dir, type) /\ filled' = filled
      BY <2>1 DEF Detect
    <3>2. SignalDetected(current, symbol, dir, type) \in TradingState
      BY <2>0
    <3>. QED BY <2>0, <3>1, <3>2 DEF TypeOK
  <2>2. CASE Qualify
    BY <2>0, <2>2 DEF Qualify, TypeOK
  <2>3. CASE Fill
    <3>1. current' \in TradingState
      BY <2>0, <2>3 DEF Fill
    <3>2. current.tag = "EntryReady" => current.calculated_lots \in Int
      BY <2>0 DEF TradingState, IdleState, QualifyingState, EntryReadyState,
                  PositionState, ExitingState, CooldownState
    <3>. QED BY <2>0, <2>3, <3>1, <3>2 DEF Fill, TypeOK
  <2>4. CASE TimeOutEntry
    BY <2>0, <2>4 DEF TimeOutEntry, TypeOK
  <2>5. CASE Manage
    BY <2>0, <2>5 DEF Manage, TypeOK
  <2>6. CASE ScaleIn
    BY <2>0, <2>6 DEF ScaleIn, TypeOK
  <2>7. CASE Close \/ FinishCooldown \/ Kill
    BY <2>0, <2>7 DEF Close, FinishCooldown, Kill, TypeOK
  <2>8. CASE PassTime
    BY <2>0, <2>8 DEF PassTime, TypeOK
  <2>9. CASE UNCHANGED vars
    BY <2>0, <2>9 DEF vars, TypeOK
  <2>. QED
    BY <2>1, <2>2, <2>3, <2>4, <2>5, <2>6, <2>7, <2>8, <2>9 DEF Next
<1>. QED BY <1>1, <1>2, PTL DEF Spec

-----------------------------------------------------------------------------
\* A position is closed in the size it was filled in, after any number of
\* scale-ins.  The invariant is inductive together with the type invariant:
\* only Fill and ScaleIn touch a size, and both record it.
THEOREM SizesCorrect == Spec => []SizeIsWhatWasFilled
<1>1. Init => SizeIsWhatWasFilled
  BY DEF Init, SizeIsWhatWasFilled, Closes, Idle
<1>2. TypeOK /\ SizeIsWhatWasFilled /\ [Next]_vars => SizeIsWhatWasFilled'
  <2> SUFFICES ASSUME TypeOK, SizeIsWhatWasFilled, [Next]_vars
               PROVE  SizeIsWhatWasFilled'
    OBVIOUS
  <2>. USE DEF SizeIsWhatWasFilled, Closes, Process
  <2>. USE DEF TypeOK, TradingState, IdleState, QualifyingState, EntryReadyState,
               PositionState, ExitingState, CooldownState, Idle
  <2>1. CASE Detect
    BY <2>1 DEF Detect, SignalDetected
  <2>2. CASE Qualify
    BY <2>2 DEF Qualify, FiltersPass, FiltersReject
  <2>3. CASE Fill
    BY <2>3, MachineAssumption DEF Fill, OrderFilled
  <2>4. CASE TimeOutEntry
    BY <2>4 DEF TimeOutEntry, OrderTimeout
  <2>5. CASE Manage
    BY <2>5 DEF Manage, ProfitLocked, MomentumContinues, MaxScalesReached,
                ExitSignal, ExitingFrom
  <2>6. CASE ScaleIn
    BY <2>6, MachineAssumption DEF ScaleIn, ScaleComplete
  <2>7. CASE Close \/ FinishCooldown \/ Kill
    BY <2>7 DEF Close, FinishCooldown, Kill, PositionClosed, CooldownComplete,
                KillSwitchTriggered
  <2>8. CASE PassTime
    BY <2>8 DEF PassTime, Elapse
  <2>9. CASE UNCHANGED vars
    BY <2>9 DEF vars
  <2>. QED
    BY <2>1, <2>2, <2>3, <2>4, <2>5, <2>6, <2>7, <2>8, <2>9 DEF Next
<1>. QED BY <1>1, <1>2, TypeCorrect, PTL DEF Spec

-----------------------------------------------------------------------------
\* What one step may do to an exposed machine.
LEMMA ExposedStep ==
  ASSUME TypeOK, [Next]_vars, Exposed(current)
  PROVE  /\ ~Exposed(current') => current.tag = "Exiting" /\ current'.tag = "Cooldown"
         /\ Exposed(current') =>
              /\ current'.symbol = current.symbol
              /\ current'.direction = current.direction
              /\ \/ current'.ticket = current.ticket
                 \/ current'.tag = "Exiting" /\ current'.reason = "KillSwitch"
<1>. USE DEF TypeOK, TradingState, IdleState, QualifyingState, EntryReadyState,
             PositionState, ExitingState, CooldownState, Idle, Exposed, Process
<1>1. CASE Detect
  BY <1>1 DEF Detect, SignalDetected
<1>2. CASE Qualify
  BY <1>2 DEF Qualify, FiltersPass, FiltersReject
<1>3. CASE Fill
  BY <1>3 DEF Fill, OrderFilled
<1>4. CASE TimeOutEntry
  BY <1>4 DEF TimeOutEntry, OrderTimeout
<1>5. CASE Manage
  BY <1>5 DEF Manage, ProfitLocked, MomentumContinues, MaxScalesReached,
              ExitSignal, ExitingFrom
<1>6. CASE ScaleIn
  BY <1>6 DEF ScaleIn, ScaleComplete
<1>7. CASE Close \/ FinishCooldown \/ Kill
  BY <1>7 DEF Close, FinishCooldown, Kill, PositionClosed, CooldownComplete,
              KillSwitchTriggered
<1>8. CASE PassTime
  BY <1>8 DEF PassTime, Elapse
<1>9. CASE UNCHANGED vars
  BY <1>9 DEF vars
<1>. QED
  BY <1>1, <1>2, <1>3, <1>4, <1>5, <1>6, <1>7, <1>8, <1>9 DEF Next

\* A position is never dropped: exposure ends only with a reported close.
THEOREM ExposureCorrect == Spec => ExposureEndsByClose
<1>1. TypeOK /\ [Next]_vars =>
        [Exposed(current) /\ ~Exposed(current') =>
           current.tag = "Exiting" /\ current'.tag = "Cooldown"]_vars
  BY ExposedStep
<1>. QED BY <1>1, TypeCorrect, PTL DEF Spec, ExposureEndsByClose

\* An exposed machine keeps its symbol, its direction and, but for the kill
\* switch, its ticket.
THEOREM IdentityCorrect == Spec => PositionIdentity
<1>1. TypeOK /\ [Next]_vars =>
        [Exposed(current) /\ Exposed(current') =>
           /\ current'.symbol = current.symbol
           /\ current'.direction = current.direction
           /\ \/ current'.ticket = current.ticket
              \/ current'.tag = "Exiting" /\ current'.reason = "KillSwitch"]_vars
  BY ExposedStep
<1>. QED BY <1>1, TypeCorrect, PTL DEF Spec, PositionIdentity
=============================================================================
