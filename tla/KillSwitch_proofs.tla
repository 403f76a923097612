--------------------------- MODULE KillSwitch_proofs ---------------------------
(***************************************************************************)
(* The kill switch, for any number of threads and any set of reasons.      *)
(***************************************************************************)
EXTENDS KillSwitch, TLAPS

\* The thread that won the exchange and has not returned.
Writing(t) == pc[t] \in {"reason", "event"}

(***************************************************************************)
(* What each point of trigger knows.  OneRecordedKill alone is not         *)
(* inductive: that a second event is never pushed rests on the exchange    *)
(* letting through one thread, and on that thread finding the log empty.   *)
(***************************************************************************)
IInv ==
  /\ TypeOK
  /\ ~triggered => reason = NoReason /\ event_history = <<>>
  /\ \A t \in Threads : Writing(t) => triggered
  /\ \A t, u \in Threads : Writing(t) /\ Writing(u) => t = u
  /\ \A t \in Threads : pc[t] = "reason" => reason = NoReason
  /\ \A t \in Threads : pc[t] = "event" => reason = arg[t]
  /\ \A t \in Threads : Writing(t) => event_history = <<>>
  /\ \A t \in Threads : pc[t] \in {"exchange", "reason", "event"} =>
                          arg[t] \in KillReasons
  /\ OneRecordedKill

LEMMA InvInit == Init => IInv
<1>1. <<>> \in Seq(KillReasons) /\ Len(<<>>) = 0
  OBVIOUS
<1>2. Init => TypeOK
  BY <1>1 DEF Init, TypeOK
<1>3. Init => OneRecordedKill
  BY <1>1 DEF Init, OneRecordedKill
<1>. QED
  BY <1>2, <1>3 DEF Init, IInv, Writing

LEMMA InvStep == IInv /\ [Next]_vars => IInv'
<1> SUFFICES ASSUME IInv, [Next]_vars PROVE IInv'
  OBVIOUS
<1>. USE NoReasonAssumption DEF IInv, TypeOK, Writing, OneRecordedKill, Goto
<1>1. ASSUME NEW t \in Threads, Trigger(t) PROVE IInv'
  BY <1>1 DEF Trigger
<1>2. ASSUME NEW t \in Threads, ExchangeWins(t) PROVE IInv'
  BY <1>2 DEF ExchangeWins
<1>3. ASSUME NEW t \in Threads, ExchangeLoses(t) PROVE IInv'
  BY <1>3 DEF ExchangeLoses
<1>4. ASSUME NEW t \in Threads, StoreReason(t) PROVE IInv'
  BY <1>4 DEF StoreReason
<1>5. ASSUME NEW t \in Threads, PushEvent(t) PROVE IInv'
  <2>a. event_history = <<>> /\ arg[t] \in KillReasons
    BY <1>5 DEF PushEvent
  <2>b. event_history' = Append(<<>>, arg[t])
    BY <1>5, <2>a DEF PushEvent
  <2>1. /\ Len(event_history') = 1
        /\ event_history'[1] = arg[t]
        /\ event_history' \in Seq(KillReasons)
    BY ONLY <2>a, <2>b
  <2>2. \A u \in Threads : ~Writing(u)'
    BY <1>5 DEF PushEvent
  <2>3. reason' = arg[t] /\ reason' # NoReason
    BY <1>5 DEF PushEvent
  <2>. QED BY <1>5, <2>1, <2>2, <2>3 DEF PushEvent
<1>6. CASE UNCHANGED vars
  BY <1>6 DEF vars
<1>. QED
  BY <1>1, <1>2, <1>3, <1>4, <1>5, <1>6 DEF Next, Running

\* Flag, reason and events keep their types, for any set of threads: the
\* history holds kill reasons only (kill_switch.rs:70).
THEOREM TypeCorrect == Spec => []TypeOK
<1>1. IInv => TypeOK
  BY DEF IInv
<1>. QED BY <1>1, InvInit, InvStep, PTL DEF Spec

\* One kill is recorded, once, under the reason that was stored, whatever the
\* interleaving of the threads that trigger.
THEOREM KillRecordedOnce == Spec => []OneRecordedKill
<1>1. IInv => OneRecordedKill
  BY DEF IInv
<1>. QED BY <1>1, InvInit, InvStep, PTL DEF Spec

\* The switch never resets and never changes its reason.
THEOREM KillIsFinal == Spec => TriggerIsFinal
<1>1. IInv /\ [Next]_vars => [/\ triggered => triggered'
                              /\ reason # NoReason => reason' = reason]_vars
  <2> SUFFICES ASSUME IInv, Next
               PROVE  /\ triggered => triggered'
                      /\ reason # NoReason => reason' = reason
    OBVIOUS
  <2>1. PICK t \in Threads : Trigger(t) \/ Running(t)
    BY DEF Next
  <2>. QED
    BY <2>1 DEF IInv, TypeOK, Goto, Running, Trigger, ExchangeWins,
                ExchangeLoses, StoreReason, PushEvent
<1>. QED BY <1>1, InvInit, InvStep, PTL DEF Spec, TriggerIsFinal
=============================================================================
