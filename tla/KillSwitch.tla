------------------------------ MODULE KillSwitch ------------------------------
(***************************************************************************)
(* KillSwitch of kill_switch.rs: an atomic flag, a reason and an event     *)
(* log, the last two each behind a mutex of its own.  trigger takes &self, *)
(* so any thread that shares the AppState may call it.  Its three writes   *)
(* (the compare_exchange, the reason, the event) are separate steps and    *)
(* other threads run in between.                                           *)
(***************************************************************************)
EXTENDS Naturals, Sequences

CONSTANTS
  Threads,      \* threads that may call trigger, once each
  KillReasons,  \* values of KillReason
  NoReason      \* None

ASSUME NoReasonAssumption == NoReason \notin KillReasons

VARIABLES
  triggered,      \* AtomicBool
  reason,         \* Mutex<Option<KillReason>>
  event_history,  \* Mutex<Vec<KillEvent>>: the reason of each event
  pc,             \* where each thread is in trigger
  arg             \* the reason each thread triggers with

vars == <<triggered, reason, event_history, pc, arg>>

TypeOK == /\ triggered \in BOOLEAN
          /\ reason \in KillReasons \union {NoReason}
          /\ event_history \in Seq(KillReasons)
          /\ pc \in [Threads -> {"outside", "exchange", "reason", "event", "returned"}]
          /\ arg \in [Threads -> KillReasons \union {NoReason}]

Init == /\ triggered = FALSE
        /\ reason = NoReason
        /\ event_history = <<>>
        /\ pc = [t \in Threads |-> "outside"]
        /\ arg = [t \in Threads |-> NoReason]

Goto(t, from, to) == pc[t] = from /\ pc' = [pc EXCEPT ![t] = to]

Trigger(t) ==
  /\ \E r \in KillReasons : arg' = [arg EXCEPT ![t] = r]
  /\ Goto(t, "outside", "exchange")
  /\ UNCHANGED <<triggered, reason, event_history>>

\* Mutant: a plain store in place of the compare_exchange.
ExchangeAlwaysWins(t) ==
  /\ triggered' = TRUE
  /\ Goto(t, "exchange", "reason")
  /\ UNCHANGED <<reason, event_history, arg>>

\* compare_exchange succeeds: this thread goes on to write.
ExchangeWins(t) ==
  /\ triggered = FALSE
  /\ triggered' = TRUE
  /\ Goto(t, "exchange", "reason")
  /\ UNCHANGED <<reason, event_history, arg>>

\* "Kill switch already triggered, ignoring additional trigger"
ExchangeLoses(t) ==
  /\ triggered = TRUE
  /\ Goto(t, "exchange", "returned")
  /\ UNCHANGED <<triggered, reason, event_history, arg>>

\* Mutant: the thread returns once the reason is stored.
StoreReasonOnly(t) ==
  /\ Goto(t, "reason", "returned")
  /\ reason' = arg[t]
  /\ UNCHANGED <<triggered, event_history, arg>>

StoreReason(t) ==
  /\ Goto(t, "reason", "event")
  /\ reason' = arg[t]
  /\ UNCHANGED <<triggered, event_history, arg>>

PushEvent(t) ==
  /\ Goto(t, "event", "returned")
  /\ event_history' = Append(event_history, arg[t])
  /\ UNCHANGED <<triggered, reason, arg>>

Running(t) == \/ ExchangeWins(t) \/ ExchangeLoses(t)
              \/ StoreReason(t) \/ PushEvent(t)

Next == \E t \in Threads : Trigger(t) \/ Running(t)

\* A thread inside trigger goes on: the mutexes are held for one write each.
Fairness == \A t \in Threads : WF_vars(Running(t))

Spec == Init /\ [][Next]_vars /\ Fairness

-----------------------------------------------------------------------------
(***************************************************************************)
(* However many threads trigger, one of them is recorded, once, and the    *)
(* reason that get_reason returns is the one in the log ("Only trigger     *)
(* once", kill_switch.rs:71).                                              *)
(***************************************************************************)
OneRecordedKill ==
  /\ Len(event_history) <= 1
  /\ event_history # <<>> => event_history[1] = reason /\ reason # NoReason

(***************************************************************************)
(* Once triggered, always triggered, and for the same reason: no later     *)
(* caller replaces the reason of the first.                                *)
(***************************************************************************)
TriggerIsFinal ==
  [][/\ triggered => triggered'
     /\ reason # NoReason => reason' = reason]_vars

(***************************************************************************)
(* A switch that is on eventually has its reason and its event on record.  *)
(***************************************************************************)
TriggerIsExplained == triggered ~> (reason # NoReason /\ Len(event_history) = 1)
=============================================================================
