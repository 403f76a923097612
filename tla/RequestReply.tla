----------------------------- MODULE RequestReply -----------------------------
(***************************************************************************)
(* What the loop may expect of BridgeClient::request: calls one at a time, *)
(* each of which comes back with an error or with a reply.  The reply is   *)
(* one that nobody was given before, younger than all that were; it need   *)
(* not be the reply to this call, but falls behind by no more calls than   *)
(* have ended in an error.                                                 *)
(***************************************************************************)
EXTENDS Naturals, FiniteSets

CONSTANT MaxReqs  \* bound: calls in one behaviour

Reqs == 1..MaxReqs

VARIABLES
  n,        \* calls so far; the last one is call n
  blocked,  \* the caller waits for call n
  outcome,  \* how a call ended: "none" while it has not, "error" or "reply"
  answers   \* the call whose reply it was given, 0 for none

vars == <<n, blocked, outcome, answers>>

Errors == Cardinality({r \in 1..n : outcome[r] = "error"})

Init == /\ n = 0 /\ blocked = FALSE
        /\ outcome = [r \in Reqs |-> "none"]
        /\ answers = [r \in Reqs |-> 0]

Call == /\ ~blocked /\ n < MaxReqs
        /\ n' = n + 1 /\ blocked' = TRUE
        /\ UNCHANGED <<outcome, answers>>

Fail == /\ blocked /\ blocked' = FALSE
        /\ outcome' = [outcome EXCEPT ![n] = "error"]
        /\ UNCHANGED <<n, answers>>

\* Refused before it was sent.
FailAtOnce == /\ ~blocked /\ n < MaxReqs
              /\ n' = n + 1
              /\ outcome' = [outcome EXCEPT ![n + 1] = "error"]
              /\ UNCHANGED <<blocked, answers>>

Reply(q) == /\ blocked /\ blocked' = FALSE
            /\ q <= n /\ n - q <= Errors
            /\ \A r \in Reqs : answers[r] < q
            /\ outcome' = [outcome EXCEPT ![n] = "reply"]
            /\ answers' = [answers EXCEPT ![n] = q]
            /\ UNCHANGED n

Next == Call \/ Fail \/ FailAtOnce \/ \E q \in Reqs : Reply(q)

Spec == Init /\ [][Next]_vars
=============================================================================
