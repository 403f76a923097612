----------------------------- MODULE BridgeClient -----------------------------
(***************************************************************************)
(* bridge_client.rs: the requests of the loop's thread, the thread that    *)
(* owns the REQ socket, and the service's REP socket at the other end.     *)
(*                                                                         *)
(* The caller blocks for at most CallTimeout; the bridge waits for a reply *)
(* for at most ReplyTimeout and then goes on, whatever the socket is still *)
(* owed.  Replies carry the id of their request and nobody compares it, so *)
(* that the next reply to arrive answers the request in flight.            *)
(*                                                                         *)
(* Time is counted in seconds and passes only when neither thread has      *)
(* anything left to do: a step of theirs takes microseconds.               *)
(***************************************************************************)
EXTENDS Naturals, Sequences, FiniteSets

CONSTANTS
  MaxReqs,       \* bound: requests in one behaviour
  ReplyTimeout,  \* 5: how long the bridge waits for a reply
  CallTimeout    \* 6: how long the caller waits for the bridge

ASSUME BridgeAssumption == /\ MaxReqs \in Nat
                           /\ ReplyTimeout \in Nat /\ CallTimeout \in Nat
                           /\ ReplyTimeout < CallTimeout

Reqs == 1..MaxReqs

VARIABLES
  n, blocked, waited,         \* caller: requests so far, does it wait, how long
  outcome, answers,           \* caller: how each request ended, whose reply it got
  prompt,                     \* history: requests that found the bridge idle
  bridge,                     \* "connecting", "idle" (in select!), "awaiting", "down"
  order_rx,                   \* requests on their way to the bridge
  inflight, awaited,          \* the request the bridge awaits a reply to, how long
  peer,                       \* is the REQ socket connected
  wire, back,                 \* requests, and replies by what they answer, in transit
  refuses, stuck              \* does the library refuse a send after such a wait

callerVars == <<n, blocked, waited, outcome, answers, prompt>>
bridgeVars == <<bridge, order_rx, inflight, awaited>>
socketVars == <<peer, wire, back, refuses, stuck>>
vars == <<callerVars, bridgeVars, socketVars>>

TypeOK ==
  /\ n \in 0..MaxReqs /\ blocked \in BOOLEAN /\ waited \in 0..CallTimeout
  /\ outcome \in [Reqs -> {"none", "error", "timeout", "gave up", "reply"}]
  /\ answers \in [Reqs -> 0..MaxReqs]
  /\ prompt \subseteq Reqs
  /\ bridge \in {"connecting", "idle", "awaiting", "down"}
  /\ order_rx \in Seq(Reqs) /\ wire \in Seq(Reqs) /\ back \in Seq(Reqs)
  /\ inflight \in 0..MaxReqs /\ awaited \in 0..ReplyTimeout
  /\ peer \in BOOLEAN /\ refuses \in BOOLEAN /\ stuck \in BOOLEAN

\* Whether a REQ socket takes another request after a wait that was given up
\* is the library's affair: zeromq is not part of the repository.
Init ==
  /\ n = 0 /\ blocked = FALSE /\ waited = 0
  /\ outcome = [r \in Reqs |-> "none"] /\ answers = [r \in Reqs |-> 0]
  /\ prompt = {}
  /\ bridge = "connecting" /\ order_rx = <<>> /\ inflight = 0 /\ awaited = 0
  /\ peer = FALSE /\ wire = <<>> /\ back = <<>>
  /\ refuses \in BOOLEAN /\ stuck = FALSE

-----------------------------------------------------------------------------
(***************************************************************************)
(* The loop's thread.                                                      *)
(***************************************************************************)
IsConnected == bridge # "down"

Request ==
  /\ ~blocked /\ n < MaxReqs
  /\ n' = n + 1
  /\ IF IsConnected
     THEN /\ blocked' = TRUE /\ waited' = 0
          /\ order_rx' = Append(order_rx, n')
          /\ prompt' = IF bridge = "idle" /\ order_rx = <<>>
                       THEN prompt \union {n'} ELSE prompt
          /\ UNCHANGED outcome
     ELSE /\ outcome' = [outcome EXCEPT ![n'] = "error"]
          /\ UNCHANGED <<blocked, waited, order_rx, prompt>>
  /\ UNCHANGED <<answers, bridge, inflight, awaited, socketVars>>

CallerIsDue == blocked /\ waited >= CallTimeout

\* Mutant: the caller waits again.
CallerWaitsAgain ==
  /\ CallerIsDue /\ waited' = 0
  /\ UNCHANGED <<n, blocked, outcome, answers, prompt, bridgeVars, socketVars>>

CallTimesOut ==
  /\ CallerIsDue
  /\ blocked' = FALSE
  /\ outcome' = [outcome EXCEPT ![n] = "gave up"]
  /\ UNCHANGED <<n, waited, answers, prompt, bridgeVars, socketVars>>

\* response_tx.send: a caller that has given up on r does not hear it.
Respond(r, how, q) ==
  IF blocked /\ r = n
  THEN /\ blocked' = FALSE
       /\ outcome' = [outcome EXCEPT ![r] = how]
       /\ answers' = [answers EXCEPT ![r] = q]
  ELSE UNCHANGED <<blocked, outcome, answers>>

-----------------------------------------------------------------------------
(***************************************************************************)
(* The bridge's thread.                                                    *)
(***************************************************************************)
ConnectOk ==
  /\ bridge = "connecting" /\ bridge' = "idle" /\ peer' = TRUE
  /\ UNCHANGED <<callerVars, order_rx, inflight, awaited, wire, back, refuses,
                 stuck>>

\* The thread ends and drops the channel, with whatever is in it; a caller
\* that waits finds its response channel closed.
ConnectFails ==
  /\ bridge = "connecting" /\ bridge' = "down"
  /\ order_rx' = <<>>
  /\ Respond(n, "error", 0)
  /\ UNCHANGED <<n, waited, prompt, inflight, awaited, socketVars>>

TakeRequest ==
  /\ bridge = "idle" /\ order_rx # <<>>
  /\ order_rx' = Tail(order_rx)
  /\ IF peer /\ ~stuck
     THEN /\ bridge' = "awaiting" /\ inflight' = Head(order_rx) /\ awaited' = 0
          /\ wire' = Append(wire, Head(order_rx))
          /\ UNCHANGED <<blocked, outcome, answers>>
     ELSE /\ Respond(Head(order_rx), "error", 0)
          /\ UNCHANGED <<bridge, inflight, awaited, wire>>
  /\ UNCHANGED <<n, waited, prompt, peer, back, refuses, stuck>>

\* Mutant: a reply that was given stays in the queue.
AfterReceive == back

AfterReply == Tail(back)

ReceiveReply ==
  /\ bridge = "awaiting" /\ back # <<>>
  /\ bridge' = "idle"
  /\ back' = AfterReply
  /\ Respond(inflight, "reply", Head(back))
  /\ UNCHANGED <<n, waited, prompt, order_rx, inflight, awaited, peer, wire, refuses,
                 stuck>>

\* The library notices a broken connection sooner or later, or not in time.
ReceiveError ==
  /\ bridge = "awaiting" /\ ~peer
  /\ bridge' = "idle"
  /\ Respond(inflight, "error", 0)
  /\ UNCHANGED <<n, waited, prompt, order_rx, inflight, awaited, socketVars>>

\* Mutant: the bridge waits longer than the caller does.
ReplyIsDueLate == bridge = "awaiting" /\ awaited > CallTimeout

ReplyIsDue == bridge = "awaiting" /\ awaited >= ReplyTimeout

\* Mutant: the bridge reports the timeout and waits on.
ReplyAwaitedAgain ==
  /\ ReplyIsDue /\ back = <<>>
  /\ awaited' = 0
  /\ Respond(inflight, "timeout", 0)
  /\ UNCHANGED <<n, waited, prompt, bridge, order_rx, inflight, socketVars>>

ReplyTimesOut ==
  /\ ReplyIsDue /\ back = <<>>
  /\ bridge' = "idle"
  /\ Respond(inflight, "timeout", 0)
  /\ stuck' = refuses
  /\ UNCHANGED <<n, waited, prompt, order_rx, inflight, awaited, peer, wire, back, refuses>>

-----------------------------------------------------------------------------
(***************************************************************************)
(* The service answers each request once, in order and in its own time.    *)
(* A connection that breaks takes along what is in transit; it may come    *)
(* back, even before the bridge has noticed, and a socket that had refused *)
(* to send may or may not recover.                                         *)
(***************************************************************************)
ServeRequest ==
  /\ wire # <<>>
  /\ wire' = Tail(wire) /\ back' = Append(back, Head(wire))
  /\ UNCHANGED <<callerVars, bridgeVars, peer, refuses, stuck>>

Disconnect ==
  /\ peer /\ peer' = FALSE
  /\ wire' = <<>> /\ back' = <<>>
  /\ stuck' \in {stuck, FALSE}
  /\ UNCHANGED <<callerVars, bridgeVars, refuses>>

Reconnect ==
  /\ ~peer /\ bridge \in {"idle", "awaiting"} /\ peer' = TRUE
  /\ UNCHANGED <<callerVars, bridgeVars, wire, back, refuses, stuck>>

-----------------------------------------------------------------------------
BridgeStep == TakeRequest \/ ReceiveReply \/ ReceiveError \/ ReplyTimesOut

\* Nothing is left to do at this instant, and somebody is waiting.
Quiet == /\ ~(bridge = "idle" /\ order_rx # <<>>)
         /\ ~(bridge = "awaiting" /\ (back # <<>> \/ ReplyIsDue))
         /\ ~CallerIsDue

Tick ==
  /\ Quiet /\ (blocked \/ bridge = "awaiting")
  /\ waited' = IF blocked THEN waited + 1 ELSE waited
  /\ awaited' = IF bridge = "awaiting" THEN awaited + 1 ELSE awaited
  /\ UNCHANGED <<n, blocked, outcome, answers, prompt, bridge, order_rx, inflight,
                 socketVars>>

Next == \/ Request \/ CallTimesOut
        \/ ConnectOk \/ ConnectFails \/ BridgeStep
        \/ ServeRequest \/ Disconnect \/ Reconnect
        \/ Tick

\* Time passes and the two threads run; neither the service nor the network
\* owes anything.
Fairness == WF_vars(Tick) /\ WF_vars(CallTimesOut) /\ WF_vars(BridgeStep)

Spec == Init /\ [][Next]_vars
FairSpec == Spec /\ Fairness

-----------------------------------------------------------------------------
(***************************************************************************)
(* A request that finds the bridge idle hears from it, an answer or an     *)
(* error, before its own time is up, and so does every later one: what     *)
(* keeps the loop from sending into a queue it has already given up on.    *)
(* It holds because the bridge's wait is the shorter one.                  *)
(***************************************************************************)
PromptCallsStayPrompt ==
  \A r \in prompt : /\ outcome[r] # "gave up"
                    /\ r < n => r + 1 \in prompt

(***************************************************************************)
(* A request is given another request's reply only after a wait was given  *)
(* up, and never by a library that refuses to send then.                   *)
(***************************************************************************)
StaleOnlyAfterTimeout ==
  \A r \in 1..n : outcome[r] = "reply" /\ answers[r] # r =>
    /\ ~refuses
    /\ \E q \in 1..r-1 : outcome[q] \in {"timeout", "gave up"}

(***************************************************************************)
(* To the loop the client is RequestReply: whatever happens to service and *)
(* connection, no reply is given twice or out of order, and replies fall   *)
(* behind by no more than the errors reported.                             *)
(***************************************************************************)
Calls == INSTANCE RequestReply WITH
  outcome <- [r \in Reqs |-> IF outcome[r] \in {"timeout", "gave up"} THEN "error"
                                                                  ELSE outcome[r]]

ImplementsCalls == Calls!Spec

(***************************************************************************)
(* Every request returns, even if the bridge never connects: the loop's    *)
(* thread does not hang in it.                                             *)
(***************************************************************************)
RequestsReturn == blocked ~> ~blocked

(***************************************************************************)
(* The bridge does not hang in a wait: ticks and results are forwarded     *)
(* only between two requests (bridge_client.rs:133), whatever the service  *)
(* does.                                                                   *)
(***************************************************************************)
ForwardingResumes == bridge = "awaiting" ~> bridge = "idle"
=============================================================================
