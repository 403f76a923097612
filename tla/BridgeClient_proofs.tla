-------------------------- MODULE BridgeClient_proofs --------------------------
(***************************************************************************)
(* Proofs about BridgeClient: for any number of requests and any two       *)
(* timeouts of which the bridge's is the shorter.                          *)
(***************************************************************************)
EXTENDS BridgeClient, FiniteSetTheorems, TLAPS

-----------------------------------------------------------------------------
(***************************************************************************)
(* Type correctness: the flags, and the rest.                              *)
(***************************************************************************)
Outcome == {"none", "error", "timeout", "gave up", "reply"}

Flags == blocked \in BOOLEAN /\ peer \in BOOLEAN /\ refuses \in BOOLEAN /\ stuck \in BOOLEAN

Counts ==
  /\ n \in 0..MaxReqs /\ waited \in 0..CallTimeout
  /\ outcome \in [Reqs -> Outcome]
  /\ answers \in [Reqs -> 0..MaxReqs]
  /\ prompt \subseteq Reqs
  /\ bridge \in {"connecting", "idle", "awaiting", "down"}
  /\ order_rx \in Seq(Reqs) /\ wire \in Seq(Reqs) /\ back \in Seq(Reqs)
  /\ inflight \in 0..MaxReqs /\ awaited \in 0..ReplyTimeout

LEMMA TypeParts == TypeOK <=> Flags /\ Counts
BY Zenon DEF TypeOK, Flags, Counts, Outcome

LEMMA TypeInit == Init => TypeOK
<1>1. Init => Flags
  BY Zenon DEF Init, Flags
<1>2. Init => Counts
  BY BridgeAssumption DEF Init, Counts, Outcome
<1> QED BY <1>1, <1>2, TypeParts

LEMMA Numbers ==
  ASSUME Counts
  PROVE  /\ n \in Nat /\ n \in 0..MaxReqs /\ MaxReqs \in Nat /\ inflight \in Nat
         /\ \A x : x \in 1..n => x \in Reqs /\ x \in Nat
<1>1. n \in 0..MaxReqs /\ inflight \in 0..MaxReqs
  BY Zenon DEF Counts
<1> QED BY ONLY <1>1, BridgeAssumption DEF Reqs

LEMMA RespondTyped ==
  ASSUME Counts, NEW r, NEW how \in {"error", "timeout", "reply"}, NEW q \in 0..MaxReqs,
         Respond(r, how, q)
  PROVE  /\ outcome' \in [Reqs -> Outcome]
         /\ answers' \in [Reqs -> 0..MaxReqs]
BY DEF Respond, Counts, Outcome

LEMMA RespondFlag ==
  ASSUME Flags, NEW r, NEW how, NEW q, Respond(r, how, q)
  PROVE  blocked' \in BOOLEAN
BY Zenon DEF Respond, Flags

LEMMA FlagsNext == Flags /\ [Next]_vars => Flags'
<1> SUFFICES ASSUME Flags, [Next]_vars PROVE Flags'
  OBVIOUS
<1>1. CASE Request
  BY <1>1, Zenon DEF Request, Flags, socketVars
<1>2. CASE CallTimesOut
  BY <1>2, Zenon DEF CallTimesOut, Flags, socketVars
<1>3. CASE ConnectOk
  BY <1>3, Zenon DEF ConnectOk, Flags, callerVars
<1>4. CASE ConnectFails
  BY <1>4, RespondFlag, Zenon DEF ConnectFails, Flags, socketVars
<1>5. CASE TakeRequest
  BY <1>5, RespondFlag, Zenon DEF TakeRequest, Flags
<1>6. CASE ReceiveReply
  BY <1>6, RespondFlag, Zenon DEF ReceiveReply, Flags
<1>7. CASE ReceiveError
  BY <1>7, RespondFlag, Zenon DEF ReceiveError, Flags, socketVars
<1>8. CASE ReplyTimesOut
  BY <1>8, RespondFlag, Zenon DEF ReplyTimesOut, Flags
<1>9. CASE ServeRequest
  BY <1>9, Zenon DEF ServeRequest, Flags, callerVars
<1>10. CASE Disconnect
  BY <1>10, Zenon DEF Disconnect, Flags, callerVars
<1>11. CASE Reconnect
  BY <1>11, Zenon DEF Reconnect, Flags, callerVars
<1>12. CASE Tick
  BY <1>12, Zenon DEF Tick, Flags, socketVars
<1>13. CASE UNCHANGED vars
  BY <1>13, Zenon DEF vars, callerVars, socketVars, Flags
<1> QED BY <1>1, <1>2, <1>3, <1>4, <1>5, <1>6, <1>7, <1>8, <1>9, <1>10, <1>11, <1>12, <1>13,
           Zenon DEF Next, BridgeStep

LEMMA CountsNext == Counts /\ [Next]_vars => Counts'
<1> SUFFICES ASSUME Counts, [Next]_vars PROVE Counts'
  OBVIOUS
<1> USE BridgeAssumption
<1>1. CASE Request
  <2>1. n' \in 0..MaxReqs /\ n' \in Reqs
    BY <1>1 DEF Request, Counts, Reqs
  <2>2. CASE IsConnected
    <3>1. order_rx' \in Seq(Reqs) /\ prompt' \subseteq Reqs
      <4>1. order_rx' = Append(order_rx, n') /\ order_rx \in Seq(Reqs)
        BY <1>1, <2>2, Zenon DEF Request, Counts
      <4>2. prompt' \in {prompt \union {n'}, prompt} /\ prompt \subseteq Reqs
        BY <1>1, <2>2, Zenon DEF Request, Counts
      <4> QED BY ONLY <2>1, <4>1, <4>2
    <3>2. waited' = 0 /\ UNCHANGED <<outcome, answers, bridge, inflight, awaited, wire, back>>
      BY <1>1, <2>2 DEF Request, socketVars
    <3> QED BY <2>1, <3>1, <3>2 DEF Counts
  <2>3. CASE ~IsConnected
    BY <1>1, <2>1, <2>3 DEF Request, Counts, Outcome, socketVars
  <2> QED BY <2>2, <2>3
<1>2. CASE CallTimesOut
  BY <1>2 DEF CallTimesOut, Counts, Outcome, bridgeVars, socketVars
<1>3. CASE ConnectOk
  BY <1>3 DEF ConnectOk, Counts, callerVars
<1>4. CASE ConnectFails
  <2>8. Respond(n, "error", 0)
    BY <1>4, Zenon DEF ConnectFails
  <2>9. /\ outcome' \in [Reqs -> Outcome]
        /\ answers' \in [Reqs -> 0..MaxReqs]
    BY <2>8, RespondTyped
  <2>1. UNCHANGED <<n, waited, prompt, inflight, awaited, wire, back>>
    BY <1>4 DEF ConnectFails, socketVars
  <2>2. order_rx' \in Seq(Reqs) /\ bridge' = "down"
    BY <1>4 DEF ConnectFails
  <2> QED BY <2>1, <2>2, <2>9 DEF Counts
<1>5. CASE TakeRequest
  <2>1. Head(order_rx) \in Reqs /\ Tail(order_rx) \in Seq(Reqs)
    BY <1>5 DEF TakeRequest, Counts
  <2>2. Head(order_rx) \in 0..MaxReqs
    BY <2>1 DEF Reqs
  <2>3. CASE peer /\ ~stuck
    <3>1. wire' \in Seq(Reqs) /\ order_rx' \in Seq(Reqs)
      <4>1. /\ wire' = Append(wire, Head(order_rx)) /\ wire \in Seq(Reqs)
            /\ order_rx' = Tail(order_rx)
        BY <1>5, <2>3, Zenon DEF TakeRequest, Counts
      <4> QED BY ONLY <2>1, <4>1
    <3>2. /\ bridge' = "awaiting" /\ inflight' \in 0..MaxReqs /\ awaited' = 0
          /\ UNCHANGED <<n, waited, prompt, outcome, answers, back>>
      BY <1>5, <2>2, <2>3 DEF TakeRequest
    <3> QED BY <3>1, <3>2 DEF Counts
  <2>4. CASE ~(peer /\ ~stuck)
    <3>1. Respond(Head(order_rx), "error", 0)
      BY <1>5, <2>4, Zenon DEF TakeRequest
    <3>2. outcome' \in [Reqs -> Outcome] /\ answers' \in [Reqs -> 0..MaxReqs]
      BY <3>1, RespondTyped
    <3>3. /\ order_rx' \in Seq(Reqs)
          /\ UNCHANGED <<n, waited, prompt, bridge, inflight, awaited, wire, back>>
      BY <1>5, <2>1, <2>4 DEF TakeRequest
    <3> QED BY <3>2, <3>3 DEF Counts
  <2> QED BY <2>3, <2>4
<1>6. CASE ReceiveReply
  <2>1. Head(back) \in Reqs /\ Tail(back) \in Seq(Reqs)
    BY <1>6 DEF ReceiveReply, Counts
  <2>2. Head(back) \in 0..MaxReqs
    BY <2>1 DEF Reqs
  <2> QED BY <1>6, <2>1, <2>2, RespondTyped DEF ReceiveReply, AfterReply, Counts
<1>7. CASE ReceiveError
  <2>8. Respond(inflight, "error", 0)
    BY <1>7, Zenon DEF ReceiveError
  <2>9. /\ outcome' \in [Reqs -> Outcome]
        /\ answers' \in [Reqs -> 0..MaxReqs]
    BY <2>8, RespondTyped
  <2>1. UNCHANGED <<n, waited, prompt, order_rx, inflight, awaited, wire, back>>
    BY <1>7 DEF ReceiveError, socketVars
  <2>2. bridge' = "idle"
    BY <1>7 DEF ReceiveError
  <2> QED BY <2>1, <2>2, <2>9 DEF Counts
<1>8. CASE ReplyTimesOut
  <2>8. Respond(inflight, "timeout", 0)
    BY <1>8, Zenon DEF ReplyTimesOut
  <2>9. /\ outcome' \in [Reqs -> Outcome]
        /\ answers' \in [Reqs -> 0..MaxReqs]
    BY <2>8, RespondTyped
  <2>1. UNCHANGED <<n, waited, prompt, order_rx, inflight, awaited, wire, back>>
    BY <1>8 DEF ReplyTimesOut
  <2>2. bridge' = "idle"
    BY <1>8 DEF ReplyTimesOut
  <2> QED BY <2>1, <2>2, <2>9 DEF Counts
<1>9. CASE ServeRequest
  BY <1>9 DEF ServeRequest, Counts, callerVars, bridgeVars
<1>10. CASE Disconnect
  BY <1>10 DEF Disconnect, Counts, callerVars, bridgeVars
<1>11. CASE Reconnect
  BY <1>11 DEF Reconnect, Counts, callerVars, bridgeVars
<1>12. CASE Tick
  <2>1. waited' \in 0..CallTimeout
    BY <1>12 DEF Tick, Quiet, CallerIsDue, Counts
  <2>2. awaited' \in 0..ReplyTimeout
    BY <1>12 DEF Tick, Quiet, ReplyIsDue, Counts
  <2> QED BY <1>12, <2>1, <2>2 DEF Tick, Counts, socketVars
<1>13. CASE UNCHANGED vars
  BY <1>13 DEF vars, callerVars, bridgeVars, socketVars, Counts
<1> QED BY <1>1, <1>2, <1>3, <1>4, <1>5, <1>6, <1>7, <1>8, <1>9, <1>10, <1>11, <1>12, <1>13
        DEF Next, BridgeStep

\* The types of the client's state; neither wait outlasts its timeout
\* (bridge_client.rs:175 and 255).
THEOREM TypeCorrect == Spec => []TypeOK
<1>1. TypeOK /\ [Next]_vars => TypeOK'
  <2>1. (Flags /\ Counts)' => TypeOK'
    BY TypeParts, PTL
  <2> QED BY <2>1, TypeParts, FlagsNext, CountsNext
<1> QED BY <1>1, TypeInit, PTL DEF Spec

LEMMA CountsCorrect == Spec => []Counts
<1>1. Init => Counts
  BY TypeInit, TypeParts
<1> QED BY <1>1, CountsNext, PTL DEF Spec

-----------------------------------------------------------------------------
(***************************************************************************)
(* What a step does to the calls: nothing, or it makes one, or it ends the *)
(* one that is waited for.                                                 *)
(***************************************************************************)
Untouched == n' = n /\ (blocked' <=> blocked) /\ outcome' = outcome /\ answers' = answers

Asked == /\ ~blocked /\ blocked' /\ n < MaxReqs /\ n' = n + 1
         /\ outcome' = outcome /\ answers' = answers

Refused == /\ ~blocked /\ ~blocked' /\ n < MaxReqs /\ n' = n + 1
           /\ outcome' = [outcome EXCEPT ![n'] = "error"] /\ answers' = answers

Ended(how) == /\ blocked /\ ~blocked' /\ n' = n
              /\ outcome' = [outcome EXCEPT ![n] = how]

Failed == /\ \E how \in {"error", "timeout", "gave up"} : Ended(how)
          /\ answers' \in {answers, [answers EXCEPT ![n] = 0]}

Replied == /\ ReceiveReply /\ inflight = n /\ Ended("reply")
           /\ answers' = [answers EXCEPT ![n] = Head(back)]

LEMMA RespondFails ==
  ASSUME NEW r, NEW how \in {"error", "timeout"}, Respond(r, how, 0), n' = n
  PROVE  Untouched \/ Failed
<1>1. CASE blocked /\ r = n
  BY <1>1, Zenon DEF Respond, Failed, Ended
<1>2. CASE ~(blocked /\ r = n)
  BY <1>2, Zenon DEF Respond, Untouched
<1> QED BY <1>1, <1>2

LEMMA CallSteps ==
  ASSUME [Next]_vars
  PROVE  Untouched \/ Asked \/ Refused \/ Failed \/ Replied
<1>1. CASE Request
  BY <1>1, Zenon DEF Request, Asked, Refused
<1>2. CASE CallTimesOut
  BY <1>2, Zenon DEF CallTimesOut, CallerIsDue, Failed, Ended
<1>3. CASE ConnectFails
  BY <1>3, RespondFails, Zenon DEF ConnectFails
<1>4. CASE TakeRequest
  <2>1. n' = n
    BY <1>4, Zenon DEF TakeRequest
  <2>2. Respond(Head(order_rx), "error", 0) \/ Untouched
    BY <1>4, <2>1, Zenon DEF TakeRequest, Untouched
  <2> QED BY <2>1, <2>2, RespondFails
<1>5. CASE ReceiveReply
  <2>1. Respond(inflight, "reply", Head(back)) /\ n' = n
    BY <1>5, Zenon DEF ReceiveReply
  <2>2. CASE blocked /\ inflight = n
    BY <1>5, <2>1, <2>2, Zenon DEF Respond, Replied, Ended
  <2>3. CASE ~(blocked /\ inflight = n)
    BY <2>1, <2>3, Zenon DEF Respond, Untouched
  <2> QED BY <2>2, <2>3
<1>6. CASE ReceiveError
  BY <1>6, RespondFails, Zenon DEF ReceiveError
<1>7. CASE ReplyTimesOut
  BY <1>7, RespondFails, Zenon DEF ReplyTimesOut
<1>8. CASE ConnectOk \/ ServeRequest \/ Disconnect \/ Reconnect \/ Tick \/ UNCHANGED vars
  BY <1>8, Zenon DEF ConnectOk, ServeRequest, Disconnect, Reconnect, Tick, vars, callerVars,
     Untouched
<1> QED BY <1>1, <1>2, <1>3, <1>4, <1>5, <1>6, <1>7, <1>8, Zenon DEF Next, BridgeStep

-----------------------------------------------------------------------------
(***************************************************************************)
(* Calls are made one after the other: only what has not been asked, or is *)
(* still waited for, has no outcome.                                       *)
(***************************************************************************)
CallInv == /\ \A x \in Reqs : x > n => outcome[x] = "none"
           /\ blocked => n \in Reqs /\ outcome[n] = "none"

LEMMA CallNext == Counts /\ CallInv /\ [Next]_vars => CallInv'
<1> SUFFICES ASSUME Counts, CallInv, [Next]_vars PROVE CallInv'
  OBVIOUS
<1>0. /\ outcome \in [Reqs -> Outcome] /\ n \in 0..MaxReqs /\ n \in Nat
      /\ \A x \in Reqs : x > n => outcome[x] = "none"
  BY Numbers, Zenon DEF Counts, CallInv
<1>1. CASE Untouched
  BY <1>1, Zenon DEF Untouched, CallInv
<1>2. CASE Asked \/ Refused
  <2>1. n' = n + 1 /\ n < MaxReqs
    BY <1>2, Zenon DEF Asked, Refused
  <2>2. n' \in Reqs /\ \A x \in Reqs : x > n' => x > n /\ x # n'
    BY ONLY <1>0, <2>1, BridgeAssumption DEF Reqs
  <2>3. outcome' \in {outcome, [outcome EXCEPT ![n'] = "error"]}
    BY <1>2, Zenon DEF Asked, Refused
  <2>4. \A x \in Reqs : x > n' => outcome'[x] = "none"
    BY ONLY <1>0, <2>2, <2>3
  <2>5. blocked' => outcome'[n'] = "none"
    <3>1. n' > n
      BY ONLY <1>0, <2>1
    <3> QED BY <1>0, <1>2, <2>2, <3>1, Zenon DEF Asked, Refused
  <2> QED BY <2>2, <2>4, <2>5, Zenon DEF CallInv
<1>3. CASE Failed \/ Replied
  <2>1. PICK how : Ended(how)
    BY <1>3, Zenon DEF Failed, Replied
  <2>2. n' = n /\ outcome' = [outcome EXCEPT ![n] = how] /\ ~blocked'
    BY <2>1, Zenon DEF Ended
  <2>3. ASSUME NEW x \in Reqs, x > n PROVE outcome'[x] = "none"
    <3>1. x # n
      BY ONLY <1>0, <2>3
    <3>2. outcome' = [outcome EXCEPT ![n] = how]
      BY <2>2
    <3> QED BY ONLY <1>0, <2>3, <3>1, <3>2
  <2> QED BY <2>2, <2>3, Zenon DEF CallInv
<1> QED BY <1>1, <1>2, <1>3, CallSteps

LEMMA CallCorrect == Spec => []CallInv
<1>1. Init => CallInv
  BY DEF Init, CallInv
<1> QED BY <1>1, CountsCorrect, CallNext, PTL DEF Spec

-----------------------------------------------------------------------------
(***************************************************************************)
(* Prompt calls.  While the last request is a prompt one, the bridge has   *)
(* nothing to do but that request, and the two waits are equally long.     *)
(***************************************************************************)
Attended ==
  \/ ~blocked /\ bridge = "idle" /\ order_rx = <<>>
  \/ blocked /\ bridge = "idle" /\ order_rx = <<n>> /\ waited = 0
  \/ blocked /\ bridge = "awaiting" /\ order_rx = <<>> /\ inflight = n /\ waited = awaited

PromptInv == /\ prompt \subseteq 1..n
             /\ \A r \in prompt : /\ outcome[r] # "gave up"
                                  /\ r < n => r + 1 \in prompt
             /\ n \in prompt => Attended

LEMMA PromptInit == Init => PromptInv
BY DEF Init, PromptInv

LEMMA RespondHides ==
  ASSUME Counts, NEW r, NEW how \in {"error", "timeout", "reply"}, NEW q, Respond(r, how, q)
  PROVE  \A x \in Reqs : outcome'[x] = "gave up" => outcome[x] = "gave up"
BY DEF Respond, Counts

\* A step that asks for nothing and gives up nothing has to keep Attended.
LEMMA PromptKept ==
  ASSUME Counts, PromptInv, UNCHANGED <<n, prompt>>,
         \A x \in Reqs : outcome'[x] = "gave up" => outcome[x] = "gave up",
         n \in prompt => Attended'
  PROVE  PromptInv'
BY DEF PromptInv, Counts

\* A caller that is due has not been attended to.
LEMMA AttendedIsNotDue ==
  ASSUME Counts, Attended
  PROVE  ~CallerIsDue
<1>1. waited <= ReplyTimeout \/ ~blocked
  <2>1. CASE ~blocked
    BY <2>1
  <2>2. CASE waited = 0
    BY <2>2, BridgeAssumption
  <2>3. CASE waited = awaited
    BY <2>3, BridgeAssumption DEF Counts
  <2> QED BY <2>1, <2>2, <2>3 DEF Attended
<1>2. waited \in 0..CallTimeout
  BY DEF Counts
<1> QED BY <1>1, <1>2, BridgeAssumption DEF CallerIsDue

LEMMA PromptRequest == ASSUME Counts, CallInv, PromptInv, Request PROVE PromptInv'
<1>0. /\ n' = n + 1 /\ n < MaxReqs /\ n \in 0..MaxReqs /\ prompt \subseteq 1..n
      /\ prompt' \in {prompt, prompt \union {n'}}
      /\ ~blocked
  BY Zenon DEF Request, Counts, PromptInv
<1>1. n \in Nat /\ n' = n + 1 /\ n' > n /\ n' \in Reqs /\ prompt' \subseteq 1..n'
  BY ONLY <1>0, BridgeAssumption DEF Reqs
<1>2. CASE n \in prompt
  <2>1. bridge = "idle" /\ order_rx = <<>>
    BY <1>2 DEF PromptInv, Attended, Request
  <2>2. /\ prompt' = prompt \union {n'}
        /\ order_rx' = Append(order_rx, n') /\ blocked' /\ waited' = 0
        /\ UNCHANGED <<outcome, bridge>>
    BY <2>1, Zenon DEF Request, IsConnected
  <2>3. order_rx' = <<n'>> /\ n' \in prompt'
    BY ONLY <2>1, <2>2
  <2>4. Attended'
    BY <2>1, <2>2, <2>3 DEF Attended
  <2>5. ASSUME NEW r \in prompt' PROVE r = n' \/ (r \in prompt /\ r \in 1..n)
    BY <1>0, <2>2
  <2>6. outcome[n'] # "gave up"
    BY <1>0, <1>1, Zenon DEF CallInv
  <2>7. ASSUME NEW r \in prompt' PROVE outcome'[r] # "gave up" /\ (r < n' => r + 1 \in prompt')
    <3>1. CASE r = n'
      <4>1. ~(n' < n')
        BY ONLY <1>1
      <4> QED BY <2>2, <2>6, <3>1, <4>1
    <3>2. CASE r # n'
      <4>1. r \in prompt /\ r \in 1..n
        BY <2>5, <3>2
      <4>2. outcome[r] # "gave up" /\ (r < n => r + 1 \in prompt)
        BY <4>1, Zenon DEF PromptInv
      <4>3. r < n \/ r + 1 = n'
        BY ONLY <1>1, <4>1
      <4>4. r + 1 \in prompt'
        BY ONLY <2>2, <2>3, <4>2, <4>3
      <4> QED BY ONLY <2>2, <4>2, <4>4
    <3> QED BY <3>1, <3>2
  <2> QED BY <1>1, <2>4, <2>7 DEF PromptInv
<1>3. CASE n \notin prompt
  <2>1. \A r \in prompt : r \in 1..n /\ r < n /\ r + 1 \in prompt /\ outcome[r] # "gave up"
    <3> SUFFICES ASSUME NEW r \in prompt
                 PROVE  r \in 1..n /\ r < n /\ r + 1 \in prompt /\ outcome[r] # "gave up"
      OBVIOUS
    <3>1. r \in 1..n /\ r # n
      BY <1>0, <1>3
    <3>2. r < n
      BY ONLY <1>1, <3>1
    <3> QED BY <3>1, <3>2 DEF PromptInv
  <2>2. CASE prompt' = prompt
    <3>1. n' \notin prompt'
      BY ONLY <1>0, <1>1, <2>2
    <3>2. \A r \in prompt : outcome'[r] = outcome[r]
      <4>1. outcome' \in {outcome, [outcome EXCEPT ![n'] = "error"]}
        BY Zenon DEF Request
      <4>2. outcome \in [Reqs -> Outcome] /\ prompt \subseteq Reqs
        BY Zenon DEF Counts
      <4> QED BY ONLY <2>2, <3>1, <4>1, <4>2
    <3> QED BY <1>1, <2>1, <2>2, <3>1, <3>2, Zenon DEF PromptInv
  <2>3. CASE prompt' # prompt
    <3>1. /\ bridge = "idle" /\ order_rx = <<>> /\ prompt' = prompt \union {n'}
          /\ order_rx' = Append(order_rx, n') /\ blocked' /\ waited' = 0
          /\ UNCHANGED <<outcome, bridge>>
      BY <2>3, Zenon DEF Request, IsConnected
    <3>2. order_rx' = <<n'>>
      BY ONLY <3>1
    <3>3. Attended'
      BY <3>1, <3>2, Zenon DEF Attended
    <3>4. outcome[n'] # "gave up"
      BY <1>0, <1>1, Zenon DEF CallInv
    <3>5. ASSUME NEW r \in prompt' PROVE outcome'[r] # "gave up" /\ (r < n' => r + 1 \in prompt')
      <4>1. CASE r = n'
        <5>1. ~(n' < n')
          BY ONLY <1>1
        <5> QED BY ONLY <3>1, <3>4, <4>1, <5>1
      <4>2. CASE r # n'
        <5>1. r \in prompt
          BY ONLY <3>1, <4>2, r \in prompt'
        <5>2. r + 1 \in prompt /\ outcome[r] # "gave up"
          BY <2>1, <5>1
        <5> QED BY ONLY <3>1, <5>2
      <4> QED BY <4>1, <4>2
    <3> QED BY <1>1, <3>3, <3>5, Zenon DEF PromptInv
  <2> QED BY <2>2, <2>3
<1> QED BY <1>2, <1>3

LEMMA PromptNext == Counts /\ CallInv /\ PromptInv /\ [Next]_vars => PromptInv'
<1> SUFFICES ASSUME Counts, CallInv, PromptInv, [Next]_vars PROVE PromptInv'
  OBVIOUS
<1>1. CASE Request
  BY <1>1, PromptRequest
<1>2. CASE CallTimesOut
  <2>1. n \notin prompt
    BY <1>2, AttendedIsNotDue DEF CallTimesOut, PromptInv
  <2>2. UNCHANGED <<n, prompt>> /\ outcome' = [outcome EXCEPT ![n] = "gave up"]
    BY <1>2 DEF CallTimesOut
  <2> QED BY <2>1, <2>2 DEF PromptInv, Counts
<1>3. CASE ConnectOk
  <2>1. n \notin prompt
    BY <1>3 DEF ConnectOk, PromptInv, Attended
  <2> QED BY <1>3, <2>1, PromptKept DEF ConnectOk, callerVars
<1>4. CASE ConnectFails
  <2>1. n \notin prompt
    BY <1>4 DEF ConnectFails, PromptInv, Attended
  <2>2. Respond(n, "error", 0)
    BY <1>4 DEF ConnectFails
  <2> QED BY <1>4, <2>1, <2>2, RespondHides, PromptKept DEF ConnectFails
<1>5. CASE TakeRequest
  <2>1. CASE peer /\ ~stuck
    <3>1. n \in prompt => Attended'
      <4> SUFFICES ASSUME n \in prompt PROVE Attended'
        OBVIOUS
      <4>1. blocked /\ order_rx = <<n>> /\ waited = 0
        BY <1>5, Zenon DEF TakeRequest, PromptInv, Attended
      <4>2. Head(order_rx) = n /\ Tail(order_rx) = <<>>
        BY ONLY <4>1
      <4> QED BY <1>5, <2>1, <4>1, <4>2, Zenon DEF TakeRequest, Attended
    <3> QED BY <1>5, <2>1, <3>1, PromptKept DEF TakeRequest
  <2>2. CASE ~(peer /\ ~stuck)
    <3>1. Respond(Head(order_rx), "error", 0)
      BY <1>5, <2>2 DEF TakeRequest
    <3>2. n \in prompt => Attended'
      <4> SUFFICES ASSUME n \in prompt PROVE Attended'
        OBVIOUS
      <4>1. blocked /\ order_rx = <<n>> /\ bridge = "idle"
        BY <1>5, Zenon DEF TakeRequest, PromptInv, Attended
      <4>2. Head(order_rx) = n /\ Tail(order_rx) = <<>>
        BY ONLY <4>1
      <4>3. ~blocked'
        BY <3>1, <4>1, <4>2, Zenon DEF Respond
      <4> QED BY <1>5, <2>2, <4>1, <4>2, <4>3, Zenon DEF TakeRequest, Attended
    <3> QED BY <1>5, <3>1, <3>2, RespondHides, PromptKept DEF TakeRequest
  <2> QED BY <2>1, <2>2
<1>6. CASE ReceiveReply
  <2>1. Respond(inflight, "reply", Head(back))
    BY <1>6 DEF ReceiveReply
  <2>2. n \in prompt => Attended'
    BY <1>6, <2>1 DEF ReceiveReply, PromptInv, Attended, Respond
  <2> QED BY <1>6, <2>1, <2>2, RespondHides, PromptKept DEF ReceiveReply
<1>7. CASE ReceiveError
  <2>1. Respond(inflight, "error", 0)
    BY <1>7 DEF ReceiveError
  <2>2. n \in prompt => Attended'
    BY <1>7, <2>1 DEF ReceiveError, PromptInv, Attended, Respond
  <2> QED BY <1>7, <2>1, <2>2, RespondHides, PromptKept DEF ReceiveError
<1>8. CASE ReplyTimesOut
  <2>1. Respond(inflight, "timeout", 0)
    BY <1>8 DEF ReplyTimesOut
  <2>2. n \in prompt => Attended'
    BY <1>8, <2>1 DEF ReplyTimesOut, ReplyIsDue, PromptInv, Attended, Respond
  <2> QED BY <1>8, <2>1, <2>2, RespondHides, PromptKept DEF ReplyTimesOut
<1>9. CASE ServeRequest \/ Disconnect \/ Reconnect
  <2>1. UNCHANGED <<callerVars, bridgeVars>>
    BY <1>9 DEF ServeRequest, Disconnect, Reconnect
  <2> QED BY <2>1, PromptKept DEF callerVars, bridgeVars, PromptInv, Attended
<1>10. CASE Tick
  <2>1. n \in prompt => Attended'
    <3> SUFFICES ASSUME n \in prompt PROVE Attended'
      OBVIOUS
    <3>1. /\ blocked /\ bridge = "awaiting" /\ order_rx = <<>> /\ inflight = n
          /\ waited = awaited
      <4>1. order_rx = <<n>> => order_rx # <<>>
        OBVIOUS
      <4> QED BY <1>10, <4>1, Zenon DEF Tick, Quiet, PromptInv, Attended
    <3>2. waited' = waited + 1 /\ awaited' = awaited + 1
          /\ UNCHANGED <<n, blocked, bridge, order_rx, inflight>>
      BY <1>10, <3>1, Zenon DEF Tick
    <3> QED BY <3>1, <3>2 DEF Attended
  <2> QED BY <1>10, <2>1, PromptKept DEF Tick
<1>11. CASE UNCHANGED vars
  BY <1>11, PromptKept DEF vars, callerVars, bridgeVars, PromptInv, Attended
<1> QED BY <1>1, <1>2, <1>3, <1>4, <1>5, <1>6, <1>7, <1>8, <1>9, <1>10, <1>11
        DEF Next, BridgeStep

\* A request that finds the bridge idle is never given up, nor is any later
\* one, for any two timeouts of which the bridge's is the shorter
\* (bridge_client.rs:175, 255).
THEOREM PromptCorrect == Spec => []PromptCallsStayPrompt
<1>1. PromptInv => PromptCallsStayPrompt
  BY DEF PromptInv, PromptCallsStayPrompt
<1> QED BY <1>1, CountsCorrect, CallCorrect, PromptInit, PromptNext, PTL DEF Spec

-----------------------------------------------------------------------------
(***************************************************************************)
(* Stale replies.  An outcome, once there is one, stays; a request that is *)
(* still in the bridge's hands is waited for or was given up; and while    *)
(* client and service are in step, what is in transit belongs to the       *)
(* request in flight.                                                      *)
(***************************************************************************)
Settled == /\ n' \in Nat /\ n <= n' /\ (refuses' = refuses)
           /\ \A x \in Reqs : outcome[x] # "none" =>
                outcome'[x] = outcome[x] /\ answers'[x] = answers[x]

LEMMA OutcomesSettle == ASSUME Counts, CallInv, [Next]_vars PROVE Settled
<1>0. /\ n \in Nat /\ outcome \in [Reqs -> Outcome] /\ answers \in [Reqs -> 0..MaxReqs]
      /\ \A x \in Reqs : x > n => outcome[x] = "none"
  BY Numbers, Zenon DEF Counts, CallInv
<1>1. refuses' = refuses
  <2>1. CASE Request \/ CallTimesOut \/ ConnectOk \/ ConnectFails \/ Tick
    BY <2>1, Zenon DEF Request, CallTimesOut, ConnectOk, ConnectFails, Tick, socketVars
  <2>2. CASE TakeRequest \/ ReceiveReply \/ ReceiveError \/ ReplyTimesOut
    BY <2>2, Zenon DEF TakeRequest, ReceiveReply, ReceiveError, ReplyTimesOut, socketVars
  <2>3. CASE ServeRequest \/ Disconnect \/ Reconnect \/ UNCHANGED vars
    BY <2>3, Zenon DEF ServeRequest, Disconnect, Reconnect, vars, socketVars
  <2> QED BY <2>1, <2>2, <2>3, Zenon DEF Next, BridgeStep
<1>2. n' \in Nat /\ n <= n'
  <2>1. n' = n \/ n' = n + 1
    BY CallSteps, Zenon DEF Untouched, Asked, Refused, Failed, Replied, Ended
  <2> QED BY ONLY <1>0, <2>1
<1>3. ASSUME NEW x \in Reqs, outcome[x] # "none"
      PROVE  outcome'[x] = outcome[x] /\ answers'[x] = answers[x]
  <2>1. CASE Untouched \/ Asked
    BY <2>1, Zenon DEF Untouched, Asked
  <2>2. CASE Refused
    <3>1. n' = n + 1 /\ outcome' = [outcome EXCEPT ![n'] = "error"] /\ answers' = answers
      BY <2>2, Zenon DEF Refused
    <3>2. n' > n
      BY ONLY <1>0, <3>1
    <3> QED BY ONLY <1>0, <1>3, <3>1, <3>2
  <2>3. CASE Failed \/ Replied
    <3>1. PICK how : outcome' = [outcome EXCEPT ![n] = how]
      BY <2>3, Zenon DEF Failed, Replied, Ended
    <3>2. PICK q : answers' \in {answers, [answers EXCEPT ![n] = q]}
      BY <2>3, Zenon DEF Failed, Replied
    <3>3. x # n
      BY <1>3, <2>3, Zenon DEF Failed, Replied, Ended, CallInv
    <3> QED BY ONLY <1>0, <3>1, <3>2, <3>3
  <2> QED BY <2>1, <2>2, <2>3, CallSteps
<1> QED BY <1>1, <1>2, <1>3, Zenon DEF Settled

Pending(r) == r \in 1..n /\ ((r = n /\ blocked) \/ outcome[r] = "gave up")

QueueInv ==
  /\ \A i \in 1..Len(order_rx) : /\ Pending(order_rx[i])
                                 /\ bridge = "awaiting" => inflight < order_rx[i]
  /\ \A i, j \in 1..Len(order_rx) : i < j => order_rx[i] < order_rx[j]
  /\ bridge = "awaiting" => Pending(inflight)

LEMMA PendingKept ==
  ASSUME Counts, NEW r, NEW how, NEW q, Respond(r, how, q), n' = n,
         NEW x, Pending(x), x # r
  PROVE  Pending(x)'
<1>1. CASE blocked /\ r = n
  <2>1. outcome[x] = "gave up" /\ x \in 1..n /\ x # n
    BY <1>1, Zenon DEF Pending
  <2>2. outcome' = [outcome EXCEPT ![n] = how] /\ outcome \in [Reqs -> Outcome]
    BY <1>1, Zenon DEF Respond, Counts
  <2>3. x \in Reqs
    BY <2>1, Numbers
  <2>4. outcome'[x] = "gave up"
    BY ONLY <2>1, <2>2, <2>3
  <2> QED BY <2>1, <2>4, Zenon DEF Pending
<1>2. CASE ~(blocked /\ r = n)
  BY <1>2, Zenon DEF Respond, Pending
<1> QED BY <1>1, <1>2

\* A wait that ends leaves the requests that queue behind it.
LEMMA QueueAfterWait ==
  ASSUME Counts, QueueInv, bridge = "awaiting", bridge' = "idle",
         UNCHANGED <<n, order_rx>>, NEW how, NEW q, Respond(inflight, how, q)
  PROVE  QueueInv'
<1>1. ASSUME NEW i \in 1..Len(order_rx) PROVE Pending(order_rx[i])'
  <2>1. Pending(order_rx[i]) /\ inflight < order_rx[i]
    BY Zenon DEF QueueInv
  <2>2. order_rx[i] # inflight
    <3>1. inflight \in Nat
      BY Numbers
    <3> QED BY ONLY <2>1, <3>1
  <2> QED BY <2>1, <2>2, PendingKept
<1>2. \A i, j \in 1..Len(order_rx) : i < j => order_rx[i] < order_rx[j]
  BY Zenon DEF QueueInv
<1> QED BY <1>1, <1>2, Zenon DEF QueueInv

LEMMA QueueRequest == ASSUME Counts, QueueInv, Request PROVE QueueInv'
<1>0. /\ n' = n + 1 /\ n \in Nat /\ n < MaxReqs /\ ~blocked /\ UNCHANGED <<bridge, inflight>>
      /\ outcome \in [Reqs -> Outcome] /\ order_rx \in Seq(Reqs)
      /\ outcome' \in {outcome, [outcome EXCEPT ![n'] = "error"]}
  BY Numbers, Zenon DEF Request, Counts
<1>1. n' \in 1..n' /\ n' \in Nat /\ \A x \in 1..n : x \in 1..n' /\ x < n' /\ x # n'
  BY ONLY <1>0
<1>2. ASSUME NEW x, Pending(x) PROVE Pending(x)' /\ x < n'
  <2>1. x \in 1..n /\ outcome[x] = "gave up" /\ x \in Reqs
    BY <1>0, <1>2, Numbers, Zenon DEF Pending
  <2>2. outcome'[x] = "gave up"
    BY ONLY <1>0, <1>1, <2>1
  <2> QED BY <1>1, <2>1, <2>2, Zenon DEF Pending
<1>3. CASE order_rx' = order_rx
  BY <1>0, <1>2, <1>3, Zenon DEF QueueInv
<1>4. CASE order_rx' # order_rx
  <2>1. order_rx' = Append(order_rx, n') /\ blocked'
    BY <1>4, Zenon DEF Request
  <2>2. n' \in Reqs
    BY <1>0, <1>1, Numbers DEF Reqs
  <2>3. /\ Len(order_rx) \in Nat /\ Len(order_rx') = Len(order_rx) + 1
        /\ \A i \in 1..Len(order_rx) : order_rx'[i] = order_rx[i]
        /\ order_rx'[Len(order_rx) + 1] = n'
    BY ONLY <1>0, <2>1, <2>2
  <2>4. ASSUME NEW i \in 1..Len(order_rx')
        PROVE  i \in 1..Len(order_rx) \/ i = Len(order_rx) + 1
    BY ONLY <2>3, <2>4
  <2>5. Pending(n)'
    BY <1>1, <2>1, Zenon DEF Pending
  <2>6. bridge = "awaiting" => inflight < n'
    BY <1>2, Zenon DEF QueueInv
  <2>7. ASSUME NEW i \in 1..Len(order_rx')
        PROVE  Pending(order_rx[i])' /\ (bridge' = "awaiting" => inflight' < order_rx'[i])
    <3>1. CASE i \in 1..Len(order_rx)
      BY <1>0, <1>2, <2>3, <3>1, Zenon DEF QueueInv
    <3>2. CASE i = Len(order_rx) + 1
      <4>1. order_rx'[i] = n'
        BY <2>3, <3>2
      <4> QED BY <1>0, <2>5, <2>6, <4>1, Zenon
    <3> QED BY <2>4, <3>1, <3>2
  <2>8. ASSUME NEW i \in 1..Len(order_rx'), NEW j \in 1..Len(order_rx'), i < j
        PROVE  order_rx'[i] < order_rx'[j]
    <3>0. i \in 1..Len(order_rx)
      BY ONLY <2>3, <2>8
    <3>1. CASE j \in 1..Len(order_rx)
      BY <2>3, <2>8, <3>0, <3>1, Zenon DEF QueueInv
    <3>2. CASE j = Len(order_rx) + 1
      <4>1. order_rx'[j] = n' /\ order_rx'[i] = order_rx[i]
        BY <2>3, <3>0, <3>2
      <4> QED BY <1>2, <3>0, <4>1, Zenon DEF QueueInv
    <3> QED BY <2>4, <3>1, <3>2
  <2>9. (bridge = "awaiting" => Pending(inflight))'
    BY <1>0, <1>2, Zenon DEF QueueInv
  <2> QED BY <2>7, <2>8, <2>9, Zenon DEF QueueInv
<1> QED BY <1>3, <1>4

LEMMA QueueNext == Counts /\ CallInv /\ QueueInv /\ [Next]_vars => QueueInv'
<1> SUFFICES ASSUME Counts, CallInv, QueueInv, [Next]_vars PROVE QueueInv'
  OBVIOUS
<1>1. CASE Request
  BY <1>1, QueueRequest
<1>2. CASE CallTimesOut
  <2>1. /\ outcome' = [outcome EXCEPT ![n] = "gave up"]
        /\ UNCHANGED <<n, order_rx, bridge, inflight>> /\ outcome \in [Reqs -> Outcome]
    BY <1>2, Zenon DEF CallTimesOut, bridgeVars, Counts
  <2>2. ASSUME NEW x, Pending(x) PROVE Pending(x)'
    <3>1. x \in 1..n /\ (x = n \/ outcome[x] = "gave up") /\ x \in Reqs
      BY <2>2, Numbers, Zenon DEF Pending
    <3>2. outcome'[x] = "gave up"
      BY ONLY <2>1, <3>1
    <3> QED BY <2>1, <3>1, <3>2, Zenon DEF Pending
  <2> QED BY <2>1, <2>2, Zenon DEF QueueInv
<1>3. CASE ConnectFails
  <2>1. bridge' # "awaiting" /\ order_rx' = <<>>
    BY <1>3 DEF ConnectFails
  <2> QED BY <2>1 DEF QueueInv
<1>4. CASE TakeRequest
  <2>1. order_rx # <<>> /\ order_rx' = Tail(order_rx) /\ bridge = "idle" /\ n' = n
        /\ order_rx \in Seq(Reqs)
    BY <1>4, Zenon DEF TakeRequest, Counts
  <2>2. /\ Len(order_rx') = Len(order_rx) - 1 /\ Len(order_rx) \in Nat
        /\ Head(order_rx) = order_rx[1] /\ 1 \in 1..Len(order_rx)
        /\ \A i \in 1..Len(order_rx') : /\ i + 1 \in 1..Len(order_rx) /\ 1 < i + 1
                                        /\ order_rx'[i] = order_rx[i + 1]
    BY ONLY <2>1
  <2>3. ASSUME NEW i \in 1..Len(order_rx'), NEW j \in 1..Len(order_rx'), i < j
        PROVE  order_rx'[i] < order_rx'[j]
    <3>1. i + 1 < j + 1
      BY ONLY <2>2, <2>3
    <3> QED BY <2>2, <3>1, Zenon DEF QueueInv
  <2>4. \A i \in 1..Len(order_rx') : Pending(order_rx'[i]) /\ Head(order_rx) < order_rx'[i]
    BY <2>2, Zenon DEF QueueInv
  <2>5. Pending(Head(order_rx))
    BY <2>2, Zenon DEF QueueInv
  <2>6. CASE peer /\ ~stuck
    <3>1. inflight' = Head(order_rx) /\ UNCHANGED <<n, blocked, outcome>>
      BY <1>4, <2>6, Zenon DEF TakeRequest
    <3>2. \A x : Pending(x) => Pending(x)'
      BY <3>1, Zenon DEF Pending
    <3> QED BY <2>3, <2>4, <2>5, <3>1, <3>2, Zenon DEF QueueInv
  <2>7. CASE ~(peer /\ ~stuck)
    <3>1. Respond(Head(order_rx), "error", 0) /\ bridge' = "idle"
      BY <1>4, <2>1, <2>7, Zenon DEF TakeRequest
    <3>2. ASSUME NEW i \in 1..Len(order_rx') PROVE Pending(order_rx[i])'
      <4>1. Pending(order_rx'[i]) /\ Head(order_rx) < order_rx'[i]
        BY <2>4
      <4>2. Head(order_rx) \in Nat
        BY <2>5, Numbers DEF Pending
      <4>3. order_rx'[i] # Head(order_rx)
        BY ONLY <4>1, <4>2
      <4> QED BY <2>1, <3>1, <4>1, <4>3, PendingKept
    <3>3. bridge' # "awaiting"
      BY <3>1
    <3> QED BY <2>3, <3>2, <3>3, Zenon DEF QueueInv
  <2> QED BY <2>6, <2>7
<1>5. CASE ReceiveReply
  BY <1>5, QueueAfterWait, Zenon DEF ReceiveReply
<1>6. CASE ReceiveError
  BY <1>6, QueueAfterWait, Zenon DEF ReceiveError
<1>7. CASE ReplyTimesOut
  BY <1>7, QueueAfterWait, Zenon DEF ReplyTimesOut, ReplyIsDue
<1>8. CASE ConnectOk
  <2>1. bridge' # "awaiting"
    BY <1>8 DEF ConnectOk
  <2>2. UNCHANGED <<n, blocked, outcome, order_rx>>
    BY <1>8, Zenon DEF ConnectOk, callerVars
  <2> QED BY <2>1, <2>2, Zenon DEF QueueInv, Pending
<1>9. CASE ServeRequest \/ Disconnect \/ Reconnect \/ Tick \/ UNCHANGED vars
  <2>1. UNCHANGED <<n, blocked, outcome, order_rx, bridge, inflight>>
    BY <1>9, Zenon DEF ServeRequest, Disconnect, Reconnect, Tick, vars, callerVars, bridgeVars
  <2> QED BY <2>1, Zenon DEF QueueInv, Pending
<1> QED BY <1>1, <1>2, <1>3, <1>4, <1>5, <1>6, <1>7, <1>8, <1>9, Zenon DEF Next, BridgeStep

-----------------------------------------------------------------------------
\* Client and service are in step: the library sees to it, or no wait has
\* been given up.
Late    == {"timeout", "gave up"}
InStep  == refuses \/ \A x \in 1..n : outcome[x] \notin Late

PeerInv == ~peer => wire = <<>> /\ back = <<>>

\* What is in transit while the bridge awaits a reply.
InTransit == \/ wire = <<inflight>> /\ back = <<>>
             \/ wire = <<>> /\ back = <<inflight>>
             \/ wire = <<>> /\ back = <<>>

LinkInv ==
  InStep => /\ bridge = "awaiting" => InTransit
            /\ bridge # "awaiting" => (refuses /\ stuck) \/ (wire = <<>> /\ back = <<>>)

LEMMA StepsBack == ASSUME Counts, CallInv, [Next]_vars, InStep' PROVE InStep
<1>1. Settled
  BY OutcomesSettle
<1>2. CASE refuses
  BY <1>2, Zenon DEF InStep
<1>3. CASE ~refuses
  <2>1. \A x \in 1..n' : outcome'[x] \notin Late
    BY <1>1, <1>3, Zenon DEF Settled, InStep
  <2>2. ASSUME NEW x \in 1..n, outcome[x] \in Late PROVE FALSE
    <3>1. x \in Reqs /\ x \in 1..n'
      <4>1. n \in Nat /\ n' \in Nat /\ n <= n'
        BY <1>1, Numbers, Zenon DEF Settled
      <4>2. x \in 1..n'
        BY ONLY <4>1, x \in 1..n
      <4> QED BY <4>2, Numbers
    <3>2. outcome[x] # "none"
      BY <2>2 DEF Late
    <3>3. outcome'[x] = outcome[x]
      BY <1>1, <3>1, <3>2, Zenon DEF Settled
    <3> QED BY <2>1, <2>2, <3>1, <3>3
  <2> QED BY <2>2, Zenon DEF InStep
<1> QED BY <1>2, <1>3

LEMMA PeerNext == PeerInv /\ [Next]_vars => PeerInv'
<1> SUFFICES ASSUME PeerInv, [Next]_vars PROVE PeerInv'
  OBVIOUS
<1>1. CASE ServeRequest
  BY <1>1, Zenon DEF ServeRequest, PeerInv
<1>2. CASE TakeRequest
  BY <1>2, Zenon DEF TakeRequest, PeerInv
<1>3. CASE ReceiveReply
  BY <1>3, Zenon DEF ReceiveReply, PeerInv
<1>4. CASE ConnectOk \/ Disconnect \/ Reconnect
  BY <1>4, Zenon DEF ConnectOk, Disconnect, Reconnect, PeerInv
<1>5. CASE \/ Request \/ CallTimesOut \/ ConnectFails \/ ReceiveError \/ ReplyTimesOut
           \/ Tick \/ UNCHANGED vars
  <2>1. UNCHANGED <<peer, wire, back>>
    BY <1>5, Zenon DEF Request, CallTimesOut, ConnectFails, ReceiveError, ReplyTimesOut, Tick,
       vars, socketVars
  <2> QED BY <2>1, Zenon DEF PeerInv
<1> QED BY <1>1, <1>2, <1>3, <1>4, <1>5, Zenon DEF Next, BridgeStep

LEMMA LinkNext ==
  Counts /\ CallInv /\ QueueInv /\ PeerInv /\ LinkInv /\ [Next]_vars => LinkInv'
<1> SUFFICES ASSUME Counts, CallInv, QueueInv, PeerInv, LinkInv, [Next]_vars, InStep'
             PROVE  LinkInv'
  BY Zenon DEF LinkInv
<1>0. InStep
  BY StepsBack
<1>1. CASE TakeRequest
  <2>1. CASE peer /\ ~stuck
    <3>1. bridge' = "awaiting" /\ wire' = Append(wire, inflight') /\ back' = back
          /\ bridge = "idle"
      BY <1>1, <2>1, Zenon DEF TakeRequest
    <3>2. wire = <<>> /\ back = <<>>
      BY <1>0, <2>1, <3>1 DEF LinkInv
    <3>3. wire' = <<inflight'>>
      BY ONLY <3>1, <3>2
    <3> QED BY <3>1, <3>2, <3>3, Zenon DEF LinkInv, InTransit
  <2>2. CASE ~(peer /\ ~stuck)
    <3>1. UNCHANGED <<bridge, wire, back, refuses, stuck>> /\ bridge = "idle"
      BY <1>1, <2>2, Zenon DEF TakeRequest
    <3>2. bridge # "awaiting"
      BY <3>1
    <3> QED BY <1>0, <3>1, <3>2, Zenon DEF LinkInv
  <2> QED BY <2>1, <2>2
<1>2. CASE ReceiveReply
  <2>1. bridge = "awaiting" /\ back # <<>> /\ bridge' = "idle" /\ back' = Tail(back)
        /\ wire' = wire
    BY <1>2, Zenon DEF ReceiveReply, AfterReply
  <2>2. wire = <<>> /\ back = <<inflight>>
    BY <1>0, <2>1, Zenon DEF LinkInv, InTransit
  <2>3. back' = <<>> /\ wire' = <<>> /\ bridge' # "awaiting"
    BY ONLY <2>1, <2>2
  <2> QED BY <2>3, Zenon DEF LinkInv
<1>3. CASE ReceiveError
  <2>1. bridge' # "awaiting"
    BY <1>3 DEF ReceiveError
  <2> QED BY <1>3, <2>1, Zenon DEF ReceiveError, socketVars, PeerInv, LinkInv
<1>4. CASE ReplyTimesOut
  <2>1. /\ bridge = "awaiting" /\ Respond(inflight, "timeout", 0)
        /\ stuck' = refuses /\ UNCHANGED <<n, refuses>>
    BY <1>4, Zenon DEF ReplyTimesOut, ReplyIsDue
  <2>2. Pending(inflight)
    BY <2>1, Zenon DEF QueueInv
  <2>3. inflight \in 1..n /\ inflight \in Reqs
    BY <2>2, Numbers, Zenon DEF Pending
  <2>4. outcome'[inflight] \in Late
    <3>1. CASE blocked /\ inflight = n
      <4>1. outcome' = [outcome EXCEPT ![inflight] = "timeout"] /\ outcome \in [Reqs -> Outcome]
        BY <2>1, <3>1, Zenon DEF Respond, Counts
      <4> QED BY ONLY <2>3, <4>1 DEF Late
    <3>2. CASE ~(blocked /\ inflight = n)
      <4>1. outcome'[inflight] = "gave up"
        BY <2>1, <2>2, <3>2, Zenon DEF Respond, Pending
      <4> QED BY <4>1 DEF Late
    <3> QED BY <3>1, <3>2
  <2>5. refuses'
    BY <2>1, <2>3, <2>4, Zenon DEF InStep
  <2>6. bridge' # "awaiting"
    BY <1>4 DEF ReplyTimesOut
  <2>7. stuck'
    BY <2>1, <2>5
  <2> QED BY <2>5, <2>6, <2>7, Zenon DEF LinkInv
<1>5. CASE ServeRequest
  <2>1. wire # <<>> /\ wire' = Tail(wire) /\ back' = Append(back, Head(wire))
        /\ UNCHANGED <<bridge, inflight, refuses, stuck>>
    BY <1>5, Zenon DEF ServeRequest, bridgeVars
  <2>2. CASE bridge = "awaiting"
    <3>1. wire = <<inflight>> /\ back = <<>>
      BY <1>0, <2>1, <2>2, Zenon DEF LinkInv, InTransit
    <3>2. wire' = <<>> /\ back' = <<inflight>>
      BY ONLY <2>1, <3>1
    <3> QED BY <2>1, <2>2, <3>2, Zenon DEF LinkInv, InTransit
  <2>3. CASE bridge # "awaiting"
    <3>1. refuses /\ stuck
      BY <1>0, <2>1, <2>3, Zenon DEF LinkInv
    <3>2. refuses' /\ stuck' /\ bridge' # "awaiting"
      BY <2>1, <2>3, <3>1
    <3> QED BY <3>2, Zenon DEF LinkInv
  <2> QED BY <2>2, <2>3
<1>6. CASE Disconnect
  <2>1. wire' = <<>> /\ back' = <<>>
    BY <1>6, Zenon DEF Disconnect
  <2> QED BY <2>1, Zenon DEF LinkInv, InTransit
<1>7. CASE ConnectOk \/ ConnectFails
  <2>1. UNCHANGED <<wire, back, refuses, stuck>>
    BY <1>7, Zenon DEF ConnectOk, ConnectFails, socketVars
  <2>2. bridge # "awaiting" /\ bridge' # "awaiting"
    BY <1>7 DEF ConnectOk, ConnectFails
  <2> QED BY <1>0, <2>1, <2>2, Zenon DEF LinkInv
<1>8. CASE Request \/ CallTimesOut \/ Reconnect \/ Tick \/ UNCHANGED vars
  <2>1. UNCHANGED <<bridge, inflight, wire, back, refuses, stuck>>
    BY <1>8, Zenon DEF Request, CallTimesOut, Reconnect, Tick, vars, bridgeVars, socketVars
  <2>2. InTransit => InTransit'
    BY <2>1, Zenon DEF InTransit
  <2> QED BY <1>0, <2>1, <2>2, Zenon DEF LinkInv
<1> QED BY <1>1, <1>2, <1>3, <1>4, <1>5, <1>6, <1>7, <1>8, Zenon DEF Next, BridgeStep

\* Of a reply to another request it is known why.
Excused(r) == ~refuses /\ \E x \in 1..r-1 : outcome[x] \in Late

StaleInv == \A r \in 1..n : outcome[r] = "reply" /\ answers[r] # r => Excused(r)

LEMMA ExcuseStays ==
  ASSUME Settled, Counts, NEW r \in 1..n, Excused(r)
  PROVE  Excused(r)'
<1>1. PICK x \in 1..r-1 : outcome[x] \in Late
  BY Zenon DEF Excused
<1>2. x \in 1..n
  <2>1. n \in Nat
    BY Numbers
  <2> QED BY ONLY <2>1, r \in 1..n, x \in 1..r-1
<1>3. x \in Reqs /\ outcome[x] # "none"
  BY <1>1, <1>2, Numbers DEF Late
<1>4. outcome'[x] = outcome[x]
  BY <1>3, Zenon DEF Settled
<1> QED BY <1>1, <1>4, Zenon DEF Settled, Excused

LEMMA NewReply ==
  ASSUME Counts, CallInv, [Next]_vars, NEW r \in Reqs, outcome[r] = "none", outcome'[r] = "reply"
  PROVE  Replied /\ r = n
<1>0. outcome \in [Reqs -> Outcome] /\ outcome[r] = "none" /\ outcome'[r] = "reply"
  BY Zenon DEF Counts
<1>1. CASE Untouched \/ Asked
  BY <1>0, <1>1, Zenon DEF Untouched, Asked
<1>2. CASE Refused
  <2>1. outcome' = [outcome EXCEPT ![n'] = "error"]
    BY <1>2, Zenon DEF Refused
  <2> QED BY ONLY <1>0, <2>1
<1>3. CASE Failed
  <2>1. PICK how \in {"error", "timeout", "gave up"} : outcome' = [outcome EXCEPT ![n] = how]
    BY <1>3, Zenon DEF Failed, Ended
  <2> QED BY ONLY <1>0, <2>1
<1>4. CASE Replied
  <2>1. outcome' = [outcome EXCEPT ![n] = "reply"]
    BY <1>4, Zenon DEF Replied, Ended
  <2>2. r = n
    BY ONLY <1>0, <2>1
  <2> QED BY <1>4, <2>2
<1> QED BY <1>1, <1>2, <1>3, <1>4, CallSteps

LEMMA StaleNext ==
  Counts /\ CallInv /\ QueueInv /\ LinkInv /\ StaleInv /\ [Next]_vars => StaleInv'
<1> SUFFICES ASSUME Counts, CallInv, QueueInv, LinkInv, StaleInv, [Next]_vars,
                    NEW r \in 1..n', outcome'[r] = "reply", answers'[r] # r
             PROVE  Excused(r)'
  BY Zenon DEF StaleInv
<1>0. Settled
  BY OutcomesSettle
<1>1. r \in Reqs /\ r \in Nat
  <2>1. n' \in 0..MaxReqs
    <3>1. Counts'
      BY CountsNext
    <3> QED BY <3>1, Zenon DEF Counts
  <2> QED BY ONLY <2>1, r \in 1..n', BridgeAssumption DEF Reqs
<1>2. CASE outcome[r] # "none"
  <2>1. outcome[r] = "reply" /\ answers[r] # r
    BY <1>0, <1>1, <1>2, Zenon DEF Settled
  <2>2. r \in 1..n
    <3>1. ~(r > n)
      BY <1>1, <1>2, Zenon DEF CallInv
    <3>2. n \in Nat /\ r \in 1..n'
      BY Numbers
    <3> QED BY ONLY <1>1, <3>1, <3>2
  <2> QED BY <1>0, <2>1, <2>2, ExcuseStays, Zenon DEF StaleInv
<1>3. CASE outcome[r] = "none"
  <2>0. Replied /\ r = n
    BY <1>1, <1>3, NewReply
  <2>1. ReceiveReply /\ inflight = n /\ r = n /\ answers'[r] = Head(back)
    <3>1. answers' = [answers EXCEPT ![n] = Head(back)] /\ answers \in [Reqs -> 0..MaxReqs]
      BY <2>0, Zenon DEF Replied, Counts
    <3>2. answers'[r] = Head(back)
      BY <1>1, <2>0, <3>1
    <3> QED BY <2>0, <3>2, Zenon DEF Replied
  <2>2. bridge = "awaiting" /\ back # <<>>
    BY <2>1, Zenon DEF ReceiveReply
  <2>3. ~InStep
    <3> SUFFICES ASSUME InStep PROVE FALSE
      OBVIOUS
    <3>1. back = <<inflight>>
      BY <2>2, Zenon DEF LinkInv, InTransit
    <3>2. Head(back) = inflight
      BY ONLY <3>1
    <3> QED BY <2>1, <3>2
  <2>4. PICK x \in 1..n : outcome[x] \in Late
    BY <2>3, Zenon DEF InStep
  <2>5. x # n
    BY <1>3, <2>1, <2>4 DEF Late
  <2>6. x \in 1..r-1 /\ x \in Reqs
    <3>1. n \in Nat /\ x \in 1..n /\ x \in Reqs
      BY Numbers
    <3> QED BY ONLY <2>1, <2>5, <3>1
  <2>7. outcome'[x] = outcome[x]
    <3>1. outcome[x] # "none"
      BY <2>4 DEF Late
    <3> QED BY <1>0, <2>6, <3>1, Zenon DEF Settled
  <2>8. ~refuses'
    BY <1>0, <2>3, Zenon DEF InStep, Settled
  <2> QED BY <2>4, <2>6, <2>7, <2>8, Zenon DEF Excused
<1> QED BY <1>2, <1>3

\* However service and connection behave, a request is given another one's
\* reply only after a wait was given up, and never by a library that refuses
\* to send then (bridge_client.rs:203).
THEOREM StaleCorrect == Spec => []StaleOnlyAfterTimeout
<1>1. Init => QueueInv /\ PeerInv /\ LinkInv /\ StaleInv
  <2>1. Init => QueueInv
    BY DEF Init, QueueInv
  <2>2. Init => PeerInv /\ LinkInv
    BY Zenon DEF Init, PeerInv, LinkInv
  <2>3. Init => StaleInv
    BY DEF Init, StaleInv
  <2> QED BY <2>1, <2>2, <2>3
<1>2. StaleInv => StaleOnlyAfterTimeout
  BY Zenon DEF StaleInv, Excused, Late, StaleOnlyAfterTimeout
<1> QED BY <1>1, <1>2, CountsCorrect, CallCorrect, QueueNext, PeerNext, LinkNext, StaleNext,
           PTL DEF Spec

-----------------------------------------------------------------------------
(***************************************************************************)
(* Refinement.  Replies and requests in transit, and those that queue      *)
(* behind them, belong to younger and younger requests, all of them        *)
(* younger than those whose replies were given.                            *)
(***************************************************************************)
Elems(seq)     == {seq[i] : i \in 1..Len(seq)}
Ascending(seq) == \A i, j \in 1..Len(seq) : i < j => seq[i] < seq[j]
Older(S, T)    == \A x \in S, y \in T : x < y

LEMMA AppendAscends ==
  ASSUME NEW seq \in Seq(Reqs), NEW x \in Reqs, Ascending(seq), Older(Elems(seq), {x})
  PROVE  /\ Elems(Append(seq, x)) = Elems(seq) \union {x}
         /\ Ascending(Append(seq, x))
<1> DEFINE s == Append(seq, x)
           m == Len(seq)
<1>1. /\ m \in Nat /\ Len(s) = m + 1 /\ s[m + 1] = x
      /\ \A i \in 1..m : s[i] = seq[i]
  OBVIOUS
<1>2. /\ Elems(seq) = {seq[i] : i \in 1..m} /\ Older(Elems(seq), {x})
      /\ \A i, j \in 1..m : i < j => seq[i] < seq[j]
  BY DEF Elems, Ascending
<1> HIDE DEF s, m
<1>3. 1..m+1 = (1..m) \union {m + 1}
  BY ONLY <1>1
<1>4. Elems(s) = Elems(seq) \union {x}
  BY ONLY <1>1, <1>2, <1>3 DEF Elems
<1>5. ASSUME NEW i \in 1..m+1, NEW j \in 1..m+1, i < j PROVE s[i] < s[j]
  <2>1. i \in 1..m
    BY ONLY <1>1, <1>5
  <2>2. CASE j \in 1..m
    BY <1>1, <1>2, <1>5, <2>1, <2>2
  <2>3. CASE j = m + 1
    BY ONLY <1>1, <1>2, <2>1, <2>3 DEF Older
  <2> QED BY <1>3, <2>2, <2>3
<1> QED BY <1>1, <1>4, <1>5 DEF Ascending, s

LEMMA TailAscends ==
  ASSUME NEW seq \in Seq(Reqs), seq # <<>>, Ascending(seq)
  PROVE  /\ Head(seq) \in Elems(seq) /\ Head(seq) \in Reqs /\ Elems(Tail(seq)) \subseteq Elems(seq)
         /\ Older({Head(seq)}, Elems(Tail(seq)))
         /\ Ascending(Tail(seq))
<1>1. /\ Len(Tail(seq)) = Len(seq) - 1 /\ Len(seq) \in Nat
      /\ Head(seq) = seq[1] /\ 1 \in 1..Len(seq) /\ Head(seq) \in Reqs
      /\ \A i \in 1..Len(Tail(seq)) : /\ i + 1 \in 1..Len(seq) /\ 1 < i + 1
                                      /\ Tail(seq)[i] = seq[i + 1]
  OBVIOUS
<1>2. ASSUME NEW i \in 1..Len(Tail(seq)), NEW j \in 1..Len(Tail(seq)), i < j
      PROVE  Tail(seq)[i] < Tail(seq)[j]
  <2>1. i + 1 < j + 1
    BY ONLY <1>1, <1>2
  <2> QED BY <1>1, <2>1 DEF Ascending
<1>3. \A y \in Elems(Tail(seq)) : Head(seq) < y /\ y \in Elems(seq)
  BY <1>1 DEF Elems, Ascending
<1>4. Head(seq) \in Elems(seq)
  BY <1>1 DEF Elems
<1> QED BY <1>1, <1>2, <1>3, <1>4 DEF Ascending, Older

LEMMA NothingAscends == Ascending(<<>>) /\ Elems(<<>>) = {}
BY DEF Ascending, Elems

Given == {0} \union {answers[r] : r \in Reqs}

InOrder(A, B, W, O, N) == /\ Older(A, B) /\ Older(A, W) /\ Older(A, O) /\ Older(A, N)
                          /\ Older(B, W) /\ Older(B, O) /\ Older(B, N)
                          /\ Older(W, O) /\ Older(W, N) /\ Older(O, N)

TransitInv == /\ Ascending(back) /\ Ascending(wire) /\ Ascending(order_rx)
              /\ InOrder(Given, Elems(back), Elems(wire), Elems(order_rx), {n + 1})

LEMMA TransitInit == Init => TransitInv
BY NothingAscends DEF Init, TransitInv, InOrder, Older, Given

LEMMA GivenNext ==
  ASSUME Counts, [Next]_vars
  PROVE  \/ Given' \subseteq Given
         \/ ReceiveReply /\ Given' \subseteq Given \union {Head(back)}
<1>0. answers \in [Reqs -> 0..MaxReqs]
  BY Zenon DEF Counts
<1>1. CASE Untouched \/ Asked \/ Refused
  <2>1. answers' = answers
    BY <1>1, Zenon DEF Untouched, Asked, Refused
  <2> QED BY <2>1 DEF Given
<1>2. CASE Failed
  <2>1. answers' \in {answers, [answers EXCEPT ![n] = 0]}
    BY <1>2, Zenon DEF Failed
  <2> QED BY ONLY <1>0, <2>1 DEF Given
<1>3. CASE Replied
  <2>1. ReceiveReply /\ answers' = [answers EXCEPT ![n] = Head(back)]
    BY <1>3, Zenon DEF Replied
  <2>2. answers' = [answers EXCEPT ![n] = Head(back)]
    BY <2>1
  <2>3. Given' \subseteq Given \union {Head(back)}
    BY ONLY <1>0, <2>2 DEF Given
  <2> QED BY <2>1, <2>3
<1> QED BY <1>1, <1>2, <1>3, CallSteps

LEMMA ElemsAreNumbers ==
  ASSUME Counts
  PROVE  Given \union Elems(back) \union Elems(wire) \union Elems(order_rx) \subseteq Int
<1>1. /\ answers \in [Reqs -> 0..MaxReqs]
      /\ back \in Seq(Reqs) /\ wire \in Seq(Reqs) /\ order_rx \in Seq(Reqs)
  BY Zenon DEF Counts
<1>2. Given \subseteq Int
  BY ONLY <1>1 DEF Given
<1>3. \A seq \in Seq(Reqs) : Elems(seq) \subseteq Int
  BY BridgeAssumption DEF Elems, Reqs
<1> QED BY <1>1, <1>2, <1>3

LEMMA TransitNext == Counts /\ TransitInv /\ [Next]_vars => TransitInv'
<1> SUFFICES ASSUME Counts, TransitInv, [Next]_vars PROVE TransitInv'
  OBVIOUS
<1> DEFINE A == Given
           B == Elems(back)
           W == Elems(wire)
           O == Elems(order_rx)
<1>0. /\ InOrder(A, B, W, O, {n + 1}) /\ n \in Nat
      /\ Ascending(back) /\ Ascending(wire) /\ Ascending(order_rx)
      /\ order_rx \in Seq(Reqs) /\ wire \in Seq(Reqs) /\ back \in Seq(Reqs)
  BY Numbers, Zenon DEF Counts, TransitInv
<1>1. ASSUME ~ReceiveReply PROVE A' \subseteq A
  BY <1>1, GivenNext
<1> HIDE DEF A, B, W, O
<1>2. ASSUME A' \subseteq A, B' \subseteq B, W' \subseteq W, O' \subseteq O, n' = n
      PROVE  InOrder(A, B, W, O, {n + 1})'
  BY ONLY <1>0, <1>2 DEF InOrder, Older
<1>3. CASE Request
  <2>1. n' = n + 1 /\ n' \in Reqs
    <3>1. n' = n + 1 /\ n < MaxReqs
      BY <1>3, Zenon DEF Request
    <3> QED BY ONLY <1>0, <3>1, BridgeAssumption DEF Reqs
  <2>2. UNCHANGED <<wire, back>> /\ order_rx' \in {order_rx, Append(order_rx, n')}
    BY <1>3, Zenon DEF Request, socketVars
  <2>3. Older(Elems(order_rx), {n'})
    BY <1>0, <2>1 DEF InOrder, O
  <2>4. O' \subseteq O \union {n'} /\ Ascending(order_rx')
    <3>1. CASE order_rx' = order_rx
      BY <1>0, <3>1 DEF O
    <3>2. CASE order_rx' = Append(order_rx, n')
      <4>1. /\ Elems(Append(order_rx, n')) = Elems(order_rx) \union {n'}
            /\ Ascending(Append(order_rx, n'))
        BY <1>0, <2>1, <2>3, AppendAscends
      <4> QED BY <3>2, <4>1 DEF O
    <3> QED BY <2>2, <3>1, <3>2
  <2>5. A' \subseteq A /\ B' = B /\ W' = W
    <3>1. ~ReceiveReply
      BY <1>3, <1>0, <2>1 DEF ReceiveReply
    <3> QED BY <1>1, <2>2, <3>1 DEF B, W
  <2>6. InOrder(A, B, W, O, {n + 1})'
    <3>1. \A x \in A \union B \union W \union O : x < n + 1
      BY <1>0 DEF InOrder, Older
    <3>2. A \union B \union W \union O \subseteq Int
      BY <1>0, ElemsAreNumbers DEF A, B, W, O
    <3>3. \A x \in A \union B \union W \union O : x < n' + 1
      BY ONLY <1>0, <2>1, <3>1, <3>2
    <3> QED BY ONLY <1>0, <2>1, <2>4, <2>5, <3>3 DEF InOrder, Older
  <2> QED BY <1>0, <2>2, <2>4, <2>6 DEF TransitInv, A, B, W, O
<1>4. CASE TakeRequest
  <2>1. /\ order_rx # <<>> /\ order_rx' = Tail(order_rx) /\ n' = n /\ back' = back
        /\ wire' \in {wire, Append(wire, Head(order_rx))}
    BY <1>4, Zenon DEF TakeRequest
  <2>2. /\ Head(order_rx) \in O /\ Head(order_rx) \in Reqs /\ O' \subseteq O
        /\ Older({Head(order_rx)}, O') /\ Ascending(order_rx')
    BY <1>0, <2>1, TailAscends DEF O
  <2>3. W' \subseteq W \union {Head(order_rx)} /\ Ascending(wire')
    <3>1. CASE wire' = wire
      BY <1>0, <3>1 DEF W
    <3>2. CASE wire' = Append(wire, Head(order_rx))
      <4>1. Older(Elems(wire), {Head(order_rx)})
        BY <1>0, <2>2 DEF InOrder, Older, W
      <4>2. /\ Elems(Append(wire, Head(order_rx))) = Elems(wire) \union {Head(order_rx)}
            /\ Ascending(Append(wire, Head(order_rx)))
        BY <1>0, <2>2, <4>1, AppendAscends
      <4> QED BY <3>2, <4>2 DEF W
    <3> QED BY <2>1, <3>1, <3>2
  <2>4. A' \subseteq A /\ B' = B
    <3>1. ~ReceiveReply
      BY <1>4 DEF TakeRequest, ReceiveReply
    <3> QED BY <1>1, <2>1, <3>1 DEF B
  <2>5. InOrder(A, B, W, O, {n + 1})'
    BY ONLY <1>0, <2>1, <2>2, <2>3, <2>4 DEF InOrder, Older
  <2> QED BY <1>0, <2>1, <2>2, <2>3, <2>5 DEF TransitInv, A, B, W, O
<1>5. CASE ServeRequest
  <2>1. /\ wire # <<>> /\ wire' = Tail(wire) /\ n' = n /\ order_rx' = order_rx
        /\ back' = Append(back, Head(wire)) /\ answers' = answers
    BY <1>5, Zenon DEF ServeRequest, callerVars, bridgeVars
  <2>2. /\ Head(wire) \in W /\ Head(wire) \in Reqs /\ W' \subseteq W
        /\ Older({Head(wire)}, W') /\ Ascending(wire')
    BY <1>0, <2>1, TailAscends DEF W
  <2>3. B' = B \union {Head(wire)} /\ Ascending(back')
    <3>1. Older(Elems(back), {Head(wire)})
      BY <1>0, <2>2 DEF InOrder, Older, B
    <3> QED BY <1>0, <2>1, <2>2, <3>1, AppendAscends DEF B
  <2>4. A' = A /\ O' = O
    BY <2>1 DEF A, O, Given
  <2>5. InOrder(A, B, W, O, {n + 1})'
    BY ONLY <1>0, <2>1, <2>2, <2>3, <2>4 DEF InOrder, Older
  <2> QED BY <1>0, <2>1, <2>2, <2>3, <2>5 DEF TransitInv, A, B, W, O
<1>6. CASE ReceiveReply
  <2>1. back # <<>> /\ back' = Tail(back) /\ UNCHANGED <<n, order_rx, wire>>
    BY <1>6, Zenon DEF ReceiveReply, AfterReply
  <2>2. /\ Head(back) \in B /\ B' \subseteq B /\ Older({Head(back)}, B') /\ Ascending(back')
    BY <1>0, <2>1, TailAscends DEF B
  <2>3. A' \subseteq A \union {Head(back)} /\ W' = W /\ O' = O
    BY <2>1, GivenNext DEF A, W, O
  <2>4. InOrder(A, B, W, O, {n + 1})'
    BY ONLY <1>0, <2>1, <2>2, <2>3 DEF InOrder, Older
  <2> QED BY <1>0, <2>1, <2>2, <2>4 DEF TransitInv, A, B, W, O
<1>7. CASE \/ CallTimesOut \/ ConnectOk \/ ConnectFails \/ ReceiveError \/ ReplyTimesOut
           \/ Disconnect \/ Reconnect \/ Tick \/ UNCHANGED vars
  <2>1. /\ n' = n /\ order_rx' \in {order_rx, <<>>}
        /\ wire' \in {wire, <<>>} /\ back' \in {back, <<>>}
    BY <1>7, Zenon DEF CallTimesOut, ConnectOk, ConnectFails, ReceiveError, ReplyTimesOut,
       Disconnect, Reconnect, Tick, vars, callerVars, bridgeVars, socketVars
  <2>2. Ascending(order_rx') /\ Ascending(wire') /\ Ascending(back')
    BY <1>0, <2>1, NothingAscends
  <2>3. O' \subseteq O /\ W' \subseteq W /\ B' \subseteq B
    BY <2>1, NothingAscends DEF O, W, B
  <2>4. A' \subseteq A
    <3> SUFFICES ASSUME ReceiveReply PROVE FALSE
      BY <1>1
    <3>1. back # <<>> /\ back' = Tail(back) /\ bridge = "awaiting" /\ bridge' = "idle"
      BY Zenon DEF ReceiveReply, AfterReply
    <3>2. back' # back
      BY ONLY <1>0, <3>1
    <3> QED BY <1>7, <3>1, <3>2 DEF CallTimesOut, ConnectOk, ConnectFails, ReceiveError,
               ReplyTimesOut, Disconnect, Reconnect, Tick, vars, bridgeVars, socketVars
  <2> QED BY <1>2, <2>1, <2>2, <2>3, <2>4 DEF TransitInv, A, B, W, O
<1> QED BY <1>3, <1>4, <1>5, <1>6, <1>7 DEF Next, BridgeStep
LEMMA TransitCorrect == Spec => []TransitInv
BY CountsCorrect, TransitInit, TransitNext, PTL DEF Spec

-----------------------------------------------------------------------------
\* Who has an outcome, and whose reply it is: younger calls, younger replies.
AnswersInv ==
  /\ \A x \in 1..n : outcome[x] = "none" => x = n /\ blocked
  /\ \A x \in Reqs : /\ outcome[x] = "none" => answers[x] = 0
                     /\ outcome[x] = "reply" => answers[x] \in Reqs
  /\ \A x, y \in Reqs : x < y /\ outcome[x] = "reply" /\ outcome[y] = "reply" =>
       answers[x] < answers[y]

\* What the head of the queue of replies is, to a caller that waits for it.
LEMMA Arrival ==
  ASSUME Counts, CallInv, TransitInv, Replied
  PROVE  /\ n \in Reqs /\ Head(back) \in Reqs /\ Head(back) <= n
         /\ \A r \in Reqs : answers[r] < Head(back)
<1>1. back # <<>> /\ blocked
  BY Zenon DEF Replied, ReceiveReply, Ended
<1>2. back \in Seq(Reqs) /\ Ascending(back)
  BY Zenon DEF Counts, TransitInv
<1>3. Head(back) \in Elems(back) /\ Head(back) \in Reqs
  BY <1>1, <1>2, TailAscends
<1>4. Older(Given, Elems(back)) /\ Older(Elems(back), {n + 1})
  BY Zenon DEF TransitInv, InOrder
<1>5. Head(back) < n + 1 /\ \A r \in Reqs : answers[r] < Head(back)
  BY ONLY <1>3, <1>4 DEF Older, Given
<1>6. n \in Reqs /\ n \in Nat
  BY <1>1, Numbers, Zenon DEF CallInv
<1>7. Head(back) <= n
  BY ONLY <1>3, <1>5, <1>6, BridgeAssumption DEF Reqs
<1> QED BY <1>3, <1>5, <1>6, <1>7

LEMMA AnswersNext ==
  Counts /\ CallInv /\ TransitInv /\ AnswersInv /\ [Next]_vars => AnswersInv'
<1> SUFFICES ASSUME Counts, CallInv, TransitInv, AnswersInv, [Next]_vars PROVE AnswersInv'
  OBVIOUS
<1>0. /\ n \in Nat /\ n \in 0..MaxReqs
      /\ outcome \in [Reqs -> Outcome] /\ answers \in [Reqs -> 0..MaxReqs]
      /\ \A x \in Reqs : x > n => outcome[x] = "none"
  BY Numbers, Zenon DEF Counts, CallInv
<1>9. /\ \A x \in Reqs : outcome[x] = "none" => answers[x] = 0
      /\ \A x \in Reqs : outcome[x] = "reply" => answers[x] \in Reqs
      /\ \A x, y \in Reqs : x < y /\ outcome[x] = "reply" /\ outcome[y] = "reply" =>
           answers[x] < answers[y]
  BY Zenon DEF AnswersInv
<1>1. CASE Untouched
  BY <1>1, Zenon DEF Untouched, AnswersInv
<1>2. CASE Asked \/ Refused
  <2>1. /\ n' = n + 1 /\ n < MaxReqs /\ answers' = answers
        /\ outcome' \in {outcome, [outcome EXCEPT ![n'] = "error"]}
    BY <1>2, Zenon DEF Asked, Refused
  <2>2. \A x \in 1..n : outcome[x] # "none"
    BY <1>2, Zenon DEF Asked, Refused, AnswersInv
  <2>3. n' \in Reqs /\ n' > n /\ 1..n' = (1..n) \union {n'} /\ 1..n \subseteq Reqs /\ n' \notin 1..n
    BY ONLY <1>0, <2>1, BridgeAssumption DEF Reqs
  <2>4. \A x \in Reqs : /\ outcome'[x] = "reply" => outcome[x] = "reply"
                        /\ outcome'[x] = "none" => outcome[x] = "none"
    BY ONLY <1>0, <2>1
  <2>5. \A x \in 1..n : outcome'[x] # "none"
    BY ONLY <1>0, <2>1, <2>2, <2>3
  <2>6. blocked' \/ outcome'[n'] # "none"
    BY <1>0, <1>2, <2>3, Zenon DEF Asked, Refused
  <2>7. \A x \in 1..n' : outcome'[x] = "none" => x = n' /\ blocked'
    BY <2>3, <2>5, <2>6, Zenon
  <2>8. answers' = answers
    BY <2>1
  <2>9. \A x \in Reqs : /\ outcome'[x] = "none" => answers'[x] = 0
                        /\ outcome'[x] = "reply" => answers'[x] \in Reqs
    BY ONLY <1>9, <2>4, <2>8
  <2>10. \A x, y \in Reqs : x < y /\ outcome'[x] = "reply" /\ outcome'[y] = "reply" =>
           answers'[x] < answers'[y]
    BY ONLY <1>9, <2>4, <2>8
  <2> QED BY <2>7, <2>9, <2>10, Zenon DEF AnswersInv
<1>3. CASE Failed \/ Replied
  <2>1. PICK how : /\ how # "none" /\ blocked /\ n' = n
                   /\ outcome' = [outcome EXCEPT ![n] = how]
    BY <1>3, Zenon DEF Failed, Replied, Ended
  <2>2. n \in Reqs /\ 1..n \subseteq Reqs
    BY <2>1, Numbers, Zenon DEF CallInv
  <2>3. \A x \in 1..n' : outcome'[x] # "none"
    <3>1. \A x \in 1..n : x # n => outcome[x] # "none"
      BY Zenon DEF AnswersInv
    <3>2. how # "none" /\ n' = n /\ outcome' = [outcome EXCEPT ![n] = how]
      BY <2>1
    <3> QED BY ONLY <1>0, <2>2, <3>1, <3>2
  <2>4. \A x \in Reqs : outcome'[x] = "none" => answers'[x] = 0
    <3>1. how # "none" /\ outcome' = [outcome EXCEPT ![n] = how]
      BY <2>1
    <3>2. PICK q : answers' \in {answers, [answers EXCEPT ![n] = q]}
      BY <1>3, Zenon DEF Failed, Replied
    <3>3. \A x \in Reqs : outcome'[x] = "none" => outcome[x] = "none" /\ answers'[x] = answers[x]
      BY ONLY <1>0, <2>2, <3>1, <3>2
    <3> QED BY <3>3, Zenon DEF AnswersInv
  <2>5. /\ \A x \in Reqs : outcome'[x] = "reply" => answers'[x] \in Reqs
        /\ \A x, y \in Reqs : x < y /\ outcome'[x] = "reply" /\ outcome'[y] = "reply" =>
             answers'[x] < answers'[y]
    <3>1. CASE Failed
      <4>1. PICK h \in {"error", "timeout", "gave up"} : outcome' = [outcome EXCEPT ![n] = h]
        BY <3>1, Zenon DEF Failed, Ended
      <4>2. answers' \in {answers, [answers EXCEPT ![n] = 0]}
        BY <3>1, Zenon DEF Failed
      <4>3. \A x \in Reqs : outcome'[x] = "reply" => outcome[x] = "reply" /\ answers'[x] = answers[x]
        BY ONLY <1>0, <2>2, <4>1, <4>2
      <4> QED BY <4>3, Zenon DEF AnswersInv
    <3>2. CASE Replied
      <4>1. /\ answers' = [answers EXCEPT ![n] = Head(back)]
            /\ outcome' = [outcome EXCEPT ![n] = "reply"]
        BY <3>2, Zenon DEF Replied, Ended
      <4>2. Head(back) \in Reqs /\ \A r \in Reqs : answers[r] < Head(back)
        BY <3>2, Arrival
      <4>3. \A x \in Reqs : x > n => outcome'[x] # "reply"
        <5>1. \A x \in Reqs : x > n => x # n
          BY ONLY <1>0
        <5> QED BY ONLY <1>0, <4>1, <5>1
      <4>4. answers'[n] = Head(back) /\ \A x \in Reqs : x # n => answers'[x] = answers[x]
        BY ONLY <1>0, <2>2, <4>1
      <4>5. \A x \in Reqs : x # n /\ outcome'[x] = "reply" => outcome[x] = "reply"
        BY ONLY <1>0, <4>1
      <4>6. \A x \in Reqs : outcome'[x] = "reply" => answers'[x] \in Reqs
        BY <4>2, <4>4, <4>5, Zenon DEF AnswersInv
      <4>7. ASSUME NEW x \in Reqs, NEW y \in Reqs, x < y, outcome'[x] = "reply", outcome'[y] = "reply"
            PROVE  answers'[x] < answers'[y]
        <5>1. x # n
          <6> SUFFICES ASSUME x = n PROVE FALSE
            OBVIOUS
          <6>1. y > n
            BY ONLY <4>7, BridgeAssumption, x = n DEF Reqs
          <6> QED BY <4>3, <4>7, <6>1
        <5>2. CASE y = n
          BY <4>2, <4>4, <5>1, <5>2
        <5>3. CASE y # n
          BY <4>4, <4>5, <4>7, <5>1, <5>3, Zenon DEF AnswersInv
        <5> QED BY <5>2, <5>3
      <4> QED BY <4>6, <4>7
    <3> QED BY <1>3, <3>1, <3>2
  <2> QED BY <2>3, <2>4, <2>5, Zenon DEF AnswersInv
<1> QED BY <1>1, <1>2, <1>3, CallSteps

LEMMA AnswersCorrect == Spec => []AnswersInv
<1>1. Init => AnswersInv
  BY BridgeAssumption DEF Init, AnswersInv, Reqs
<1> QED BY <1>1, CountsCorrect, CallCorrect, TransitCorrect, AnswersNext, PTL DEF Spec

-----------------------------------------------------------------------------
(***************************************************************************)
(* The calls as RequestReply sees them: n calls, of which one is waited    *)
(* for, the replied ones had as many replies to calls before this reply,   *)
(* and the others failed; so a reply is behind by the failed at most.      *)
(***************************************************************************)
Seen == [r \in Reqs |-> IF outcome[r] \in {"timeout", "gave up"} THEN "error" ELSE outcome[r]]

LEMMA CardinalityOfUnion ==
  ASSUME NEW S, NEW T, IsFiniteSet(S), IsFiniteSet(T)
  PROVE  /\ IsFiniteSet(S \union T) /\ Cardinality(S \union T) \in Nat
         /\ Cardinality(S \union T) <= Cardinality(S) + Cardinality(T)
<1>1. IsFiniteSet(S \intersect T) /\ IsFiniteSet(S \union T)
  BY FS_Intersection, FS_Union
<1>2. /\ Cardinality(S) \in Nat /\ Cardinality(T) \in Nat
      /\ Cardinality(S \union T) \in Nat /\ Cardinality(S \intersect T) \in Nat
  BY <1>1, FS_CardinalityType
<1>3. Cardinality(S \union T) = Cardinality(S) + Cardinality(T) - Cardinality(S \intersect T)
  BY FS_Union
<1> QED BY <1>1, <1>2, <1>3

\* A reply is behind by no more calls than have failed: those before it were
\* given replies to as many calls before it, or none.
LEMMA BehindByErrors ==
  ASSUME Counts, CallInv, TransitInv, AnswersInv, Replied
  PROVE  n - Head(back) <= Calls!Errors
<1>0. n \in Nat /\ n \in 0..MaxReqs
  BY Numbers
<1> DEFINE q == Head(back)
           E == {r \in 1..n : Seen[r] = "error"}
           G == {r \in 1..n : outcome[r] = "reply"}
           f == [r \in G |-> answers[r]]
<1>1. n \in Reqs /\ q \in Reqs /\ q <= n /\ \A r \in Reqs : answers[r] < q
  BY Arrival
<1>2. Calls!Errors = Cardinality(E)
  BY Zenon DEF Calls!Errors, Seen, Cardinality, Calls!Cardinality
<1>3. 1..n \subseteq E \union G \union {n}
  <2>1. \A x \in 1..n : x \in Reqs /\ outcome[x] \in Outcome /\ (x # n => outcome[x] # "none")
    BY Numbers, Zenon DEF Counts, AnswersInv
  <2> QED BY <2>1 DEF Outcome, Seen
<1>4. f \in Injection(G, 1..q-1)
  <2>1. \A x \in G : x \in Reqs /\ outcome[x] = "reply"
    BY Numbers
  <2>2. \A x \in G : answers[x] \in Reqs /\ answers[x] < q
    BY <1>1, <2>1, Zenon DEF AnswersInv
  <2>3. \A x \in G : answers[x] \in 1..q-1
    BY <1>1, <2>2, BridgeAssumption DEF Reqs
  <2>4. \A x, y \in G : x < y => answers[x] < answers[y]
    BY <2>1, Zenon DEF AnswersInv
  <2>5. ASSUME NEW x \in G, NEW y \in G, answers[x] = answers[y] PROVE x = y
    <3>1. x \in Int /\ y \in Int /\ answers[x] \in Int
      BY <2>1, <2>2, BridgeAssumption DEF Reqs
    <3>2. ~(x < y) /\ ~(y < x)
      BY <2>4, <2>5, <3>1
    <3> QED BY <3>1, <3>2
  <2> HIDE DEF G
  <2> QED BY <2>3, <2>5 DEF Injection, IsInjective
<1>5. IsFiniteSet(1..n) /\ Cardinality(1..n) = n
  BY ONLY <1>0, FS_Interval
<1>6. /\ IsFiniteSet(E) /\ IsFiniteSet(G) /\ Cardinality(E) \in Nat /\ Cardinality(G) \in Nat
      /\ E \subseteq 1..n
  BY <1>5, FS_Subset, FS_CardinalityType
<1> HIDE DEF E, G, f
<1>7. Cardinality(G) <= q - 1
  <2>1. q \in Nat /\ q >= 1
    BY <1>1, BridgeAssumption DEF Reqs
  <2>2. IsFiniteSet(1..q-1) /\ Cardinality(1..q-1) = q - 1
    BY ONLY <2>1, FS_Interval
  <2> QED BY <1>4, <2>2, FS_Injection
<1>8. n <= Cardinality(E) + Cardinality(G) + 1
  <2>1. IsFiniteSet({n}) /\ Cardinality({n}) = 1
    BY FS_Singleton
  <2>2. /\ IsFiniteSet(E \union G) /\ Cardinality(E \union G) \in Nat
        /\ Cardinality(E \union G) <= Cardinality(E) + Cardinality(G)
    BY <1>6, CardinalityOfUnion
  <2>3. /\ IsFiniteSet(E \union G \union {n}) /\ Cardinality(E \union G \union {n}) \in Nat
        /\ Cardinality(E \union G \union {n}) <= Cardinality(E \union G) + Cardinality({n})
    BY <2>1, <2>2, CardinalityOfUnion
  <2>4. n <= Cardinality(E \union G \union {n})
    <3>1. Cardinality(1..n) <= Cardinality(E \union G \union {n})
      BY ONLY <1>3, <2>3, FS_Subset
    <3> QED BY ONLY <1>5, <3>1
  <2> QED BY ONLY <1>0, <1>6, <2>1, <2>2, <2>3, <2>4
<1>9. q \in Nat
  BY <1>1, BridgeAssumption DEF Reqs
<1> QED BY ONLY <1>0, <1>2, <1>6, <1>7, <1>8, <1>9

LEMMA FlagsCorrect == Spec => []Flags
<1>1. Init => Flags
  BY TypeInit, TypeParts
<1> QED BY <1>1, FlagsNext, PTL DEF Spec

\* To the loop the client is RequestReply, for any number of requests: no
\* reply is given twice or out of order, and replies fall behind by no more
\* than the errors reported (bridge_client.rs:106-121, 203).
THEOREM CallsCorrect == Spec => ImplementsCalls
<1>1. Init => Calls!Init
  BY DEF Init, Calls!Init, Calls!Reqs, Reqs
<1>2. Flags' /\ Flags /\ Counts /\ CallInv /\ TransitInv /\ AnswersInv /\ [Next]_vars => [Calls!Next]_(Calls!vars)
  <2> SUFFICES ASSUME Flags, Flags', Counts, CallInv, TransitInv, AnswersInv, [Next]_vars
               PROVE  Calls!Next \/ UNCHANGED <<n, blocked, Seen, answers>>
    BY DEF Calls!vars, Seen
  <2>0. /\ n \in Nat /\ n \in 0..MaxReqs
        /\ outcome \in [Reqs -> Outcome] /\ answers \in [Reqs -> 0..MaxReqs]
    BY Numbers, Zenon DEF Counts
  <2>6. blocked \in BOOLEAN /\ blocked' \in BOOLEAN
    BY Zenon DEF Flags
  <2>1. CASE Untouched
    BY <2>1, Zenon DEF Untouched, Seen
  <2>2. CASE Asked
    <3>1. Seen' = Seen
      BY <2>2 DEF Asked, Seen
    <3> QED BY <2>2, <3>1, Zenon DEF Asked, Calls!Next, Calls!Call
  <2>3. CASE Refused
    <3>1. n' = n + 1 /\ outcome' = [outcome EXCEPT ![n'] = "error"]
      BY <2>3, Zenon DEF Refused
    <3>2. Seen' = [Seen EXCEPT ![n + 1] = "error"]
      BY ONLY <2>0, <3>1 DEF Seen
    <3>3. blocked' = blocked /\ ~blocked /\ n < MaxReqs /\ answers' = answers
      BY <2>3, <2>6, Zenon DEF Refused
    <3>4. Calls!FailAtOnce
      BY <3>1, <3>2, <3>3, Zenon DEF Calls!FailAtOnce, Seen
    <3> QED BY <3>4, Zenon DEF Calls!Next
  <2>4. CASE Failed
    <3>1. PICK how \in {"error", "timeout", "gave up"} : Ended(how)
      BY <2>4, Zenon DEF Failed
    <3>2. outcome' = [outcome EXCEPT ![n] = how]
      BY <3>1, Zenon DEF Ended
    <3>3. Seen' = [Seen EXCEPT ![n] = "error"]
      BY ONLY <2>0, <3>2 DEF Seen
    <3>4. answers' = answers
      <4>1. n \in Reqs /\ outcome[n] = "none"
        BY <3>1, Zenon DEF Ended, CallInv
      <4>2. answers[n] = 0
        BY <4>1, Zenon DEF AnswersInv
      <4>3. answers' \in {answers, [answers EXCEPT ![n] = 0]}
        BY <2>4, Zenon DEF Failed
      <4> QED BY ONLY <2>0, <4>2, <4>3
    <3>5. blocked /\ blocked' = FALSE /\ n' = n
      BY <2>6, <3>1, Zenon DEF Ended
    <3>6. Calls!Fail
      BY <3>3, <3>4, <3>5, Zenon DEF Calls!Fail, Seen
    <3> QED BY <3>6, Zenon DEF Calls!Next
  <2>5. CASE Replied
    <3>1. /\ outcome' = [outcome EXCEPT ![n] = "reply"]
          /\ answers' = [answers EXCEPT ![n] = Head(back)]
      BY <2>5, Zenon DEF Replied, Ended
    <3>2. Seen' = [Seen EXCEPT ![n] = "reply"]
      BY ONLY <2>0, <3>1 DEF Seen
    <3>3. blocked /\ blocked' = FALSE /\ n' = n
      BY <2>5, <2>6, Zenon DEF Replied, Ended
    <3>4. PICK q : q = Head(back)
      OBVIOUS
    <3>5. /\ q <= n /\ n - q <= Calls!Errors /\ q \in Calls!Reqs
          /\ \A r \in Calls!Reqs : answers[r] < q
      BY <2>5, <3>4, Arrival, BehindByErrors, Zenon DEF Calls!Reqs, Reqs
    <3>6. Calls!Reply(q)
      BY <3>1, <3>2, <3>3, <3>4, <3>5, Zenon DEF Calls!Reply, Seen
    <3> QED BY <3>5, <3>6, Zenon DEF Calls!Next
  <2> QED BY <2>1, <2>2, <2>3, <2>4, <2>5, CallSteps
<1> QED BY <1>1, <1>2, CountsCorrect, CallCorrect, TransitCorrect, AnswersCorrect, FlagsCorrect,
           PTL DEF Spec, ImplementsCalls, Calls!Spec
=============================================================================
