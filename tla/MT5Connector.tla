----------------------------- MODULE MT5Connector -----------------------------
(***************************************************************************)
(* The jobs of trading_service.py and the calls of mt5_connector.py they   *)
(* make.  A pool of threads takes jobs from a queue; an order of more than *)
(* one lot is split into chunks, each a deal of its own, so that the deals *)
(* of several jobs interleave; then the result is pushed over a socket the *)
(* threads share.  The broker and the symbol it trades are external.       *)
(*                                                                         *)
(* Volumes are in hundredths of a lot.  A ticket is named for the request  *)
(* and the deal that opened its position; the volume of a position is 0    *)
(* once it is closed.                                                      *)
(***************************************************************************)
EXTENDS Integers, Sequences, FiniteSets

CONSTANTS
  Workers,      \* threads of the executor
  MaxJobs,      \* bound: jobs submitted in one behaviour
  MaxLarge,     \* bound: orders of more than Iceberg among them
  Volumes,      \* volumes the engine may ask for
  SymbolInfos,  \* [step, min]: volume_step and volume_min of the symbol
  CloseTypes,   \* the type a close is asked for with: the position's, or the other
  IdleWorker, NoAnswer

Side == {"buy", "sell"}
Inverse(side) == IF side = "buy" THEN "sell" ELSE "buy"

Iceberg  == 100   \* 1.0 lot
CHUNKS   == 5

Reqs     == 1..MaxJobs
Tickets  == Reqs \X (1..CHUNKS)
NoTicket == <<0, 0>>

VARIABLES
  info,        \* what symbol_info says, or its defaults
  jobs,        \* jobs submitted, by request; a job is known by its place
  begun,       \* how many of them a thread has taken
  worker,      \* what each thread is at
  positions,   \* the broker's positions, by ticket
  opened,      \* history: volume the deals of a request opened
  closed,      \* history: volume they closed
  missed,      \* history: requests with a deal that was not done in full
  answer,      \* the result of a request, once a thread has one
  delivered,   \* requests whose result went out
  serving      \* "open", then stop(): sockets "closed", session "ended"

history == <<opened, closed, missed>>
vars == <<info, jobs, begun, worker, positions, history, answer, delivered, serving>>

Job    == [op : {"execute_order", "close_position"}, type : Side, volume : Nat,
           ticket : Tickets \union {NoTicket},
           order : Nat]   \* history: the order a close is for
\* "raised" is an error to the engine: an exception ended the job.
Answer == [status : {"ok", "error", "raised"}, ticket : Tickets \union {NoTicket},
           volume : Nat]
\* A thread between two calls, and the deals of its job that were done.
Task   == [at : {"lookup", "deal", "push"}, req : Reqs, chunk : 0..CHUNKS,
           filled : Nat, ticket : Tickets \union {NoTicket}]
Position == [side : Side, volume : Nat]

ASSUME ConnectorAssumption ==
  /\ MaxJobs \in Nat /\ MaxLarge \in Nat
  /\ Volumes \subseteq Nat \ {0}
  /\ SymbolInfos \subseteq [step : Nat \ {0}, min : Nat \ {0}]
  /\ CloseTypes \subseteq {"same", "other"}
  /\ NoAnswer \notin Answer /\ IdleWorker \notin Task

TypeOK ==
  /\ info \in SymbolInfos
  /\ jobs \in Seq(Job) /\ Len(jobs) <= MaxJobs /\ begun \in 0..Len(jobs)
  /\ worker \in [Workers -> Task \union {IdleWorker}]
  /\ DOMAIN positions \subseteq Tickets
  /\ \A t \in DOMAIN positions : positions[t] \in Position
  /\ opened \in [Reqs -> Nat] /\ closed \in [Reqs -> Nat]
  /\ missed \subseteq Reqs /\ delivered \subseteq Reqs
  /\ answer \in [Reqs -> Answer \union {NoAnswer}]
  /\ serving \in {"open", "closed", "ended"}

Init ==
  /\ info \in SymbolInfos
  /\ jobs = <<>> /\ begun = 0
  /\ worker = [w \in Workers |-> IdleWorker]
  /\ positions = [t \in {} |-> 0]
  /\ opened = [r \in Reqs |-> 0] /\ closed = [r \in Reqs |-> 0] /\ missed = {}
  /\ answer = [r \in Reqs |-> NoAnswer] /\ delivered = {}
  /\ serving = "open"

-----------------------------------------------------------------------------
(***************************************************************************)
(* Volumes.  round goes to the nearest multiple, and to the even one of    *)
(* two that are as near.                                                   *)
(***************************************************************************)
AtLeast(x, min) == IF x < min THEN min ELSE x

\* x / d, rounded.
Rounded(x, d) ==
  LET q == x \div d
      m == x % d
  IN  IF 2 * m > d \/ (2 * m = d /\ q % 2 = 1) THEN q + 1 ELSE q

Normalized(volume) == AtLeast(Rounded(volume, info.step) * info.step, info.min)

\* Mutant: the chunk is cut off instead of rounded.
ChunkCutOff(total) ==
  AtLeast((total \div (CHUNKS * info.step)) * info.step, info.min)

Chunk(total) ==
  AtLeast(Rounded(total, CHUNKS * info.step) * info.step, info.min)

\* Mutant: every chunk has the same size.
SameVolume(total, filled) == IF total > Iceberg THEN Chunk(total) ELSE total

ThisVolume(total, filled) ==
  IF total > Iceberg
  THEN LET rest == IF total - filled < Chunk(total) THEN total - filled ELSE Chunk(total)
       IN  AtLeast(Rounded(rest, info.step) * info.step, info.min)
  ELSE total

-----------------------------------------------------------------------------
(***************************************************************************)
(* The REP thread submits what the engine asks for: an order, or one close *)
(* for each order that was reported filled, with the volume that was asked *)
(* for and the ticket that was reported, which the request may lack.       *)
(***************************************************************************)
Submit(job) == /\ Len(jobs) < MaxJobs /\ serving = "open"
               /\ jobs' = Append(jobs, job)
               /\ UNCHANGED <<info, begun, worker, positions, history, answer, delivered,
                              serving>>

LargeOrders == {o \in 1..Len(jobs) : /\ jobs[o].op = "execute_order"
                                     /\ jobs[o].volume > Iceberg}

SubmitOrder ==
  \E volume \in Volumes, type \in Side :
    /\ volume > Iceberg => Cardinality(LargeOrders) < MaxLarge   \* bound
    /\ Submit([op |-> "execute_order", type |-> type, volume |-> volume,
               ticket |-> NoTicket, order |-> 0])

SubmitClose ==
  \E o \in delivered :
    /\ jobs[o].op = "execute_order" /\ answer[o].status = "ok"
    /\ \A c \in 1..Len(jobs) : jobs[c].order # o
    /\ \E ticket \in {answer[o].ticket, NoTicket}, t \in CloseTypes :
         Submit([op |-> "close_position", volume |-> jobs[o].volume, ticket |-> ticket,
                 order |-> o,
                 type |-> IF t = "same" THEN jobs[o].type ELSE Inverse(jobs[o].type)])

-----------------------------------------------------------------------------
(***************************************************************************)
(* A thread of the pool.                                                   *)
(***************************************************************************)
At(w, place) == worker[w] # IdleWorker /\ worker[w].at = place
Request(w)   == jobs[worker[w].req]

Goto(w, task) == worker' = [worker EXCEPT ![w] = task]

Conclude(w, status, ticket, volume) ==
  /\ Goto(w, [worker[w] EXCEPT !.at = "push"])
  /\ answer' = [answer EXCEPT ![worker[w].req] =
       [status |-> status, ticket |-> ticket, volume |-> volume]]

\* A close without a ticket looks one up first.
Begin(w) ==
  /\ worker[w] = IdleWorker /\ begun < Len(jobs)
  /\ begun' = begun + 1
  /\ Goto(w, [at |-> IF /\ jobs[begun'].op = "close_position"
                        /\ jobs[begun'].ticket = NoTicket THEN "lookup" ELSE "deal",
              req |-> begun', chunk |-> 0, filled |-> 0,
              ticket |-> jobs[begun'].ticket])
  /\ UNCHANGED <<info, jobs, positions, history, answer, delivered, serving>>

Open == {t \in DOMAIN positions : positions[t].volume > 0}

\* positions_get(symbol), which may fail, and the first one of what it returns.
FindTicket(w) ==
  /\ At(w, "lookup")
  /\ \/ /\ serving # "ended"
        /\ \E t \in Open : Goto(w, [worker[w] EXCEPT !.at = "deal", !.ticket = t])
        /\ UNCHANGED answer
     \/ Conclude(w, "error", NoTicket, 0)
  /\ UNCHANGED <<info, jobs, begun, positions, history, delivered, serving>>

(***************************************************************************)
(* One deal of an order.  It is done in full, refused, or done in part,    *)
(* which is not TRADE_RETCODE_DONE and counts as a failure though it opens *)
(* a position.  A failure ends the order; an exception does so too, and    *)
(* what it says of the deals done before is lost.                          *)
(***************************************************************************)
DealOutcomes == IF serving = "ended" THEN {"refused"} ELSE {"done", "part", "refused"}
Part(volume) == volume \div 2
Dealt(outcome, volume) ==
  CASE outcome = "done" -> volume [] outcome = "part" -> Part(volume) [] OTHER -> 0

\* Mutant: an order with a failed chunk counts as failed.
AllOrNothing(task, outcome) ==
  IF outcome = "done" /\ task.filled > 0
  THEN [status |-> "ok", ticket |-> task.ticket, volume |-> task.filled]
  ELSE [status |-> "error", ticket |-> NoTicket, volume |-> 0]

\* An error, or the first ticket, which stands for all chunks.
OrderAnswer(task, outcome) ==
  IF task.filled > 0 /\ outcome # "raised"
  THEN [status |-> "ok", ticket |-> task.ticket, volume |-> task.filled]
  ELSE [status |-> IF outcome = "raised" THEN "raised" ELSE "error",
        ticket |-> NoTicket, volume |-> 0]

MoreChunks(task, outcome, total) ==
  outcome = "done" /\ total > Iceberg /\ task.chunk < CHUNKS /\ task.filled < total

OpenPosition(ticket, side, volume) ==
  positions' = IF volume = 0 THEN positions
               ELSE [t \in DOMAIN positions \union {ticket} |->
                       IF t = ticket THEN [side |-> side, volume |-> volume]
                                     ELSE positions[t]]

OrderDeal(w) ==
  /\ At(w, "deal") /\ Request(w).op = "execute_order"
  /\ \E outcome \in DealOutcomes \union {"raised"} :
       LET r      == worker[w].req
           total  == Normalized(Request(w).volume)
           volume == ThisVolume(total, worker[w].filled)
           dealt  == Dealt(outcome, volume)
           ticket == <<r, worker[w].chunk + 1>>
           after  == IF outcome = "done"
                     THEN [worker[w] EXCEPT
                             !.chunk = @ + 1, !.filled = @ + dealt,
                             !.ticket = IF @ = NoTicket THEN ticket ELSE @]
                     ELSE worker[w]
           more   == MoreChunks(after, outcome, total)
       IN  /\ OpenPosition(ticket, Request(w).type, dealt)
           /\ opened' = [opened EXCEPT ![r] = @ + dealt]
           /\ missed' = IF outcome = "done" THEN missed ELSE missed \union {r}
           /\ Goto(w, IF more THEN after ELSE [after EXCEPT !.at = "push"])
           /\ answer' = IF more THEN answer
                        ELSE [answer EXCEPT ![r] = OrderAnswer(after, outcome)]
  /\ UNCHANGED <<info, jobs, begun, closed, delivered, serving>>

(***************************************************************************)
(* The deal that closes position t.  The broker takes no more than the     *)
(* position has, in whole steps; to a deal on the position's own side it   *)
(* says no, or opens another position.                                     *)
(***************************************************************************)
\* Mutant: what was closed in part counts as closed.
ClosedAtAll(outcome) == outcome # "refused"

ClosedInFull(outcome) == outcome = "done"

Closable(t, volume) == /\ volume <= positions[t].volume
                       /\ volume >= info.min /\ volume % info.step = 0

\* Mutant: the deal has the side the close was asked for with.
DealSideAsked(type) == type

DealSide(type) == Inverse(type)

CloseDeal(w) ==
  /\ At(w, "deal") /\ Request(w).op = "close_position"
  /\ LET r    == worker[w].req
         t    == worker[w].ticket
         asked == Request(w).volume
         side == DealSide(Request(w).type)
         closing == side # positions[t].side
     IN \E outcome \in DealOutcomes :
          LET dealt == Dealt(outcome, asked) IN
          /\ outcome # "refused" => IF closing THEN Closable(t, asked)
                                              ELSE t \in Open /\ outcome = "done"
          /\ IF closing
             THEN /\ positions' = [positions EXCEPT ![t].volume = @ - dealt]
                  /\ closed' = [closed EXCEPT ![r] = @ + dealt]
                  /\ UNCHANGED opened
             ELSE /\ OpenPosition(<<r, 1>>, side, dealt)
                  /\ opened' = [opened EXCEPT ![r] = @ + dealt]
                  /\ UNCHANGED closed
          /\ Conclude(w, IF ClosedInFull(outcome) THEN "ok" ELSE "error", t, 0)
  /\ UNCHANGED <<info, jobs, begun, missed, delivered, serving>>

(***************************************************************************)
(* _push_result.  The threads share a socket that is not made for it, and  *)
(* a push that fails is logged: the result may be lost, and is if the      *)
(* socket is closed.                                                       *)
(***************************************************************************)
PushResult(w) ==
  /\ At(w, "push")
  /\ \/ serving = "open" /\ delivered' = delivered \union {worker[w].req}
     \/ UNCHANGED delivered
  /\ Goto(w, IdleWorker)
  /\ UNCHANGED <<info, jobs, begun, positions, history, answer, serving>>

\* stop() closes the sockets, then ends the session; the pool's threads go on.
Stop ==
  /\ serving # "ended"
  /\ serving' = IF serving = "open" THEN "closed" ELSE "ended"
  /\ UNCHANGED <<info, jobs, begun, worker, positions, history, answer, delivered>>

-----------------------------------------------------------------------------
WorkerStep(w) == \/ Begin(w) \/ FindTicket(w) \/ OrderDeal(w) \/ CloseDeal(w)
                 \/ PushResult(w)

Next == \/ SubmitOrder \/ SubmitClose \/ Stop
        \/ \E w \in Workers : WorkerStep(w)

Spec == Init /\ [][Next]_vars

-----------------------------------------------------------------------------
Answered(r, op) == answer[r] # NoAnswer /\ jobs[r].op = op

(***************************************************************************)
(* The result of an order accounts for all that its deals opened, but for  *)
(* what a last deal did in part: an order that is reported refused has     *)
(* less than one deal open, an order reported filled less than one deal    *)
(* more than it reports (trading_service.py:181, mt5_connector.py:283).    *)
(* The exception is an exception (trading_service.py:193), after which the *)
(* chunks that were done are open and the engine is told of none.          *)
(***************************************************************************)
AnswerCoversDeals ==
  \A r \in Reqs : Answered(r, "execute_order") =>
    /\ answer[r].volume <= opened[r]
    /\ answer[r].status # "raised" =>
         opened[r] - answer[r].volume < ThisVolume(Normalized(jobs[r].volume), 0)

(***************************************************************************)
(* At no time has an order opened more than was asked for, as the symbol's *)
(* step and minimum have it, by as much as one minimal deal; and an order  *)
(* all of whose deals were done is short by two steps at the most, from    *)
(* the rounding of five equal chunks.                                      *)
(***************************************************************************)
NeverMoreThanAsked ==
  \A r \in 1..Len(jobs) : jobs[r].op = "execute_order" =>
    opened[r] < Normalized(jobs[r].volume) + info.min

NotMuchLessThanAsked ==
  \A r \in Reqs : Answered(r, "execute_order") /\ r \notin missed =>
    opened[r] >= Normalized(jobs[r].volume) - 2 * info.step

(***************************************************************************)
(* A close that names a ticket closes or opens, never both, whatever other *)
(* threads do meanwhile: asked for with the type of the position it opens  *)
(* nothing, asked for with the other, as trade_manager.rs:228 does, it     *)
(* closes nothing; and it is confirmed exactly if all of it was done.      *)
(***************************************************************************)
ClosesByTicket(r) == Answered(r, "close_position") /\ jobs[r].ticket # NoTicket
AskedRight(r)     == jobs[r].type = positions[jobs[r].ticket].side

CloseTypeDecides ==
  \A r \in Reqs : ClosesByTicket(r) =>
    /\ IF AskedRight(r) THEN opened[r] = 0 ELSE closed[r] = 0
    /\ answer[r].status = "ok" <=> opened[r] + closed[r] = jobs[r].volume

(***************************************************************************)
(* A confirmed close by ticket and with the position's type leaves nothing *)
(* of the position it names, though the order's volume was normalized and  *)
(* the close's is not, and though another close may have found the same    *)
(* position by its symbol.                                                 *)
(***************************************************************************)
ConfirmedCloseIsComplete ==
  \A r \in Reqs : ClosesByTicket(r) /\ AskedRight(r) /\ answer[r].status = "ok" =>
    positions[jobs[r].ticket].volume = 0

(***************************************************************************)
(* mt5_connector.py:138, "Determine opposite order type": the deal that    *)
(* closes a position by its ticket is on the other side.  trade_manager.rs *)
(* asks for the close with the other side already, and it is turned back.  *)
(***************************************************************************)
CloseDealOpposes ==
  \A w \in Workers :
    At(w, "deal") /\ Request(w).op = "close_position" /\ Request(w).ticket # NoTicket =>
      DealSide(Request(w).type) # positions[worker[w].ticket].side
=============================================================================
