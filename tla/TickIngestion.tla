---------------------------- MODULE TickIngestion ----------------------------
(***************************************************************************)
(* The way of a tick: the broker quotes, the streamer of                   *)
(* trading_service.py polls and publishes, PUB, SUB and a channel carry    *)
(* the message, the loop drains it, stamps it and pushes it into the       *)
(* buffer of tick_ingestion.rs that the scanner and the risk filters read. *)
(*                                                                         *)
(* Time is in milliseconds, spreads in hundredths of a pip.  The broker's  *)
(* clock may be ahead of the local one.  What a quote says besides its     *)
(* spread is left out.                                                     *)
(***************************************************************************)
EXTENDS Naturals, Sequences

CONSTANTS
  Symbols,
  Spreads,         \* spreads the broker may quote
  MaxSize,         \* 1000 of AppState::new
  ClockOffsets,    \* how far the broker's clock may be ahead
  MaxQuotes,       \* bound: quotes in one behaviour
  MaxRestarts,     \* bound: restarts of the service in one behaviour
  MaxTime          \* bound: the last instant of a behaviour

ASSUME IngestionAssumption ==
  /\ Spreads \subseteq Nat \ {0}
  /\ MaxSize \in Nat \ {0}
  /\ ClockOffsets \subseteq Nat
  /\ {MaxQuotes, MaxRestarts, MaxTime} \subseteq Nat

VARIABLES
  now,             \* the local clock
  offset,          \* how far the broker's clock is ahead
  market,          \* the broker's last quote of each symbol
  quotes,          \* quotes so far
  last_tick_time,  \* the streamer's, by symbol
  restarts,        \* history: how often the service was started again
  feed,            \* messages published and not yet drained, in order
  lost,            \* history: time of the newest tick lost, by symbol
  ticks, avg_spread, spread_samples,  \* TickBuffer, by symbol
  received         \* history: all ticks drained, by symbol

streamVars == <<last_tick_time, restarts, feed, lost>>
bufferVars == <<ticks, avg_spread, spread_samples, received>>
vars == <<now, offset, market, quotes, streamVars, bufferVars>>

Quote   == [timestamp_ms : Nat, spread : Nat]
\* polled_at is a history: the message does not say when it was sent.
Message == [symbol : Symbols, timestamp_ms : Nat, spread : Nat, polled_at : Nat]
Tick    == [timestamp_ms : Nat, spread : Nat, polled_at : Nat, received_at_ms : Nat]

NoQuote == [timestamp_ms |-> 0, spread |-> 0]

TypeOK ==
  /\ now \in Nat /\ offset \in ClockOffsets
  /\ market \in [Symbols -> Quote] /\ quotes \in Nat
  /\ last_tick_time \in [Symbols -> Nat] /\ restarts \in Nat
  /\ feed \in Seq(Message) /\ lost \in [Symbols -> Nat]
  /\ ticks \in [Symbols -> Seq(Tick)]
  /\ \A s \in Symbols : Len(ticks[s]) <= MaxSize
  /\ avg_spread \in [Symbols -> Nat] /\ spread_samples \in [Symbols -> Nat]
  /\ received \in [Symbols -> Seq(Tick)]

Init ==
  /\ now = 1 /\ offset \in ClockOffsets
  /\ market = [s \in Symbols |-> NoQuote] /\ quotes = 0
  /\ last_tick_time = [s \in Symbols |-> 0] /\ restarts = 0
  /\ feed = <<>> /\ lost = [s \in Symbols |-> 0]
  /\ ticks = [s \in Symbols |-> <<>>]
  /\ avg_spread = [s \in Symbols |-> 0] /\ spread_samples = [s \in Symbols |-> 0]
  /\ received = [s \in Symbols |-> <<>>]

-----------------------------------------------------------------------------
(***************************************************************************)
(* The broker quotes, perhaps twice within a millisecond.                  *)
(***************************************************************************)
NewQuote(s) ==
  /\ quotes < MaxQuotes
  /\ quotes' = quotes + 1
  /\ \E spread \in Spreads :
       market' = [market EXCEPT ![s] = [timestamp_ms |-> now + offset, spread |-> spread]]
  /\ UNCHANGED <<now, offset, streamVars, bufferVars>>

ClockAdvances ==
  /\ now < MaxTime
  /\ now' = now + 1
  /\ UNCHANGED <<offset, market, quotes, streamVars, bufferVars>>

-----------------------------------------------------------------------------
(***************************************************************************)
(* _tick_streamer_loop, at one symbol.  PUB drops what it cannot deliver,  *)
(* and a send that fails is logged: either way the tick counts as sent.    *)
(***************************************************************************)
\* Mutants: every poll publishes; a quote of the next millisecond is no news.
IsNewAlways(s) == market[s].timestamp_ms > 0
IsNewLater(s)  == market[s].timestamp_ms > last_tick_time[s] + 1

IsNew(s) == market[s].timestamp_ms > last_tick_time[s]

Poll(s) ==
  /\ IsNew(s)
  /\ last_tick_time' = [last_tick_time EXCEPT ![s] = market[s].timestamp_ms]
  /\ \/ /\ feed' = Append(feed, [symbol |-> s, spread |-> market[s].spread,
                                 timestamp_ms |-> market[s].timestamp_ms,
                                 polled_at |-> now])
        /\ UNCHANGED lost
     \/ /\ lost' = [lost EXCEPT ![s] = market[s].timestamp_ms]
        /\ UNCHANGED feed
  /\ UNCHANGED <<now, offset, market, quotes, restarts, bufferVars>>

\* The times of the ticks lost, once the feed has lost all after the k-th.
LostTimes(s, k) ==
  {lost[s]} \union {feed[i].timestamp_ms : i \in {j \in k+1..Len(feed) : feed[j].symbol = s}}

\* The service is started again: what it had not sent yet is lost, and its
\* first polls publish ticks that were published before.
Restart ==
  /\ restarts < MaxRestarts
  /\ restarts' = restarts + 1
  /\ last_tick_time' = [s \in Symbols |-> 0]
  /\ \E k \in 0..Len(feed) :
       /\ feed' = SubSeq(feed, 1, k)
       /\ lost' \in [Symbols -> UNION {LostTimes(s, k) : s \in Symbols}]
       /\ \A s \in Symbols : /\ lost'[s] \in LostTimes(s, k)
                            /\ \A time \in LostTimes(s, k) : time <= lost'[s]
  /\ UNCHANGED <<now, offset, market, quotes, bufferVars>>

-----------------------------------------------------------------------------
(***************************************************************************)
(* main.rs drains the messages one by one; process_tick only warns of a    *)
(* latency, and TickBuffer::push keeps the last MaxSize ticks and the      *)
(* average of all spreads, each new one weighed with a hundredth.          *)
(***************************************************************************)
\* Mutant: the tick keeps the time it was sent at.
StampedBySender(m) == m.polled_at

ReceivedAt(m) == now

\* Mutants: the average starts from nothing; the weights are swapped.
AverageFromZero(s, spread) == (spread + 99 * avg_spread[s]) \div 100
AverageOfLast(s, spread) ==
  IF spread_samples[s] = 0 THEN spread ELSE (99 * spread + avg_spread[s]) \div 100

AverageWith(s, spread) ==
  IF spread_samples[s] = 0 THEN spread ELSE (spread + 99 * avg_spread[s]) \div 100

\* Mutant: a full buffer takes no tick.
PushedIfRoom(buf, tick) ==
  IF Len(buf) >= MaxSize THEN buf ELSE Append(buf, tick)

Pushed(buf, tick) ==
  Append(IF Len(buf) >= MaxSize THEN Tail(buf) ELSE buf, tick)

Push(s, tick) ==
  /\ avg_spread' = [avg_spread EXCEPT ![s] = AverageWith(s, tick.spread)]
  /\ spread_samples' = [spread_samples EXCEPT ![s] = @ + 1]
  /\ ticks' = [ticks EXCEPT ![s] = Pushed(@, tick)]
  /\ received' = [received EXCEPT ![s] = Append(@, tick)]

DrainTick ==
  /\ feed # <<>>
  /\ feed' = Tail(feed)
  /\ LET m == Head(feed) IN
     Push(m.symbol, [timestamp_ms |-> m.timestamp_ms, spread |-> m.spread,
                     polled_at |-> m.polled_at, received_at_ms |-> ReceivedAt(m)])
  /\ UNCHANGED <<now, offset, market, quotes, last_tick_time, restarts, lost>>

-----------------------------------------------------------------------------
(***************************************************************************)
(* What is read off the buffer.                                            *)
(***************************************************************************)
Newest(buf) == buf[Len(buf)]

latency_ms(t) ==
  IF t.received_at_ms >= t.timestamp_ms THEN t.received_at_ms - t.timestamp_ms ELSE 0

\* By more than num / den times.
is_spread_abnormal(s, num, den) ==
  ticks[s] # <<>> /\ Newest(ticks[s]).spread * den > avg_spread[s] * num

-----------------------------------------------------------------------------
Next == \/ \E s \in Symbols : NewQuote(s) \/ Poll(s)
        \/ ClockAdvances \/ Restart \/ DrainTick

\* The streamer and the loop keep running.
Fairness == (\A s \in Symbols : WF_vars(Poll(s))) /\ WF_vars(DrainTick)

Spec == Init /\ [][Next]_vars
FairSpec == Spec /\ Fairness

-----------------------------------------------------------------------------
(***************************************************************************)
(* The ticks of a symbol arrive in the order of their time, and none twice *)
(* unless the service was started again.                                   *)
(***************************************************************************)
TimesAscend ==
  \A s \in Symbols : \A i, j \in 1..Len(received[s]) : i < j =>
    /\ received[s][i].timestamp_ms <= received[s][j].timestamp_ms
    /\ restarts = 0 => received[s][i].timestamp_ms # received[s][j].timestamp_ms

(***************************************************************************)
(* The average lies between spreads that were seen, from the first one on. *)
(***************************************************************************)
AverageWithinSeen ==
  \A s \in Symbols : received[s] # <<>> =>
    \E i, j \in 1..Len(received[s]) :
      /\ received[s][i].spread <= avg_spread[s]
      /\ avg_spread[s] <= received[s][j].spread

(***************************************************************************)
(* A spread of more than twice all before it is abnormal at the default    *)
(* multiplier of 1.5, though it is part of the average it is compared to.  *)
(***************************************************************************)
SpikeIsAbnormal ==
  \A s \in Symbols : LET n == Len(received[s]) IN
    n > 1 /\ (\A i \in 1..n-1 : received[s][n].spread > 2 * received[s][i].spread)
      => is_spread_abnormal(s, 3, 2)

(***************************************************************************)
(* The latency the filter reads of a tick that arrives is no less than the *)
(* time it spent on its way and in the loop's channel, but for what the    *)
(* broker's clock is ahead.                                                *)
(***************************************************************************)
Arrives(s) == received'[s] # received[s]

LatencyShowsDelay ==
  [][\A s \in Symbols : Arrives(s) =>
       LET t == Newest(ticks'[s]) IN latency_ms(t) + offset >= now - t.polled_at]_vars

(***************************************************************************)
(* Unless a message was lost, the newest tick in the buffer is the one the *)
(* streamer sent last, as soon as the channel is drained.                  *)
(***************************************************************************)
UnderWay(s) == \E i \in 1..Len(feed) : feed[i].symbol = s

StaleOnlyByLoss ==
  \A s \in Symbols :
    last_tick_time[s] > lost[s] /\ ~UnderWay(s) =>
      ticks[s] # <<>> /\ Newest(ticks[s]).timestamp_ms = last_tick_time[s]

(***************************************************************************)
(* No millisecond goes by unnoticed: once the broker has quoted a symbol   *)
(* at some time, a quote of that time or a later one arrives, or a message *)
(* as new is lost.  Which quote of that millisecond it is, this does not   *)
(* say: the streamer sends the first it polls and no other, as it tells    *)
(* quotes apart by their time (trading_service.py:258).                    *)
(***************************************************************************)
Arrived(s, t) == \/ lost[s] >= t
                 \/ ticks[s] # <<>> /\ Newest(ticks[s]).timestamp_ms >= t

QuotedTimesArrive ==
  \A s \in Symbols, t \in 1..MaxTime :
    market[s].timestamp_ms >= t + offset ~> Arrived(s, t + offset)
=============================================================================
