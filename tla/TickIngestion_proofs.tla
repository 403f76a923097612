------------------------- MODULE TickIngestion_proofs -------------------------
(***************************************************************************)
(* Proofs about TickIngestion: for any symbols, spreads, clocks, size of   *)
(* the buffer, losses and restarts.                                        *)
(***************************************************************************)
EXTENDS TickIngestion, TLAPS

-----------------------------------------------------------------------------
(***************************************************************************)
(* Type correctness (the buffer never exceeds MaxSize).                    *)
(***************************************************************************)
LEMMA PushedBounded ==
  ASSUME NEW buf \in Seq(Tick), NEW tick \in Tick, Len(buf) <= MaxSize
  PROVE  Pushed(buf, tick) \in Seq(Tick) /\ Len(Pushed(buf, tick)) <= MaxSize
<1>1. MaxSize \in Nat /\ MaxSize > 0
  BY IngestionAssumption
<1>2. CASE Len(buf) >= MaxSize
  <2>1. Tail(buf) \in Seq(Tick) /\ Len(Tail(buf)) = Len(buf) - 1
    BY <1>1, <1>2
  <2> QED BY <2>1, <1>1, <1>2 DEF Pushed
<1>3. CASE Len(buf) < MaxSize
  BY <1>1, <1>3 DEF Pushed
<1> QED BY <1>1, <1>2, <1>3

LEMMA AverageIsNat ==
  ASSUME TypeOK, NEW s \in Symbols, NEW spread \in Nat
  PROVE  AverageWith(s, spread) \in Nat
<1>1. avg_spread[s] \in Nat
  BY DEF TypeOK
<1>2. (spread + 99 * avg_spread[s]) \div 100 \in Nat
  BY <1>1
<1> QED BY <1>2 DEF AverageWith

LEMMA HeadIsMessage ==
  ASSUME TypeOK, feed # <<>>
  PROVE  /\ Head(feed) \in Message /\ Head(feed) = feed[1] /\ 1 \in 1..Len(feed)
         /\ Tail(feed) \in Seq(Message) /\ Len(Tail(feed)) = Len(feed) - 1
         /\ \A i \in 1..Len(Tail(feed)) : i + 1 \in 1..Len(feed) /\ Tail(feed)[i] = feed[i + 1]
BY DEF TypeOK

\* The tick that DrainTick makes of the message at the head.
Stamped == [timestamp_ms |-> Head(feed).timestamp_ms, spread |-> Head(feed).spread,
            polled_at |-> Head(feed).polled_at, received_at_ms |-> now]

LEMMA DrainPushes ==
  ASSUME TypeOK, DrainTick
  PROVE  /\ feed # <<>> /\ feed' = Tail(feed)
         /\ Stamped \in Tick /\ Head(feed).symbol \in Symbols
         /\ Push(Head(feed).symbol, Stamped)
         /\ UNCHANGED <<now, offset, market, quotes, last_tick_time, restarts, lost>>
BY HeadIsMessage DEF DrainTick, Stamped, ReceivedAt, Message, Tick, TypeOK

LEMMA FeedTyped ==
  ASSUME TypeOK
  PROVE  /\ \A i \in 1..Len(feed) : /\ feed[i].symbol \in Symbols
                                    /\ feed[i].timestamp_ms \in Nat
                                    /\ feed[i].polled_at \in Nat
         /\ \A s \in Symbols : \A i \in 1..Len(received[s]) :
              /\ received[s][i].timestamp_ms \in Nat
              /\ received[s][i].spread \in Nat
         /\ \A s \in Symbols : /\ market[s].timestamp_ms \in Nat
                               /\ last_tick_time[s] \in Nat
                               /\ Len(received[s]) \in Nat
         /\ Len(feed) \in Nat /\ restarts \in Nat /\ now \in Nat /\ offset \in Nat
<1>1. \A i \in 1..Len(feed) : feed[i] \in Message
  BY DEF TypeOK
<1>2. ASSUME NEW s \in Symbols, NEW i \in 1..Len(received[s])
      PROVE  received[s][i] \in Tick
  <2>1. received[s] \in Seq(Tick)
    BY DEF TypeOK
  <2> QED BY <2>1
<1>3. \A s \in Symbols : market[s] \in Quote /\ last_tick_time[s] \in Nat
                         /\ received[s] \in Seq(Tick)
  BY DEF TypeOK
<1>4. Len(feed) \in Nat /\ restarts \in Nat /\ now \in Nat /\ offset \in Nat
  BY IngestionAssumption DEF TypeOK
<1>5. \A m \in Message : m.symbol \in Symbols /\ m.timestamp_ms \in Nat /\ m.polled_at \in Nat
  BY DEF Message
<1>6. \A u \in Tick : u.timestamp_ms \in Nat /\ u.spread \in Nat
  BY DEF Tick
<1>7. \A q \in Quote : q.timestamp_ms \in Nat
  BY DEF Quote
<1>8. ASSUME NEW s \in Symbols PROVE Len(received[s]) \in Nat
  <2>1. received[s] \in Seq(Tick)
    BY <1>3
  <2> QED BY <2>1
<1>9. \A i \in 1..Len(feed) : /\ feed[i].symbol \in Symbols
                              /\ feed[i].timestamp_ms \in Nat
                              /\ feed[i].polled_at \in Nat
  BY ONLY <1>1, <1>5
<1>10. \A s \in Symbols : \A i \in 1..Len(received[s]) :
         /\ received[s][i].timestamp_ms \in Nat
         /\ received[s][i].spread \in Nat
  BY ONLY <1>2, <1>6
<1>11. \A s \in Symbols : market[s].timestamp_ms \in Nat /\ last_tick_time[s] \in Nat
  BY ONLY <1>3, <1>7
<1> QED BY ONLY <1>4, <1>8, <1>9, <1>10, <1>11

LEMMA TypeInit == Init => TypeOK
BY IngestionAssumption DEF Init, TypeOK, NoQuote, Quote

LEMMA TypeNext == TypeOK /\ [Next]_vars => TypeOK'
<1> SUFFICES ASSUME TypeOK, [Next]_vars PROVE TypeOK'
  OBVIOUS
<1>1. ASSUME NEW s \in Symbols, NewQuote(s) PROVE TypeOK'
  <2>1. PICK spread \in Spreads :
          market' = [market EXCEPT ![s] = [timestamp_ms |-> now + offset, spread |-> spread]]
    BY <1>1 DEF NewQuote
  <2>2. now + offset \in Nat /\ spread \in Nat
    BY IngestionAssumption DEF TypeOK
  <2>3. market' \in [Symbols -> Quote]
    BY <2>1, <2>2 DEF TypeOK, Quote
  <2> QED BY <1>1, <2>3 DEF NewQuote, TypeOK, streamVars, bufferVars
<1>2. ASSUME NEW s \in Symbols, Poll(s) PROVE TypeOK'
  <2>1. market[s].timestamp_ms \in Nat /\ market[s].spread \in Nat
    BY DEF TypeOK, Quote
  <2>2. last_tick_time' \in [Symbols -> Nat]
    BY <1>2, <2>1 DEF Poll, TypeOK
  <2>3. feed' \in Seq(Message)
    <3> DEFINE m == [symbol |-> s, spread |-> market[s].spread,
                     timestamp_ms |-> market[s].timestamp_ms, polled_at |-> now]
    <3>1. m \in Message
      BY <2>1 DEF Message, TypeOK
    <3>2. feed' = Append(feed, m) \/ feed' = feed
      BY <1>2 DEF Poll
    <3>3. feed \in Seq(Message)
      BY DEF TypeOK
    <3> HIDE DEF m
    <3> QED BY ONLY <3>1, <3>2, <3>3
  <2>4. lost' \in [Symbols -> Nat]
    BY <1>2, <2>1 DEF Poll, TypeOK
  <2> QED BY <1>2, <2>2, <2>3, <2>4 DEF Poll, TypeOK, bufferVars
<1>3. CASE ClockAdvances
  BY <1>3 DEF ClockAdvances, TypeOK, streamVars, bufferVars
<1>4. CASE Restart
  <2>1. PICK k \in 0..Len(feed) :
          /\ feed' = SubSeq(feed, 1, k)
          /\ lost' \in [Symbols -> UNION {LostTimes(s, k) : s \in Symbols}]
    BY <1>4 DEF Restart
  <2>2. feed' \in Seq(Message)
    BY <2>1 DEF TypeOK
  <2>3. lost' \in [Symbols -> Nat]
    <3>1. ASSUME NEW s \in Symbols, NEW time \in LostTimes(s, k)
          PROVE  time \in Nat
      <4>1. lost[s] \in Nat
        BY DEF TypeOK
      <4>2. \A i \in k+1..Len(feed) : feed[i].timestamp_ms \in Nat
        BY FeedTyped
      <4> QED BY <3>1, <4>1, <4>2 DEF LostTimes
    <3>2. \A time \in UNION {LostTimes(s, k) : s \in Symbols} : time \in Nat
      BY <3>1
    <3> QED BY <2>1, <3>2
  <2> QED BY <1>4, <2>2, <2>3 DEF Restart, TypeOK, bufferVars
<1>5. CASE DrainTick
  <2> DEFINE s == Head(feed).symbol
  <2>1. s \in Symbols /\ Stamped \in Tick /\ Push(s, Stamped)
    BY <1>5, DrainPushes
  <2>2. ticks[s] \in Seq(Tick) /\ Len(ticks[s]) <= MaxSize /\ Stamped.spread \in Nat
    BY <2>1 DEF TypeOK, Tick
  <2> HIDE DEF s
  <2>3. /\ ticks' \in [Symbols -> Seq(Tick)]
        /\ \A t \in Symbols : Len(ticks'[t]) <= MaxSize
    BY <2>1, <2>2, PushedBounded DEF Push, TypeOK
  <2>4. avg_spread' \in [Symbols -> Nat]
    BY <2>1, <2>2, AverageIsNat DEF Push, TypeOK
  <2>5. spread_samples' \in [Symbols -> Nat] /\ received' \in [Symbols -> Seq(Tick)]
    BY <2>1 DEF Push, TypeOK
  <2>6. feed' \in Seq(Message)
    BY <1>5, DrainPushes, HeadIsMessage
  <2> QED BY <1>5, DrainPushes, <2>3, <2>4, <2>5, <2>6 DEF TypeOK
<1>6. CASE UNCHANGED vars
  BY <1>6 DEF vars, streamVars, bufferVars, TypeOK
<1> QED BY <1>1, <1>2, <1>3, <1>4, <1>5, <1>6 DEF Next

\* The types, and the size of the buffer, in every behaviour of the way of a
\* tick (tick_ingestion.rs:108).
THEOREM TypeCorrect == Spec => []TypeOK
BY TypeInit, TypeNext, PTL DEF Spec

-----------------------------------------------------------------------------
(***************************************************************************)
(* The order of ticks.  A time is known of a symbol if the broker has      *)
(* quoted it and, unless the service was started again, the streamer has   *)
(* sent it.  What is in the feed is known, and comes after what was        *)
(* received.                                                               *)
(***************************************************************************)
Known(s, time) == /\ time <= market[s].timestamp_ms
                  /\ restarts = 0 => time <= last_tick_time[s]

Before(t, u) == t <= u /\ (restarts = 0 => t # u)

QuotesInv == \A s \in Symbols : /\ last_tick_time[s] <= market[s].timestamp_ms
                                /\ market[s].timestamp_ms <= now + offset

FeedKnown == \A i \in 1..Len(feed) : Known(feed[i].symbol, feed[i].timestamp_ms)

FeedAscends == \A i, j \in 1..Len(feed) :
  i < j /\ feed[i].symbol = feed[j].symbol =>
    Before(feed[i].timestamp_ms, feed[j].timestamp_ms)

ReceivedKnown == \A s \in Symbols : \A i \in 1..Len(received[s]) :
  Known(s, received[s][i].timestamp_ms)

ReceivedFirst == \A s \in Symbols : \A i \in 1..Len(received[s]), j \in 1..Len(feed) :
  feed[j].symbol = s => Before(received[s][i].timestamp_ms, feed[j].timestamp_ms)

ReceivedAscend == \A s \in Symbols : \A i, j \in 1..Len(received[s]) :
  i < j => Before(received[s][i].timestamp_ms, received[s][j].timestamp_ms)

OrderInv == QuotesInv /\ FeedKnown /\ FeedAscends
              /\ ReceivedKnown /\ ReceivedFirst /\ ReceivedAscend

\* A time stays known as long as the broker's and the streamer's times grow.
LEMMA KnownStays ==
  ASSUME TypeOK, NEW t \in Symbols, NEW time \in Nat, Known(t, time), restarts' = restarts,
         market'[t].timestamp_ms \in Nat, market[t].timestamp_ms <= market'[t].timestamp_ms,
         last_tick_time'[t] \in Nat, last_tick_time[t] <= last_tick_time'[t]
  PROVE  /\ time <= market'[t].timestamp_ms
         /\ restarts' = 0 => time <= last_tick_time'[t]
<1>1. market[t].timestamp_ms \in Nat /\ last_tick_time[t] \in Nat
  BY FeedTyped
<1>2. time <= market[t].timestamp_ms /\ (restarts = 0 => time <= last_tick_time[t])
  BY DEF Known
<1> QED BY <1>1, <1>2

LEMMA OrderInit == Init => OrderInv
BY IngestionAssumption DEF Init, OrderInv, QuotesInv, FeedKnown, FeedAscends, ReceivedKnown,
   ReceivedFirst, ReceivedAscend, NoQuote

LEMMA OrderQuote ==
  ASSUME TypeOK, OrderInv, NEW s \in Symbols, NewQuote(s)
  PROVE  OrderInv'
<1>1. PICK spread \in Spreads :
        market' = [market EXCEPT ![s] = [timestamp_ms |-> now + offset, spread |-> spread]]
  BY DEF NewQuote
<1>2. /\ \A t \in Symbols : market[t].timestamp_ms <= market'[t].timestamp_ms
      /\ \A t \in Symbols : market'[t].timestamp_ms <= now + offset
      /\ \A t \in Symbols : market'[t].timestamp_ms \in Nat
  <2> SUFFICES ASSUME NEW t \in Symbols
               PROVE  /\ market[t].timestamp_ms <= market'[t].timestamp_ms
                      /\ market'[t].timestamp_ms <= now + offset
                      /\ market'[t].timestamp_ms \in Nat
    OBVIOUS
  <2>1. /\ market[t].timestamp_ms \in Nat /\ now + offset \in Nat
        /\ market[t].timestamp_ms <= now + offset
    BY FeedTyped DEF OrderInv, QuotesInv
  <2>2. CASE t = s
    <3>1. market'[t] = [timestamp_ms |-> now + offset, spread |-> spread]
      BY <1>1, <2>2 DEF TypeOK
    <3> QED BY <2>1, <3>1
  <2>3. CASE t # s
    <3>1. market'[t] = market[t]
      BY <1>1, <2>3 DEF TypeOK
    <3> QED BY <2>1, <3>1
  <2> QED BY <2>2, <2>3
<1>3. UNCHANGED <<now, offset, last_tick_time, restarts, feed, received>>
  BY DEF NewQuote, streamVars, bufferVars
<1>4. QuotesInv'
  BY <1>2, <1>3, FeedTyped DEF OrderInv, QuotesInv
<1>5. ASSUME NEW t \in Symbols, NEW time \in Nat, Known(t, time)
      PROVE  /\ time <= market'[t].timestamp_ms
             /\ restarts' = 0 => time <= last_tick_time'[t]
  BY <1>2, <1>3, <1>5, KnownStays, FeedTyped
<1>6. FeedKnown'
  BY <1>3, <1>5, FeedTyped DEF OrderInv, FeedKnown, Known
<1>7. ReceivedKnown'
  BY <1>3, <1>5, FeedTyped DEF OrderInv, ReceivedKnown, Known
<1>8. FeedAscends' /\ ReceivedFirst' /\ ReceivedAscend'
  BY <1>3 DEF OrderInv, FeedAscends, ReceivedFirst, ReceivedAscend, Before
<1> QED BY <1>4, <1>6, <1>7, <1>8 DEF OrderInv

LEMMA OrderPoll ==
  ASSUME TypeOK, OrderInv, NEW s \in Symbols, Poll(s)
  PROVE  OrderInv'
<1>1. UNCHANGED <<now, offset, market, restarts, received>>
  BY DEF Poll, bufferVars
<1>2. /\ market[s].timestamp_ms > last_tick_time[s]
      /\ last_tick_time' = [last_tick_time EXCEPT ![s] = market[s].timestamp_ms]
  BY DEF Poll, IsNew
<1>3. \A t \in Symbols : /\ last_tick_time[t] <= last_tick_time'[t]
                         /\ last_tick_time'[t] <= market[t].timestamp_ms
                         /\ last_tick_time'[t] \in Nat
  <2> SUFFICES ASSUME NEW t \in Symbols
               PROVE  /\ last_tick_time[t] <= last_tick_time'[t]
                      /\ last_tick_time'[t] <= market[t].timestamp_ms
                      /\ last_tick_time'[t] \in Nat
    OBVIOUS
  <2>1. /\ market[t].timestamp_ms \in Nat /\ last_tick_time[t] \in Nat
        /\ last_tick_time[t] <= market[t].timestamp_ms
    BY FeedTyped DEF OrderInv, QuotesInv
  <2>2. CASE t = s
    <3>1. last_tick_time'[t] = market[t].timestamp_ms
      BY <1>2, <2>2 DEF TypeOK
    <3> QED BY <1>2, <2>1, <2>2, <3>1
  <2>3. CASE t # s
    <3>1. last_tick_time'[t] = last_tick_time[t]
      BY <1>2, <2>3 DEF TypeOK
    <3> QED BY <2>1, <3>1
  <2> QED BY <2>2, <2>3
<1>4. QuotesInv'
  BY <1>1, <1>3 DEF OrderInv, QuotesInv
<1>0. ASSUME NEW t \in Symbols, NEW time \in Nat, Known(t, time)
      PROVE  /\ time <= market'[t].timestamp_ms
             /\ restarts' = 0 => time <= last_tick_time'[t]
  <2>1. market' = market /\ restarts' = restarts /\ market[t].timestamp_ms \in Nat
    BY <1>1, FeedTyped
  <2>2. /\ market'[t].timestamp_ms \in Nat
        /\ market[t].timestamp_ms <= market'[t].timestamp_ms
    BY ONLY <2>1
  <2>3. last_tick_time'[t] \in Nat /\ last_tick_time[t] <= last_tick_time'[t]
    BY <1>3
  <2> QED BY <1>0, <2>1, <2>2, <2>3, KnownStays, Zenon
<1>5. ReceivedKnown'
  BY <1>0, <1>1, FeedTyped DEF OrderInv, ReceivedKnown, Known
<1>6. ReceivedAscend'
  BY <1>1 DEF OrderInv, ReceivedAscend, Before
<1>7. CASE feed' = feed
  <2>1. FeedKnown'
    BY <1>0, <1>1, <1>7, FeedTyped DEF OrderInv, FeedKnown, Known
  <2>2. FeedAscends' /\ ReceivedFirst'
    BY <1>1, <1>7 DEF OrderInv, FeedAscends, ReceivedFirst, Before
  <2> QED BY <1>4, <1>5, <1>6, <2>1, <2>2 DEF OrderInv
<1>8. CASE feed' = Append(feed, [symbol |-> s, spread |-> market[s].spread,
                                 timestamp_ms |-> market[s].timestamp_ms,
                                 polled_at |-> now])
  <2>1. /\ Len(feed') = Len(feed) + 1
        /\ \A i \in 1..Len(feed) : feed'[i] = feed[i]
        /\ feed'[Len(feed) + 1].symbol = s
        /\ feed'[Len(feed) + 1].timestamp_ms = market[s].timestamp_ms
    BY <1>8 DEF TypeOK
  <2>2. FeedKnown'
    <3> SUFFICES ASSUME NEW i \in 1..Len(feed') PROVE Known(feed[i].symbol, feed[i].timestamp_ms)'
      BY DEF FeedKnown
    <3>1. CASE i \in 1..Len(feed)
      BY <1>0, <1>1, <2>1, <3>1, FeedTyped DEF OrderInv, FeedKnown, Known
    <3>2. CASE i = Len(feed) + 1
      <4>1. last_tick_time'[s] = market[s].timestamp_ms
        BY <1>2 DEF TypeOK
      <4> QED BY <1>1, <2>1, <3>2, <4>1, FeedTyped DEF Known
    <3> QED BY <2>1, <3>1, <3>2, FeedTyped
  <2>3. \A time \in Nat : Known(s, time) => Before(time, market[s].timestamp_ms)
    BY <1>2, FeedTyped DEF Known, Before
  <2>4. FeedAscends'
    <3> SUFFICES ASSUME NEW i \in 1..Len(feed'), NEW j \in 1..Len(feed'),
                        i < j, feed'[i].symbol = feed'[j].symbol
                 PROVE  Before(feed[i].timestamp_ms, feed[j].timestamp_ms)'
      BY DEF FeedAscends
    <3>0. i \in 1..Len(feed) /\ feed'[i] = feed[i]
      BY <2>1, FeedTyped
    <3>1. CASE j \in 1..Len(feed)
      BY <1>1, <2>1, <3>0, <3>1 DEF OrderInv, FeedAscends, Before
    <3>2. CASE j = Len(feed) + 1
      <4>1. feed[i].symbol = s /\ Known(s, feed[i].timestamp_ms) /\ feed[i].timestamp_ms \in Nat
        BY <2>1, <3>0, <3>2, FeedTyped DEF OrderInv, FeedKnown
      <4>2. Before(feed[i].timestamp_ms, market[s].timestamp_ms)
        BY <2>3, <4>1
      <4>3. feed'[j].timestamp_ms = market[s].timestamp_ms
        BY <2>1, <3>2
      <4>4. feed'[i].timestamp_ms = feed[i].timestamp_ms
        BY <3>0
      <4>5. restarts' = restarts
        BY <1>1
      <4> QED BY <4>2, <4>3, <4>4, <4>5 DEF Before
    <3>3. j \in 1..Len(feed) \/ j = Len(feed) + 1
      <4>1. Len(feed') = Len(feed) + 1 /\ Len(feed) \in Nat
        BY <2>1, FeedTyped
      <4> QED BY ONLY <4>1, j \in 1..Len(feed')
    <3> QED BY <3>1, <3>2, <3>3
  <2>5. ReceivedFirst'
    <3> SUFFICES ASSUME NEW t \in Symbols, NEW i \in 1..Len(received'[t]),
                        NEW j \in 1..Len(feed'), feed'[j].symbol = t
                 PROVE  Before(received[t][i].timestamp_ms, feed[j].timestamp_ms)'
      BY DEF ReceivedFirst
    <3>0. i \in 1..Len(received[t]) /\ received[t][i].timestamp_ms \in Nat
      BY <1>1, FeedTyped
    <3>1. CASE j \in 1..Len(feed)
      BY <1>1, <2>1, <3>0, <3>1 DEF OrderInv, ReceivedFirst, Before
    <3>2. CASE j = Len(feed) + 1
      <4>1. t = s /\ Known(s, received[s][i].timestamp_ms)
        BY <2>1, <3>0, <3>2 DEF OrderInv, ReceivedKnown
      <4>2. Before(received[s][i].timestamp_ms, market[s].timestamp_ms)
        BY <2>3, <3>0, <4>1
      <4> QED BY <1>1, <2>1, <3>2, <4>1, <4>2 DEF Before
    <3> QED BY <2>1, <3>1, <3>2, FeedTyped
  <2> QED BY <1>4, <1>5, <1>6, <2>2, <2>4, <2>5 DEF OrderInv
<1> QED BY <1>7, <1>8 DEF Poll

LEMMA OrderRestart ==
  ASSUME TypeOK, OrderInv, Restart
  PROVE  OrderInv'
<1>1. PICK k \in 0..Len(feed) : feed' = SubSeq(feed, 1, k)
  BY DEF Restart
<1>2. Len(feed') = k /\ \A i \in 1..k : i \in 1..Len(feed) /\ feed'[i] = feed[i]
  BY <1>1, FeedTyped DEF TypeOK
<1>3. /\ UNCHANGED <<now, offset, market, received>> /\ restarts' # 0
      /\ \A s \in Symbols : last_tick_time'[s] = 0
  BY FeedTyped DEF Restart, bufferVars
<1>4. QuotesInv'
  BY <1>3, FeedTyped DEF OrderInv, QuotesInv
<1>5. FeedKnown' /\ ReceivedKnown'
  BY <1>2, <1>3 DEF OrderInv, FeedKnown, ReceivedKnown, Known
<1>6. FeedAscends' /\ ReceivedAscend'
  BY <1>2, <1>3 DEF OrderInv, FeedAscends, ReceivedAscend, Before
<1>7. ReceivedFirst'
  BY <1>2, <1>3 DEF OrderInv, ReceivedFirst, Before
<1> QED BY <1>4, <1>5, <1>6, <1>7 DEF OrderInv

LEMMA OrderDrain ==
  ASSUME TypeOK, OrderInv, DrainTick
  PROVE  OrderInv'
<1> DEFINE s == Head(feed).symbol
<1>1. /\ UNCHANGED <<now, offset, market, last_tick_time, restarts>>
      /\ s \in Symbols /\ Stamped \in Tick
      /\ received' = [received EXCEPT ![s] = Append(@, Stamped)]
      /\ feed' = Tail(feed) /\ feed # <<>>
  BY DrainPushes DEF Push
<1>2. /\ Len(feed') = Len(feed) - 1 /\ 1 \in 1..Len(feed)
      /\ \A i \in 1..Len(feed') : i + 1 \in 1..Len(feed) /\ feed'[i] = feed[i + 1]
      /\ feed[1].symbol = s /\ Stamped.timestamp_ms = feed[1].timestamp_ms
  BY <1>1, HeadIsMessage DEF Stamped
<1> HIDE DEF s
<1>3. /\ \A t \in Symbols \ {s} : received'[t] = received[t]
      /\ Len(received'[s]) = Len(received[s]) + 1
      /\ \A i \in 1..Len(received[s]) : received'[s][i] = received[s][i]
      /\ received'[s][Len(received[s]) + 1] = Stamped
  BY <1>1 DEF TypeOK
<1>4. QuotesInv'
  BY <1>1 DEF OrderInv, QuotesInv
<1>5. FeedKnown'
  BY <1>1, <1>2 DEF OrderInv, FeedKnown, Known
<1>6. FeedAscends'
  <2> SUFFICES ASSUME NEW i \in 1..Len(feed'), NEW j \in 1..Len(feed'),
                      i < j, feed'[i].symbol = feed'[j].symbol
               PROVE  Before(feed[i].timestamp_ms, feed[j].timestamp_ms)'
    BY DEF FeedAscends
  <2>1. i + 1 < j + 1
    OBVIOUS
  <2> QED BY <1>1, <1>2, <2>1 DEF OrderInv, FeedAscends, Before
<1>7. ReceivedKnown'
  <2> SUFFICES ASSUME NEW t \in Symbols, NEW i \in 1..Len(received'[t])
               PROVE  Known(t, received[t][i].timestamp_ms)'
    BY DEF ReceivedKnown
  <2>1. CASE t = s /\ i = Len(received[s]) + 1
    BY <1>1, <1>2, <1>3, <2>1 DEF OrderInv, FeedKnown, Known
  <2>2. CASE ~(t = s /\ i = Len(received[s]) + 1)
    <3>1. i \in 1..Len(received[t]) /\ received'[t][i] = received[t][i]
      BY <1>1, <1>3, <2>2, FeedTyped
    <3> QED BY <3>1, <1>1 DEF OrderInv, ReceivedKnown, Known
  <2> QED BY <2>1, <2>2
<1>8. ReceivedFirst'
  <2> SUFFICES ASSUME NEW t \in Symbols, NEW i \in 1..Len(received'[t]),
                      NEW j \in 1..Len(feed'), feed'[j].symbol = t
               PROVE  Before(received[t][i].timestamp_ms, feed[j].timestamp_ms)'
    BY DEF ReceivedFirst
  <2>0. j + 1 \in 1..Len(feed) /\ feed'[j] = feed[j + 1] /\ 1 < j + 1
    BY <1>2, FeedTyped
  <2>1. CASE t = s /\ i = Len(received[s]) + 1
    BY <1>1, <1>2, <1>3, <2>0, <2>1 DEF OrderInv, FeedAscends, Before
  <2>2. CASE ~(t = s /\ i = Len(received[s]) + 1)
    <3>1. i \in 1..Len(received[t]) /\ received'[t][i] = received[t][i]
      BY <1>1, <1>3, <2>2, FeedTyped
    <3> QED BY <3>1, <1>1, <2>0 DEF OrderInv, ReceivedFirst, Before
  <2> QED BY <2>1, <2>2
<1>9. ReceivedAscend'
  <2> SUFFICES ASSUME NEW t \in Symbols, NEW i \in 1..Len(received'[t]),
                      NEW j \in 1..Len(received'[t]), i < j
               PROVE  Before(received[t][i].timestamp_ms, received[t][j].timestamp_ms)'
    BY DEF ReceivedAscend
  <2>0. i \in 1..Len(received[t]) /\ received'[t][i] = received[t][i]
    BY <1>1, <1>3, FeedTyped
  <2>1. CASE t = s /\ j = Len(received[s]) + 1
    BY <1>1, <1>2, <1>3, <2>0, <2>1 DEF OrderInv, ReceivedFirst, Before
  <2>2. CASE ~(t = s /\ j = Len(received[s]) + 1)
    <3>1. j \in 1..Len(received[t]) /\ received'[t][j] = received[t][j]
      BY <1>1, <1>3, <2>2, FeedTyped
    <3> QED BY <3>1, <1>1, <2>0 DEF OrderInv, ReceivedAscend, Before
  <2> QED BY <2>1, <2>2
<1> QED BY <1>4, <1>5, <1>6, <1>7, <1>8, <1>9 DEF OrderInv

LEMMA OrderNext == TypeOK /\ OrderInv /\ [Next]_vars => OrderInv'
<1> SUFFICES ASSUME TypeOK, OrderInv, [Next]_vars PROVE OrderInv'
  OBVIOUS
<1>1. CASE ClockAdvances
  <2>1. now' = now + 1 /\ UNCHANGED <<offset, market, last_tick_time, restarts, feed, received>>
    BY <1>1 DEF ClockAdvances, streamVars, bufferVars
  <2>2. QuotesInv'
    BY <2>1, FeedTyped DEF OrderInv, QuotesInv
  <2>3. FeedKnown' /\ FeedAscends'
    BY <2>1 DEF OrderInv, FeedKnown, FeedAscends, Known, Before
  <2>4. ReceivedKnown' /\ ReceivedFirst' /\ ReceivedAscend'
    BY <2>1 DEF OrderInv, ReceivedKnown, ReceivedFirst, ReceivedAscend, Known, Before
  <2> QED BY <2>2, <2>3, <2>4 DEF OrderInv
<1>2. CASE UNCHANGED vars
  <2>1. UNCHANGED <<now, offset, market, last_tick_time, restarts, feed, received>>
    BY <1>2 DEF vars, streamVars, bufferVars
  <2>2. QuotesInv' /\ FeedKnown' /\ FeedAscends'
    BY <2>1 DEF OrderInv, QuotesInv, FeedKnown, FeedAscends, Known, Before
  <2>3. ReceivedKnown' /\ ReceivedFirst' /\ ReceivedAscend'
    BY <2>1 DEF OrderInv, ReceivedKnown, ReceivedFirst, ReceivedAscend, Known, Before
  <2> QED BY <2>2, <2>3 DEF OrderInv
<1> QED BY <1>1, <1>2, OrderQuote, OrderPoll, OrderRestart, OrderDrain DEF Next

LEMMA OrderCorrect == Spec => []OrderInv
<1>1. Spec => []TypeOK
  BY TypeCorrect
<1> QED BY <1>1, OrderInit, OrderNext, PTL DEF Spec

\* Ticks arrive in the order of their time whatever is lost and however often
\* the service starts, and never twice while it runs (trading_service.py:258).
THEOREM TimesCorrect == Spec => []TimesAscend
<1>1. OrderInv => TimesAscend
  BY DEF OrderInv, ReceivedAscend, Before, TimesAscend
<1> QED BY <1>1, OrderCorrect, PTL

-----------------------------------------------------------------------------
(***************************************************************************)
(* The buffer.  It mirrors what was received in its newest tick and in the *)
(* number of its samples; the newest spread weighs no more than a          *)
(* hundredth in the average.                                               *)
(***************************************************************************)
Mirrored == \A s \in Symbols :
  /\ spread_samples[s] = Len(received[s])
  /\ received[s] # <<>> => /\ ticks[s] # <<>>
                           /\ Newest(ticks[s]) = Newest(received[s])

NewestWeighs == \A s \in Symbols : LET n == Len(received[s]) IN n > 1 =>
  \E j \in 1..n-1 : 100 * avg_spread[s] <= received[s][n].spread + 99 * received[s][j].spread

BufferInv == Mirrored /\ AverageWithinSeen /\ NewestWeighs

\* Weighed with a hundredth, a spread moves the average towards itself.
LEMMA WeighedBetween ==
  ASSUME NEW a \in Nat, NEW x \in Nat, NEW b, b = (x + 99 * a) \div 100
  PROVE  /\ b \in Nat /\ 100 * b <= x + 99 * a
         /\ (x <= a => x <= b /\ b <= a) /\ (a <= x => a <= b /\ b <= x)
OBVIOUS

LEMMA PushedNewest ==
  ASSUME NEW buf \in Seq(Tick), NEW tick \in Tick
  PROVE  Pushed(buf, tick) # <<>> /\ Newest(Pushed(buf, tick)) = tick
<1>1. PICK rest \in Seq(Tick) : Pushed(buf, tick) = Append(rest, tick)
  <2>1. CASE Len(buf) >= MaxSize
    <3>1. buf # <<>>
      <4>1. MaxSize > 0 /\ MaxSize \in Nat
        BY IngestionAssumption
      <4> QED BY <2>1, <4>1
    <3>2. Tail(buf) \in Seq(Tick)
      BY <3>1
    <3> QED BY <2>1, <3>2 DEF Pushed
  <2>2. CASE ~(Len(buf) >= MaxSize)
    BY <2>2 DEF Pushed
  <2> QED BY <2>1, <2>2
<1> QED BY <1>1 DEF Newest

LEMMA DrainReceives ==
  ASSUME TypeOK, DrainTick, NEW s, s = Head(feed).symbol
  PROVE  /\ s \in Symbols /\ Stamped \in Tick
         /\ \A t \in Symbols : t # s =>
              /\ received'[t] = received[t] /\ ticks'[t] = ticks[t]
              /\ avg_spread'[t] = avg_spread[t] /\ spread_samples'[t] = spread_samples[t]
         /\ received'[s] = Append(received[s], Stamped) /\ received[s] \in Seq(Tick)
         /\ Len(received'[s]) = Len(received[s]) + 1 /\ Len(received[s]) \in Nat
         /\ \A i \in 1..Len(received[s]) : received'[s][i] = received[s][i]
         /\ received'[s][Len(received[s]) + 1] = Stamped
         /\ received'[s] # <<>> /\ Newest(received'[s]) = Stamped
         /\ ticks'[s] # <<>> /\ Newest(ticks'[s]) = Stamped
         /\ avg_spread'[s] = AverageWith(s, Stamped.spread)
         /\ spread_samples'[s] = spread_samples[s] + 1
<1>1. s \in Symbols /\ Stamped \in Tick /\ Push(s, Stamped)
  BY DrainPushes
<1>2. /\ received[s] \in Seq(Tick) /\ ticks[s] \in Seq(Tick) /\ spread_samples[s] \in Nat
  BY <1>1 DEF TypeOK
<1>3. /\ received'[s] = Append(received[s], Stamped)
      /\ ticks'[s] = Pushed(ticks[s], Stamped)
      /\ avg_spread'[s] = AverageWith(s, Stamped.spread)
      /\ spread_samples'[s] = spread_samples[s] + 1
      /\ \A t \in Symbols : t # s =>
              /\ received'[t] = received[t] /\ ticks'[t] = ticks[t]
              /\ avg_spread'[t] = avg_spread[t] /\ spread_samples'[t] = spread_samples[t]
  BY <1>1 DEF Push, TypeOK
<1>4. /\ Len(received'[s]) = Len(received[s]) + 1 /\ Len(received[s]) \in Nat
      /\ \A i \in 1..Len(received[s]) : received'[s][i] = received[s][i]
      /\ received'[s][Len(received[s]) + 1] = Stamped
      /\ received'[s] # <<>>
  <2>1. PICK old \in Seq(Tick) : old = received[s]
    BY <1>2
  <2>3. PICK tick \in Tick : tick = Stamped
    BY <1>1
  <2>4. PICK new : new = received'[s]
    OBVIOUS
  <2>5. new = Append(old, tick)
    BY ONLY <1>3, <2>1, <2>3, <2>4
  <2>2. /\ Len(new) = Len(old) + 1 /\ Len(old) \in Nat
        /\ \A i \in 1..Len(old) : new[i] = old[i]
        /\ new[Len(old) + 1] = tick
        /\ new # <<>>
    BY ONLY <2>5
  <2> QED BY ONLY <2>1, <2>2, <2>3, <2>4
<1>5. Newest(received'[s]) = Stamped
  BY <1>4 DEF Newest
<1>6. ticks'[s] # <<>> /\ Newest(ticks'[s]) = Stamped
  BY <1>1, <1>2, <1>3, PushedNewest
<1> QED BY <1>1, <1>2, <1>3, <1>4, <1>5, <1>6

LEMMA BufferInit == Init => BufferInv
BY DEF Init, BufferInv, Mirrored, AverageWithinSeen, NewestWeighs

LEMMA BufferDrain ==
  ASSUME TypeOK, BufferInv, DrainTick
  PROVE  BufferInv'
<1>0. PICK s : s = Head(feed).symbol
  OBVIOUS
<1>1. /\ s \in Symbols /\ Stamped \in Tick
      /\ \A t \in Symbols : t # s =>
           /\ received'[t] = received[t] /\ ticks'[t] = ticks[t]
           /\ avg_spread'[t] = avg_spread[t] /\ spread_samples'[t] = spread_samples[t]
      /\ Len(received'[s]) = Len(received[s]) + 1 /\ Len(received[s]) \in Nat
      /\ \A i \in 1..Len(received[s]) : received'[s][i] = received[s][i]
      /\ received'[s][Len(received[s]) + 1] = Stamped
      /\ received'[s] # <<>> /\ Newest(received'[s]) = Stamped
      /\ ticks'[s] # <<>> /\ Newest(ticks'[s]) = Stamped
      /\ avg_spread'[s] = AverageWith(s, Stamped.spread)
      /\ spread_samples'[s] = spread_samples[s] + 1
  BY <1>0, DrainReceives
<1>2. PICK x \in Nat : x = Stamped.spread
  BY <1>1 DEF Tick
<1>3. PICK n \in Nat : n = Len(received[s])
  BY <1>1
<1>4. Mirrored'
  BY <1>1 DEF BufferInv, Mirrored
<1>5. /\ \E i, j \in 1..n+1 : /\ received'[s][i].spread <= avg_spread'[s]
                              /\ avg_spread'[s] <= received'[s][j].spread
      /\ n > 0 => \E j \in 1..n :
           100 * avg_spread'[s] <= received'[s][n+1].spread + 99 * received'[s][j].spread
  <2>1. CASE n = 0
    <3>1. spread_samples[s] = 0
      BY <1>1, <1>3, <2>1 DEF BufferInv, Mirrored
    <3>2. avg_spread'[s] = x
      BY <1>1, <1>2, <3>1 DEF AverageWith
    <3>3. received'[s][n+1].spread = x /\ n + 1 \in 1..n+1
      BY <1>1, <1>2, <1>3
    <3> QED BY <2>1, <3>2, <3>3
  <2>2. CASE n > 0
    <3>1. spread_samples[s] # 0 /\ received[s] # <<>>
      BY <1>1, <1>3, <2>2 DEF BufferInv, Mirrored
    <3>2. PICK a \in Nat : a = avg_spread[s]
      BY <1>1 DEF TypeOK
    <3>3. PICK i \in 1..n, j \in 1..n : received[s][i].spread <= a /\ a <= received[s][j].spread
      BY <1>1, <1>3, <3>1, <3>2 DEF BufferInv, AverageWithinSeen
    <3>4. PICK p \in Nat, q \in Nat : /\ p = received'[s][i].spread /\ q = received'[s][j].spread
                                      /\ p <= a /\ a <= q
      BY <1>1, <1>3, <3>3, FeedTyped
    <3>5. PICK b : b = (x + 99 * a) \div 100
      OBVIOUS
    <3>6. avg_spread'[s] = b
      BY <1>1, <1>2, <3>1, <3>2, <3>5 DEF AverageWith
    <3>7. /\ b \in Nat /\ 100 * b <= x + 99 * a
          /\ (x <= a => x <= b /\ b <= a) /\ (a <= x => a <= b /\ b <= x)
      BY <3>5, WeighedBetween
    <3>8. received'[s][n+1].spread = x
      BY <1>1, <1>2, <1>3
    <3>9. 100 * b <= x + 99 * q
      BY <3>4, <3>7
    <3>10. n + 1 \in 1..n+1 /\ i \in 1..n+1 /\ j \in 1..n+1
      OBVIOUS
    <3>11. (x <= b /\ b <= q) \/ (p <= b /\ b <= x)
      BY <3>4, <3>7
    <3> QED BY <3>4, <3>6, <3>8, <3>9, <3>10, <3>11
  <2> QED BY <2>1, <2>2
<1>6. AverageWithinSeen'
  <2> SUFFICES ASSUME NEW t \in Symbols, received'[t] # <<>>
               PROVE  \E i, j \in 1..Len(received'[t]) :
                        /\ received'[t][i].spread <= avg_spread'[t]
                        /\ avg_spread'[t] <= received'[t][j].spread
    BY DEF AverageWithinSeen
  <2>1. CASE t = s
    <3>1. Len(received'[s]) = n + 1
      BY <1>1, <1>3
    <3> QED BY <1>5, <2>1, <3>1
  <2>2. CASE t # s
    <3>1. received'[t] = received[t] /\ avg_spread'[t] = avg_spread[t]
      BY <1>1, <2>2
    <3> QED BY <3>1 DEF BufferInv, AverageWithinSeen
  <2> QED BY <2>1, <2>2
<1>7. NewestWeighs'
  <2>1. ASSUME NEW t \in Symbols, t # s, Len(received'[t]) > 1
        PROVE  \E j \in 1..Len(received'[t]) - 1 :
                 100 * avg_spread'[t] <= received'[t][Len(received'[t])].spread
                                          + 99 * received'[t][j].spread
    BY <1>1, <2>1 DEF BufferInv, NewestWeighs
  <2>2. ASSUME Len(received'[s]) > 1
        PROVE  \E j \in 1..Len(received'[s]) - 1 :
                 100 * avg_spread'[s] <= received'[s][Len(received'[s])].spread
                                          + 99 * received'[s][j].spread
    <3>1. Len(received'[s]) = n + 1 /\ Len(received'[s]) - 1 = n /\ n > 0
      BY <1>1, <1>3, <2>2
    <3> QED BY <1>5, <3>1
  <2> QED BY <2>1, <2>2 DEF NewestWeighs
<1> QED BY <1>4, <1>6, <1>7 DEF BufferInv

LEMMA BufferNext == TypeOK /\ BufferInv /\ [Next]_vars => BufferInv'
<1> SUFFICES ASSUME TypeOK, BufferInv, [Next]_vars PROVE BufferInv'
  OBVIOUS
<1>1. CASE UNCHANGED bufferVars
  BY <1>1 DEF bufferVars, BufferInv, Mirrored, AverageWithinSeen, NewestWeighs
<1>2. CASE DrainTick
  BY <1>2, BufferDrain
<1> QED BY <1>1, <1>2 DEF Next, vars, NewQuote, ClockAdvances, Poll, Restart

LEMMA BufferCorrect == Spec => []BufferInv
<1>1. Spec => []TypeOK
  BY TypeCorrect
<1> QED BY <1>1, BufferInit, BufferNext, PTL DEF Spec

\* From the first tick on the average lies between spreads that were seen,
\* whatever spreads come and however the division rounds (tick_ingestion.rs:96).
THEOREM AverageCorrect == Spec => []AverageWithinSeen
<1>1. BufferInv => AverageWithinSeen
  BY DEF BufferInv
<1> QED BY <1>1, BufferCorrect, PTL

\* The filter notices a spread of more than twice all before it, though it is
\* part of the average it is compared to (tick_ingestion.rs:133).
THEOREM SpikeCorrect == Spec => []SpikeIsAbnormal
<1>1. TypeOK /\ BufferInv => SpikeIsAbnormal
  <2> SUFFICES ASSUME TypeOK, BufferInv, NEW s \in Symbols, NEW n \in Nat, n = Len(received[s]), n > 1,
                      \A i \in 1..n-1 : received[s][n].spread > 2 * received[s][i].spread
               PROVE  is_spread_abnormal(s, 3, 2)
    BY FeedTyped DEF SpikeIsAbnormal
  <2>1. PICK j \in 1..n-1 : 100 * avg_spread[s] <= received[s][n].spread + 99 * received[s][j].spread
    BY DEF BufferInv, NewestWeighs
  <2>2. PICK x \in Nat, y \in Nat : /\ x = received[s][n].spread /\ y = received[s][j].spread
                                    /\ x > 2 * y
    <3>1. j \in 1..Len(received[s]) /\ n \in 1..Len(received[s])
      OBVIOUS
    <3> QED BY <3>1, FeedTyped
  <2>3. PICK a \in Nat : a = avg_spread[s] /\ 100 * a <= x + 99 * y
    BY <2>1, <2>2 DEF TypeOK
  <2>4. x * 2 > a * 3
    <3>1. x \in Nat /\ y \in Nat /\ a \in Nat /\ x > 2 * y /\ 100 * a <= x + 99 * y
      BY <2>2, <2>3
    <3> QED BY ONLY <3>1
  <2>5. ticks[s] # <<>> /\ Newest(ticks[s]).spread = x
    BY <2>2, FeedTyped DEF BufferInv, Mirrored, Newest
  <2> QED BY <2>3, <2>4, <2>5 DEF is_spread_abnormal
<1>2. Spec => []TypeOK
  BY TypeCorrect
<1> QED BY <1>1, <1>2, BufferCorrect, PTL

-----------------------------------------------------------------------------
(***************************************************************************)
(* The newest tick.  What the streamer sent last of a symbol is the last   *)
(* message of that symbol on its way or, when none is, the last received;  *)
(* or a message was lost that was no older.                                *)
(***************************************************************************)
LastUnderWay(s) == \E i \in 1..Len(feed) :
  /\ feed[i].symbol = s /\ feed[i].timestamp_ms = last_tick_time[s]
  /\ \A j \in 1..Len(feed) : i < j => feed[j].symbol # s

LastReceived(s) == /\ ~UnderWay(s)
                   /\ received[s] # <<>>
                   /\ Newest(received[s]).timestamp_ms = last_tick_time[s]

LatestSent == \A s \in Symbols :
  last_tick_time[s] > lost[s] => LastUnderWay(s) \/ LastReceived(s)

LEMMA LatestInit == Init => LatestSent
BY DEF Init, LatestSent

LEMMA LatestPoll ==
  ASSUME TypeOK, LatestSent, NEW s \in Symbols, Poll(s)
  PROVE  LatestSent'
<1>1. /\ received' = received
      /\ last_tick_time'[s] = market[s].timestamp_ms
      /\ \A t \in Symbols : t # s => last_tick_time'[t] = last_tick_time[t]
  BY DEF Poll, bufferVars, TypeOK
<1>2. CASE /\ lost' = [lost EXCEPT ![s] = market[s].timestamp_ms]
           /\ feed' = feed
  <2>1. /\ lost'[s] = market[s].timestamp_ms
        /\ \A t \in Symbols : t # s => lost'[t] = lost[t]
    BY <1>2 DEF TypeOK
  <2>2. ~(last_tick_time'[s] > lost'[s])
    BY <1>1, <2>1, FeedTyped
  <2>3. \A t \in Symbols : t # s =>
          /\ LastUnderWay(t) => LastUnderWay(t)'
          /\ LastReceived(t) => LastReceived(t)'
    BY <1>1, <1>2 DEF LastUnderWay, LastReceived, UnderWay
  <2> QED BY <1>1, <2>1, <2>2, <2>3 DEF LatestSent
<1>3. CASE /\ feed' = Append(feed, [symbol |-> s, spread |-> market[s].spread,
                                    timestamp_ms |-> market[s].timestamp_ms,
                                    polled_at |-> now])
           /\ lost' = lost
  <2>1. /\ Len(feed') = Len(feed) + 1 /\ Len(feed) \in Nat
        /\ \A i \in 1..Len(feed) : feed'[i] = feed[i]
        /\ feed'[Len(feed) + 1].symbol = s
        /\ feed'[Len(feed) + 1].timestamp_ms = market[s].timestamp_ms
    BY <1>3 DEF TypeOK
  <2>2. LastUnderWay(s)'
    <3>1. /\ Len(feed) + 1 \in 1..Len(feed')
          /\ \A j \in 1..Len(feed') : ~(Len(feed) + 1 < j)
      BY <2>1
    <3> QED BY <1>1, <2>1, <3>1 DEF LastUnderWay
  <2>3. ASSUME NEW t \in Symbols, t # s, LastUnderWay(t)
        PROVE  LastUnderWay(t)'
    <3>1. PICK i \in 1..Len(feed) :
            /\ feed[i].symbol = t /\ feed[i].timestamp_ms = last_tick_time[t]
            /\ \A j \in 1..Len(feed) : i < j => feed[j].symbol # t
      BY <2>3 DEF LastUnderWay
    <3>2. /\ i \in 1..Len(feed')
          /\ \A j \in 1..Len(feed') : j \in 1..Len(feed) \/ j = Len(feed) + 1
      BY <2>1
    <3>3. \A j \in 1..Len(feed') : i < j => feed'[j].symbol # t
      BY <2>1, <2>3, <3>1, <3>2
    <3> QED BY <1>1, <2>1, <2>3, <3>1, <3>2, <3>3 DEF LastUnderWay
  <2>4. ASSUME NEW t \in Symbols, t # s, LastReceived(t)
        PROVE  LastReceived(t)'
    <3>1. \A j \in 1..Len(feed') : j \in 1..Len(feed) \/ j = Len(feed) + 1
      BY <2>1
    <3> QED BY <1>1, <2>1, <2>4, <3>1 DEF LastReceived, UnderWay
  <2> QED BY <1>1, <1>3, <2>2, <2>3, <2>4 DEF LatestSent
<1> QED BY <1>2, <1>3 DEF Poll

LEMMA LatestRestart ==
  ASSUME TypeOK, Restart
  PROVE  LatestSent'
<1>1. TypeOK'
  BY TypeNext DEF Next
<1>2. \A s \in Symbols : last_tick_time'[s] = 0 /\ lost'[s] \in Nat
  BY <1>1 DEF Restart, TypeOK
<1> QED BY <1>2 DEF LatestSent

LEMMA LatestDrain ==
  ASSUME TypeOK, LatestSent, DrainTick
  PROVE  LatestSent'
<1>0. PICK s : s = Head(feed).symbol
  OBVIOUS
<1>1. /\ s \in Symbols
      /\ \A t \in Symbols : t # s => received'[t] = received[t]
      /\ received'[s] # <<>> /\ Newest(received'[s]) = Stamped
  BY <1>0, DrainReceives
<1>2. /\ feed # <<>> /\ feed' = Tail(feed)
      /\ UNCHANGED <<last_tick_time, lost>>
  BY DrainPushes
<1>3. /\ Len(feed') = Len(feed) - 1 /\ Len(feed) \in Nat /\ 1 \in 1..Len(feed)
      /\ \A i \in 1..Len(feed') : i + 1 \in 1..Len(feed) /\ feed'[i] = feed[i + 1]
      /\ feed[1].symbol = s /\ Stamped.timestamp_ms = feed[1].timestamp_ms
  BY <1>0, <1>2, HeadIsMessage, FeedTyped DEF Stamped
<1>4. ASSUME NEW t \in Symbols, LastUnderWay(t)
      PROVE  LastUnderWay(t)' \/ LastReceived(t)'
  <2>1. PICK i \in 1..Len(feed) :
          /\ feed[i].symbol = t /\ feed[i].timestamp_ms = last_tick_time[t]
          /\ \A j \in 1..Len(feed) : i < j => feed[j].symbol # t
    BY <1>4 DEF LastUnderWay
  <2>2. CASE i = 1
    <3>1. t = s /\ Stamped.timestamp_ms = last_tick_time'[t]
      BY <1>2, <1>3, <2>1, <2>2
    <3>2. ~UnderWay(t)'
      <4>1. ASSUME NEW j \in 1..Len(feed') PROVE feed'[j].symbol # t
        <5>1. j + 1 \in 1..Len(feed) /\ feed'[j] = feed[j + 1] /\ i < j + 1
          BY <1>3, <2>2
        <5> QED BY <2>1, <5>1
      <4> QED BY <4>1 DEF UnderWay
    <3> QED BY <1>1, <3>1, <3>2 DEF LastReceived, Newest
  <2>3. CASE i # 1
    <3>1. PICK k \in 1..Len(feed') : k + 1 = i
      <4>1. i - 1 \in 1..Len(feed') /\ (i - 1) + 1 = i
        BY <1>3, <2>3
      <4> QED BY <4>1
    <3>2. feed'[k] = feed[i]
      BY <1>3, <3>1
    <3>3. ASSUME NEW j \in 1..Len(feed'), k < j PROVE feed'[j].symbol # t
      <4>1. j + 1 \in 1..Len(feed) /\ feed'[j] = feed[j + 1] /\ i < j + 1
        BY <1>3, <3>1, <3>3
      <4> QED BY <2>1, <4>1
    <3> QED BY <1>2, <2>1, <3>2, <3>3 DEF LastUnderWay
  <2> QED BY <2>2, <2>3
<1>5. ASSUME NEW t \in Symbols, LastReceived(t)
      PROVE  LastReceived(t)'
  <2>1. t # s
    BY <1>3, <1>5 DEF LastReceived, UnderWay
  <2>2. ~UnderWay(t)'
    BY <1>3, <1>5 DEF LastReceived, UnderWay
  <2>3. received'[t] = received[t] /\ last_tick_time'[t] = last_tick_time[t]
    BY <1>1, <1>2, <2>1
  <2> QED BY <1>5, <2>2, <2>3 DEF LastReceived
<1> QED BY <1>2, <1>4, <1>5 DEF LatestSent

LEMMA LatestNext == TypeOK /\ LatestSent /\ [Next]_vars => LatestSent'
<1> SUFFICES ASSUME TypeOK, LatestSent, [Next]_vars PROVE LatestSent'
  OBVIOUS
<1>1. CASE UNCHANGED <<streamVars, bufferVars>>
  BY <1>1 DEF streamVars, bufferVars, LatestSent, LastUnderWay, LastReceived, UnderWay
<1> QED BY <1>1, LatestPoll, LatestRestart, LatestDrain DEF Next, vars, NewQuote, ClockAdvances

\* Unless a message was lost, the newest tick in the buffer is the one sent
\* last, as soon as the channel is drained (trading_service.py:258, main.rs:133
\* and tick_ingestion.rs:96 together).
THEOREM StaleCorrect == Spec => []StaleOnlyByLoss
<1>1. BufferInv /\ LatestSent => StaleOnlyByLoss
  BY DEF BufferInv, Mirrored, LatestSent, LastUnderWay, LastReceived, UnderWay, StaleOnlyByLoss
<1>2. Spec => []TypeOK
  BY TypeCorrect
<1>3. Spec => []LatestSent
  BY <1>2, LatestInit, LatestNext, PTL DEF Spec
<1> QED BY <1>1, <1>3, BufferCorrect, PTL

-----------------------------------------------------------------------------
(***************************************************************************)
(* The latency.  A message is polled no earlier than the broker quoted it, *)
(* on the broker's clock.                                                  *)
(***************************************************************************)
PolledBehind == \A i \in 1..Len(feed) : feed[i].timestamp_ms <= feed[i].polled_at + offset

LEMMA PolledNext == TypeOK /\ OrderInv /\ PolledBehind /\ [Next]_vars => PolledBehind'
<1> SUFFICES ASSUME TypeOK, OrderInv, PolledBehind, [Next]_vars PROVE PolledBehind'
  OBVIOUS
<1>1. CASE UNCHANGED <<offset, feed>>
  BY <1>1 DEF PolledBehind
<1>2. ASSUME NEW s \in Symbols, Poll(s) PROVE PolledBehind'
  <2>1. market[s].timestamp_ms <= now + offset /\ offset' = offset
    BY <1>2 DEF OrderInv, QuotesInv, Poll
  <2>2. CASE feed' = feed
    BY <2>1, <2>2 DEF PolledBehind
  <2>3. CASE feed' = Append(feed, [symbol |-> s, spread |-> market[s].spread,
                                   timestamp_ms |-> market[s].timestamp_ms,
                                   polled_at |-> now])
    <3>1. /\ Len(feed') = Len(feed) + 1 /\ Len(feed) \in Nat
          /\ \A i \in 1..Len(feed) : feed'[i] = feed[i]
          /\ feed'[Len(feed) + 1].timestamp_ms = market[s].timestamp_ms
          /\ feed'[Len(feed) + 1].polled_at = now
      BY <2>3 DEF TypeOK
    <3>2. \A j \in 1..Len(feed') : j \in 1..Len(feed) \/ j = Len(feed) + 1
      BY <3>1
    <3> QED BY <2>1, <3>1, <3>2 DEF PolledBehind
  <2> QED BY <1>2, <2>2, <2>3 DEF Poll
<1>3. CASE Restart
  <2>1. PICK k \in 0..Len(feed) : feed' = SubSeq(feed, 1, k)
    BY <1>3 DEF Restart
  <2>2. \A i \in 1..Len(feed') : i \in 1..Len(feed) /\ feed'[i] = feed[i]
    BY <2>1, FeedTyped DEF TypeOK
  <2> QED BY <1>3, <2>2 DEF PolledBehind, Restart
<1>4. CASE DrainTick
  <2>1. offset' = offset /\ \A i \in 1..Len(feed') : i + 1 \in 1..Len(feed) /\ feed'[i] = feed[i + 1]
    BY <1>4, DrainPushes, HeadIsMessage
  <2> QED BY <2>1 DEF PolledBehind
<1> QED BY <1>1, <1>2, <1>3, <1>4
    DEF Next, vars, streamVars, NewQuote, ClockAdvances

LEMMA LatencyStep ==
  ASSUME TypeOK, PolledBehind, [Next]_vars, NEW s \in Symbols, Arrives(s)
  PROVE  LET t == Newest(ticks'[s]) IN latency_ms(t) + offset >= now - t.polled_at
<1>1. DrainTick
  <2>1. ~UNCHANGED received
    BY DEF Arrives
  <2> QED BY <2>1 DEF Next, vars, bufferVars, NewQuote, ClockAdvances, Poll, Restart
<1>2. s = Head(feed).symbol
  BY <1>1, DrainReceives DEF Arrives
<1>3. Newest(ticks'[s]) = Stamped
  BY <1>1, <1>2, DrainReceives
<1>4. 1 \in 1..Len(feed) /\ Head(feed) = feed[1]
  BY <1>1, DrainPushes, HeadIsMessage
<1>5. PICK time \in Nat, polled \in Nat, at \in Nat, ahead \in Nat :
        /\ time = Stamped.timestamp_ms /\ polled = Stamped.polled_at
        /\ at = now /\ ahead = offset
        /\ time <= polled + ahead
  BY <1>4, FeedTyped DEF Stamped, PolledBehind
<1>6. (IF at >= time THEN at - time ELSE 0) + ahead >= at - polled
  BY ONLY <1>5
<1>7. latency_ms(Stamped) = IF at >= time THEN at - time ELSE 0
  BY <1>5 DEF latency_ms, Stamped
<1> QED BY <1>3, <1>5, <1>6, <1>7

\* The latency the filter reads of a tick that arrives never hides more of its
\* delay than the broker's clock is ahead (tick_ingestion.rs:66).
THEOREM LatencyCorrect == Spec => LatencyShowsDelay
<1>1. TypeOK /\ PolledBehind /\ [Next]_vars
        => [\A s \in Symbols : Arrives(s) =>
              LET t == Newest(ticks'[s]) IN latency_ms(t) + offset >= now - t.polled_at]_vars
  BY LatencyStep
<1>2. Init => PolledBehind
  BY DEF Init, PolledBehind
<1>3. Spec => []TypeOK
  BY TypeCorrect
<1>4. Spec => []PolledBehind
  BY <1>2, <1>3, OrderCorrect, PolledNext, PTL DEF Spec
<1> QED BY <1>1, <1>3, <1>4, PTL DEF Spec, LatencyShowsDelay
=============================================================================
