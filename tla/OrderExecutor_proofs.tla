------------------------- MODULE OrderExecutor_proofs -------------------------
(***************************************************************************)
(* Proofs about the order book, for every finite set of symbols, every     *)
(* sizes and every number of orders.                                       *)
(***************************************************************************)
EXTENDS OrderExecutor, FiniteSetTheorems, TLAPS

(***************************************************************************)
(* Where the ids are: an id is created, then pending, then filled or       *)
(* refused; those not yet handed out are nowhere.                          *)
(***************************************************************************)
IdsInv ==
  /\ created \intersect pending_orders = {}
  /\ \A id \in created \union pending_orders : id < next_order_id /\ fills[id] = 0
  /\ \A id \in OrderIds : /\ id >= next_order_id => fills[id] = 0
                          /\ fills[id] <= 1
  /\ \A id \in pending_orders : order[id].lots > 0

IInv == TypeOK /\ IdsInv /\ PositionIsNet

LEMMA InvInit == Init => IInv
<1>1. Init => TypeOK
  <2> SUFFICES ASSUME Init PROVE TypeOK
    OBVIOUS
  <2>1. NoPosition \in Position
    BY DEF NoPosition, Position, Side
  <2>2. 1 \in 1..(MaxOrders + 1)
    BY ExecutorAssumption
  <2>3. /\ order \in [OrderIds -> Order \union {NoOrder}]
        /\ fills \in [OrderIds -> Nat]
        /\ positions \in [Symbols -> Position]
        /\ net \in [Symbols -> Int]
    BY <2>1 DEF Init
  <2>. QED BY <2>2, <2>3 DEF Init, TypeOK
<1>2. Init => IdsInv
  BY DEF Init, IdsInv
<1>3. Init => PositionIsNet
  BY DEF Init, PositionIsNet, Signed, NoPosition
<1>. QED BY <1>1, <1>2, <1>3 DEF IInv

\* The netting of a fill: the signed size moves by the signed lots.
LEMMA UpdatePositionNets ==
  ASSUME NEW p \in Position, NEW side \in Side, NEW lots \in Int,
         p.lots >= 0, lots > 0
  PROVE  LET q == UpdatePosition(p, side, lots) IN
         /\ q \in Position
         /\ q.lots >= 0
         /\ Signed(q.side, q.lots) = Signed(p.side, p.lots) + Signed(side, lots)
  BY DEF UpdatePosition, Signed, Position, Side, NoPosition

\* The orders CloseAllPositions creates.
LEMMA CloseOrders ==
  ASSUME IInv, CloseAllPositions
  PROVE  LET last == next_order_id + Cardinality(OpenSymbols) - 1
             ids  == next_order_id..last
         IN  /\ Cardinality(OpenSymbols) \in Nat
             /\ ids \subseteq OrderIds
             /\ last + 1 \in 1..(MaxOrders + 1)
             /\ \A s \in OpenSymbols : CloseOrder(s) \in Order /\ CloseOrder(s).lots > 0
<1>1. Cardinality(OpenSymbols) \in Nat
  BY ExecutorAssumption, FS_Subset, FS_CardinalityType DEF OpenSymbols
<1>2. \A s \in OpenSymbols : CloseOrder(s) \in Order /\ CloseOrder(s).lots > 0
  BY DEF IInv, TypeOK, PositionIsNet, OpenSymbols, CloseOrder, NewOrder, Order,
         Position, Status, Side, Opposite
<1>. QED
  BY <1>1, <1>2, ExecutorAssumption
  DEF IInv, TypeOK, CloseAllPositions, OrderIds
-----------------------------------------------------------------------------
LEMMA InvStep == IInv /\ [Next]_vars => IInv'
<1> SUFFICES ASSUME IInv, [Next]_vars PROVE IInv'
  OBVIOUS
<1>. USE ExecutorAssumption
<1>0. /\ TypeOK /\ IdsInv /\ PositionIsNet
      /\ \A o \in Order, st \in Status : [o EXCEPT !.status = st] \in Order
  BY DEF IInv, Order
<1>1. CASE CreateMarketOrder
  <2>1. PICK symbol \in Symbols, side \in Side, lots \in LotSizes :
          order' = [order EXCEPT ![next_order_id] = NewOrder(symbol, side, lots)]
    BY <1>1 DEF CreateMarketOrder
  <2>2. NewOrder(symbol, side, lots) \in Order
    BY DEF NewOrder, Order, Status
  <2>3. next_order_id \in OrderIds
    BY <1>0, <1>1 DEF CreateMarketOrder, TypeOK, OrderIds
  <2>4. TypeOK'
    BY <1>0, <1>1, <2>1, <2>2, <2>3 DEF CreateMarketOrder, TypeOK, OrderIds
  <2>5. IdsInv'
    BY <1>0, <1>1, <2>1, <2>3 DEF CreateMarketOrder, TypeOK, IdsInv, OrderIds
  <2>. QED
    BY <1>0, <1>1, <2>4, <2>5 DEF CreateMarketOrder, IInv, PositionIsNet
<1>2. ASSUME NEW id \in OrderIds, SubmitOrder(id) PROVE IInv'
  <2>1. order[id] \in Order
    BY <1>0, <1>2 DEF SubmitOrder, TypeOK
  <2>2. [order[id] EXCEPT !.status = "Submitted"] \in Order
    BY <1>0, <2>1 DEF Status
  <2>3. TypeOK'
    BY <1>0, <1>2, <2>1, <2>2 DEF SubmitOrder, TypeOK, IdsInv
  <2>4. IdsInv'
    BY <1>0, <1>2, <2>1 DEF SubmitOrder, TypeOK, IdsInv, Order
  <2>. QED
    BY <1>0, <1>2, <2>3, <2>4 DEF SubmitOrder, IInv, PositionIsNet
<1>3. ASSUME NEW id \in OrderIds, NEW st \in Status, id \in pending_orders,
             order' = [order EXCEPT ![id].status = st],
             UNCHANGED <<next_order_id, created, pending_orders, fills, positions,
                         net, closing, quiet>>
      PROVE  IInv'
  <2>1. order[id] \in Order /\ [order[id] EXCEPT !.status = st] \in Order
    BY <1>0, <1>3 DEF TypeOK
  <2>2. TypeOK'
    BY <1>0, <1>3, <2>1 DEF TypeOK
  <2>3. IdsInv'
    BY <1>0, <1>3, <2>1 DEF TypeOK, IdsInv, Order
  <2>. QED
    BY <1>0, <1>3, <2>2, <2>3 DEF IInv, PositionIsNet
<1>4. ASSUME NEW id \in OrderIds, UpdateFromBridge(id) \/ CancelOrder(id) PROVE IInv'
  <2>1. PICK st \in Status : order' = [order EXCEPT ![id].status = st]
    BY <1>4 DEF UpdateFromBridge, CancelOrder, Status
  <2>. QED BY <1>3, <1>4, <2>1 DEF UpdateFromBridge, CancelOrder
<1>5. CASE CancelAll
  <2>1. \A id \in pending_orders : [order[id] EXCEPT !.status = "Cancelled"] \in Order
    BY <1>0 DEF TypeOK, Status
  <2>2. TypeOK'
    BY <1>0, <1>5, <2>1 DEF CancelAll, TypeOK
  <2>3. IdsInv'
    BY <1>0, <1>5, <2>1 DEF CancelAll, TypeOK, IdsInv, Order
  <2>. QED
    BY <1>0, <1>5, <2>2, <2>3 DEF CancelAll, IInv, PositionIsNet
<1>6. ASSUME NEW id \in OrderIds, ProcessFill(id) PROVE IInv'
  <2>. DEFINE o == order[id]
              p == positions[o.symbol]
              q == UpdatePosition(p, o.side, o.lots)
  <2>1. o \in Order /\ o.symbol \in Symbols /\ o.side \in Side /\ o.lots \in Int
        /\ o.lots > 0
    BY <1>0, <1>6 DEF ProcessFill, TypeOK, IdsInv, Order
  <2>2. p \in Position /\ p.lots >= 0
    BY <1>0, <2>1 DEF TypeOK, PositionIsNet
  <2>3. q \in Position /\ q.lots >= 0
        /\ Signed(q.side, q.lots) = Signed(p.side, p.lots) + Signed(o.side, o.lots)
    BY <2>1, <2>2, UpdatePositionNets
  <2>4. positions' = [positions EXCEPT ![o.symbol] = q]
        /\ net' = [net EXCEPT ![o.symbol] = @ + Signed(o.side, o.lots)]
    BY <1>6 DEF ProcessFill
  <2>5. Signed(o.side, o.lots) \in Int
    BY <2>1 DEF Signed
  <2>6. TypeOK'
    BY <1>0, <1>6, <2>1, <2>3, <2>4, <2>5 DEF ProcessFill, Book, TypeOK, IdsInv
  <2>7. IdsInv'
    BY <1>0, <1>6 DEF ProcessFill, Book, TypeOK, IdsInv, OrderIds
  <2>8. PositionIsNet'
    BY <1>0, <2>1, <2>3, <2>4 DEF PositionIsNet, TypeOK
  <2>. QED BY <2>6, <2>7, <2>8 DEF IInv
<1>7. CASE CloseAllPositions
  <2>. DEFINE last == next_order_id + Cardinality(OpenSymbols) - 1
              ids  == next_order_id..last
  <2>1. PICK sym \in [ids -> OpenSymbols] :
          order' = [id \in OrderIds |->
                      IF id \in ids THEN CloseOrder(sym[id]) ELSE order[id]]
    BY <1>7 DEF CloseAllPositions
  <2>2. ids \subseteq OrderIds /\ last + 1 \in 1..(MaxOrders + 1)
        /\ \A id \in ids : CloseOrder(sym[id]) \in Order
    BY <1>7, <2>1, CloseOrders
  <2>3. TypeOK'
    BY <1>0, <1>7, <2>1, <2>2 DEF CloseAllPositions, TypeOK
  <2>4. IdsInv'
    <3>1. Cardinality(OpenSymbols) \in Nat /\ next_order_id \in Nat
      BY <1>0, <1>7, CloseOrders DEF TypeOK
    <3>2. created' = created \union ids /\ next_order_id' = last + 1
          /\ UNCHANGED <<pending_orders, fills>>
      BY <1>7 DEF CloseAllPositions
    <3>3. \A id \in ids : id \in OrderIds /\ id >= next_order_id /\ id < last + 1
      BY <2>2, <3>1
    <3>4. \A id \in pending_orders : id \in OrderIds /\ id \notin ids /\ order'[id] = order[id]
      BY <1>0, <2>1, <3>3 DEF TypeOK, IdsInv, OrderIds
    <3>5. \A id \in created : id \in OrderIds /\ id < last + 1
      BY <1>0, <3>1 DEF TypeOK, IdsInv, OrderIds
    <3>6. last + 1 >= next_order_id
      BY <3>1
    <3>. HIDE DEF last, ids
    <3>. QED
      <4>1. (created \intersect pending_orders = {})'
        BY <1>0, <3>2, <3>4 DEF IdsInv
      <4>2. \A id \in created' \union pending_orders' :
              id < next_order_id' /\ fills'[id] = 0
        BY <1>0, <2>2, <3>1, <3>2, <3>3, <3>4, <3>5, <3>6 DEF IdsInv, TypeOK, OrderIds
      <4>3. \A id \in OrderIds : /\ id >= next_order_id' => fills'[id] = 0
                                 /\ fills'[id] <= 1
        BY <1>0, <2>2, <3>1, <3>2, <3>6 DEF IdsInv, OrderIds
      <4>4. \A id \in pending_orders' : order'[id].lots > 0
        BY <1>0, <3>2, <3>4 DEF IdsInv
      <4>. QED BY <4>1, <4>2, <4>3, <4>4 DEF IdsInv
  <2>. QED
    BY <1>0, <1>7, <2>3, <2>4 DEF CloseAllPositions, IInv, PositionIsNet
<1>8. CASE UNCHANGED vars
  BY <1>0, <1>8 DEF vars, IInv, TypeOK, IdsInv, PositionIsNet
<1>. QED
  BY <1>1, <1>2, <1>4, <1>5, <1>6, <1>7, <1>8 DEF Next

\* Ids, orders and positions keep their types, whatever is created, filled,
\* cancelled and closed (order_executor.rs:205).
THEOREM TypeCorrect == Spec => []TypeOK
<1>1. IInv => TypeOK
  BY DEF IInv
<1>. QED BY <1>1, InvInit, InvStep, PTL DEF Spec

\* Every position is the net of the fills that were booked.
THEOREM NetCorrect == Spec => []PositionIsNet
<1>1. IInv => PositionIsNet
  BY DEF IInv
<1>. QED BY InvInit, InvStep, <1>1, PTL DEF Spec

\* No order is booked twice, however often its fill is delivered.
THEOREM FilledOnceCorrect == Spec => []FilledOnce
<1>1. IInv => FilledOnce
  BY DEF IInv, IdsInv, FilledOnce, OrderIds, TypeOK
<1>. QED BY InvInit, InvStep, <1>1, PTL DEF Spec

-----------------------------------------------------------------------------
(***************************************************************************)
(* CloseAllFlattens is not inductive by itself: the orders that are to     *)
(* close the positions must still be on their way, and one per symbol.     *)
(***************************************************************************)
CloseInv ==
  quiet => /\ \A id \in closing : id \in created \union pending_orders /\ order[id].lots > 0
           /\ \A i, j \in closing : order[i].symbol = order[j].symbol => i = j
           /\ CloseAllFlattens

\* A step that leaves the positions and what the closing orders say.
LEMMA CloseKept ==
  ASSUME TypeOK, CloseInv, closing' = closing, quiet' = quiet, positions' = positions,
         \A id \in closing : quiet =>
           /\ id \in created' \union pending_orders'
           /\ order'[id].symbol = order[id].symbol
           /\ order'[id].side = order[id].side
           /\ order'[id].lots = order[id].lots
  PROVE  CloseInv'
<1> SUFFICES ASSUME quiet PROVE CloseInv'
  BY DEF CloseInv
<1>1. CloseAllFlattens'
  <2> SUFFICES ASSUME NEW s \in Symbols
               PROVE  \/ \E id \in closing :
                           /\ order'[id].symbol = s
                           /\ positions[s] = [side |-> Opposite(order'[id].side),
                                              lots |-> order'[id].lots]
                      \/ positions[s].lots = 0 /\ \A id \in closing : order'[id].symbol # s
    BY DEF CloseAllFlattens
  <2>1. CASE \E id \in closing :
               /\ order[id].symbol = s
               /\ positions[s] = [side |-> Opposite(order[id].side), lots |-> order[id].lots]
    <3>1. PICK id \in closing :
            /\ order[id].symbol = s
            /\ positions[s] = [side |-> Opposite(order[id].side), lots |-> order[id].lots]
      BY <2>1
    <3>2. order'[id].symbol = s /\ order'[id].side = order[id].side
          /\ order'[id].lots = order[id].lots
      BY <3>1
    <3>. QED BY <3>1, <3>2
  <2>2. CASE positions[s].lots = 0 /\ \A id \in closing : order[id].symbol # s
    BY <2>2
  <2>. QED BY <2>1, <2>2 DEF CloseInv, CloseAllFlattens
<1>2. \A i, j \in closing' : order'[i].symbol = order'[j].symbol => i = j
  BY DEF CloseInv
<1>3. \A id \in closing' : id \in created' \union pending_orders' /\ order'[id].lots > 0
  BY DEF CloseInv
<1>. QED BY <1>1, <1>2, <1>3 DEF CloseInv

LEMMA CloseStep == IInv /\ CloseInv /\ [Next]_vars => CloseInv'
<1> SUFFICES ASSUME IInv, CloseInv, [Next]_vars PROVE CloseInv'
  OBVIOUS
<1>0. TypeOK /\ IdsInv /\ PositionIsNet
  BY DEF IInv
<1>1. \A id \in closing : quiet => id \in OrderIds /\ order[id] \in Order
                                    /\ id \in created \union pending_orders
                                    /\ id < next_order_id /\ order[id].lots > 0
  BY <1>0 DEF CloseInv, TypeOK, IdsInv
<1>2. CASE CreateMarketOrder
  <2>1. \A id \in closing : quiet => order'[id] = order[id] /\ id \in created' \union pending_orders'
    BY <1>0, <1>1, <1>2 DEF CreateMarketOrder, TypeOK
  <2>. QED BY <1>0, <1>2, <2>1, CloseKept DEF CreateMarketOrder
<1>3. ASSUME NEW id \in OrderIds, SubmitOrder(id) PROVE CloseInv'
  <2>1. \A k \in closing : quiet =>
           /\ k \in created' \union pending_orders'
           /\ order'[k].symbol = order[k].symbol
           /\ order'[k].side = order[k].side
           /\ order'[k].lots = order[k].lots
    BY <1>0, <1>1, <1>3 DEF SubmitOrder, TypeOK, Order
  <2>. QED BY <1>0, <1>3, <2>1, CloseKept DEF SubmitOrder
<1>4. ASSUME NEW id \in OrderIds, UpdateFromBridge(id) \/ CancelOrder(id) PROVE CloseInv'
  <2>1. PICK st \in Status : order' = [order EXCEPT ![id].status = st]
    BY <1>4, ExecutorAssumption DEF UpdateFromBridge, CancelOrder, Status
  <2>2. \A k \in closing : quiet =>
           /\ k \in created' \union pending_orders'
           /\ order'[k].symbol = order[k].symbol
           /\ order'[k].side = order[k].side
           /\ order'[k].lots = order[k].lots
    BY <1>0, <1>1, <1>4, <2>1 DEF UpdateFromBridge, CancelOrder, TypeOK, Order
  <2>. QED BY <1>0, <1>4, <2>2, CloseKept DEF UpdateFromBridge, CancelOrder
<1>5. CASE CancelAll
  <2>1. \A k \in closing : quiet =>
           /\ k \in created' \union pending_orders'
           /\ order'[k].symbol = order[k].symbol
           /\ order'[k].side = order[k].side
           /\ order'[k].lots = order[k].lots
    BY <1>0, <1>1, <1>5 DEF CancelAll, TypeOK, Order
  <2>. QED BY <1>0, <1>5, <2>1, CloseKept DEF CancelAll
<1>6. ASSUME NEW id \in OrderIds, ProcessFill(id) PROVE CloseInv'
  <2> SUFFICES ASSUME quiet' PROVE CloseInv'
    BY DEF CloseInv
  <2>. DEFINE o == order[id]
  <2>1. quiet /\ id \in closing /\ closing' = closing \ {id}
    BY <1>6 DEF ProcessFill
  <2>2. o \in Order /\ o.lots > 0 /\ o.lots \in Int /\ o.side \in Side /\ o.symbol \in Symbols
    BY <1>1, <2>1 DEF Order
  <2>3. \A k \in closing' : order'[k] = order[k] /\ k \in created' \union pending_orders'
                            /\ order[k].symbol # o.symbol
    BY <1>0, <1>1, <1>6, <2>1 DEF ProcessFill, Book, TypeOK, CloseInv
  <2>4. positions[o.symbol] = [side |-> Opposite(o.side), lots |-> o.lots]
    BY <2>1, <2>2 DEF CloseInv, CloseAllFlattens
  <2>5. UpdatePosition(positions[o.symbol], o.side, o.lots) = NoPosition
    BY <2>2, <2>4 DEF UpdatePosition, Opposite, Side
  <2>6. positions' = [positions EXCEPT ![o.symbol] = NoPosition]
    BY <1>6, <2>5 DEF ProcessFill
  <2>7. CloseAllFlattens'
    <3> SUFFICES ASSUME NEW s \in Symbols
                 PROVE  \/ \E k \in closing' :
                             /\ order'[k].symbol = s
                             /\ positions'[s] = [side |-> Opposite(order'[k].side),
                                                 lots |-> order'[k].lots]
                        \/ positions'[s].lots = 0 /\ \A k \in closing' : order'[k].symbol # s
      BY DEF CloseAllFlattens
    <3>1. CASE s = o.symbol
      BY <1>0, <2>3, <2>6, <3>1 DEF TypeOK, NoPosition
    <3>2. CASE s # o.symbol
      BY <1>0, <2>1, <2>3, <2>6, <3>2 DEF TypeOK, CloseInv, CloseAllFlattens
    <3>. QED BY <3>1, <3>2
  <2>8. \A i, j \in closing' : order'[i].symbol = order'[j].symbol => i = j
    BY <2>1, <2>3 DEF CloseInv
  <2>9. \A k \in closing' : order'[k].lots > 0
    BY <1>1, <2>1, <2>3
  <2>. QED BY <2>3, <2>7, <2>8, <2>9 DEF CloseInv
<1>7. CASE CloseAllPositions
  <2>. DEFINE last == next_order_id + Cardinality(OpenSymbols) - 1
              ids  == next_order_id..last
  <2>1. PICK sym \in [ids -> OpenSymbols] :
          /\ \A s \in OpenSymbols : \E i \in ids : sym[i] = s
          /\ \A i, j \in ids : sym[i] = sym[j] => i = j
          /\ order' = [id \in OrderIds |->
                         IF id \in ids THEN CloseOrder(sym[id]) ELSE order[id]]
    BY <1>7 DEF CloseAllPositions
  <2>2. ids \subseteq OrderIds /\ \A s \in OpenSymbols : CloseOrder(s).lots > 0
    BY <1>7, CloseOrders
  <2>3. /\ closing' = ids /\ created' = created \union ids
        /\ UNCHANGED positions
    BY <1>7 DEF CloseAllPositions
  <2>. HIDE DEF last, ids
  <2>4. \A id \in ids : order'[id] = CloseOrder(sym[id]) /\ sym[id] \in OpenSymbols
    BY <2>1, <2>2
  <2>5. \A s \in OpenSymbols :
          /\ CloseOrder(s).symbol = s /\ CloseOrder(s).lots = positions[s].lots
          /\ Opposite(CloseOrder(s).side) = positions[s].side
          /\ positions[s] = [side |-> Opposite(CloseOrder(s).side),
                             lots |-> CloseOrder(s).lots]
    BY <1>0 DEF CloseOrder, NewOrder, Opposite, OpenSymbols, TypeOK, Position, Side
  <2>6. \A id \in ids : /\ sym[id] \in OpenSymbols /\ order'[id].symbol = sym[id]
                        /\ positions[sym[id]] = [side |-> Opposite(order'[id].side),
                                                 lots |-> order'[id].lots]
    BY <2>4, <2>5
  <2>7. CloseAllFlattens'
    <3> SUFFICES ASSUME NEW s \in Symbols
                 PROVE  \/ \E id \in ids :
                             /\ order'[id].symbol = s
                             /\ positions[s] = [side |-> Opposite(order'[id].side),
                                                lots |-> order'[id].lots]
                        \/ positions[s].lots = 0 /\ \A id \in ids : order'[id].symbol # s
      BY <2>3 DEF CloseAllFlattens
    <3>1. CASE s \in OpenSymbols
      <4>1. PICK id \in ids : sym[id] = s
        BY <2>1, <3>1
      <4>. QED BY <2>6, <4>1
    <3>2. CASE s \notin OpenSymbols
      BY <2>6, <3>2 DEF OpenSymbols
    <3>. QED BY <3>1, <3>2
  <2>8. \A i, j \in closing' : order'[i].symbol = order'[j].symbol => i = j
    <3> SUFFICES ASSUME NEW i \in ids, NEW j \in ids, order'[i].symbol = order'[j].symbol
                 PROVE  i = j
      BY <2>3
    <3>1. sym[i] = sym[j]
      BY <2>6
    <3>. QED BY <2>1, <3>1
  <2>. QED BY <2>2, <2>3, <2>4, <2>7, <2>8 DEF CloseInv
<1>8. CASE UNCHANGED vars
  BY <1>0, <1>1, <1>8, CloseKept DEF vars
<1>. QED
  BY <1>2, <1>3, <1>4, <1>5, <1>6, <1>7, <1>8 DEF Next

\* Once the orders of close_all_positions are filled and no other is, every
\* position is flat.
THEOREM CloseAllCorrect == Spec => []CloseAllFlattens
<1>1. Init => CloseInv
  BY DEF Init, CloseInv
<1>2. CloseInv => CloseAllFlattens
  BY DEF CloseInv, CloseAllFlattens
<1>. QED BY InvInit, InvStep, CloseStep, <1>1, <1>2, PTL DEF Spec
=============================================================================
