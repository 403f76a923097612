---------------------------- MODULE OrderExecutor ----------------------------
(***************************************************************************)
(* OrderExecutor of order_executor.rs: the order book the Rust core keeps  *)
(* of its own.  AppState owns one, and main.rs calls none of its methods   *)
(* (orders go straight to the bridge), so it is modelled by itself, under  *)
(* any caller: an order is created, handed back by value to be submitted,  *)
(* its status is overwritten by the bridge, it may be cancelled, and fills *)
(* arrive in any order, late and twice.                                    *)
(*                                                                         *)
(* Lots are hundredths of a lot.  Prices and profit are left out: no       *)
(* decision here depends on them, and a fill beyond the slippage tolerance *)
(* is logged and booked.                                                   *)
(***************************************************************************)
EXTENDS Integers, FiniteSets

CONSTANTS
  Symbols,    \* symbols of the orders
  LotSizes,   \* lots callers ask for; 0 and less are refused at submission
  Reports,    \* statuses the bridge may report
  MaxOrders   \* bound: orders created in one behaviour

OrderIds == 1..MaxOrders
Side     == {"Buy", "Sell"}
Status   == {"Pending", "Submitted", "PartiallyFilled", "Filled", "Cancelled",
             "Rejected", "Expired"}
Order    == [symbol : Symbols, side : Side, lots : Int, status : Status]
Position == [side : Side, lots : Int]

ASSUME ExecutorAssumption == /\ IsFiniteSet(Symbols)
                             /\ LotSizes \subseteq Int
                             /\ Reports \subseteq Status
                             /\ MaxOrders \in Nat

\* An id that was not created, was refused or has been filled.
NoOrder        == [status |-> "Pending"]
NoPosition     == [side |-> "Buy", lots |-> 0]
Opposite(side) == IF side = "Buy" THEN "Sell" ELSE "Buy"

VARIABLES
  next_order_id,
  created,         \* orders their callers hold and have not submitted
  order,           \* the order of each id that is in use
  pending_orders,  \* ids in the HashMap of pending orders
  fills,           \* how many fills the Vec holds of each order
  positions,       \* the position of each symbol; lots 0 when it has none
  net,             \* history: lots bought less lots sold, by symbol
  closing,         \* history: orders of the last close_all_positions not filled
  quiet            \* history: only those were filled since it was called

vars == <<next_order_id, created, order, pending_orders, fills, positions, net,
          closing, quiet>>

TypeOK ==
  /\ next_order_id \in 1..(MaxOrders + 1)
  /\ created \subseteq OrderIds
  /\ pending_orders \subseteq OrderIds
  /\ order \in [OrderIds -> Order \union {NoOrder}]
  /\ \A id \in created \union pending_orders : order[id] \in Order
  /\ fills \in [OrderIds -> Nat]
  /\ positions \in [Symbols -> Position]
  /\ net \in [Symbols -> Int]
  /\ closing \subseteq OrderIds
  /\ quiet \in BOOLEAN

Init ==
  /\ next_order_id = 1
  /\ created = {} /\ pending_orders = {}
  /\ order = [id \in OrderIds |-> NoOrder]
  /\ fills = [id \in OrderIds |-> 0]
  /\ positions = [s \in Symbols |-> NoPosition]
  /\ net = [s \in Symbols |-> 0]
  /\ closing = {} /\ quiet = FALSE

-----------------------------------------------------------------------------
NewOrder(symbol, side, lots) ==
  [symbol |-> symbol, side |-> side, lots |-> lots, status |-> "Pending"]

CreateMarketOrder ==
  /\ next_order_id <= MaxOrders                                 \* bound
  /\ \E symbol \in Symbols, side \in Side, lots \in LotSizes :
       order' = [order EXCEPT ![next_order_id] = NewOrder(symbol, side, lots)]
  /\ created' = created \union {next_order_id}
  /\ next_order_id' = next_order_id + 1
  /\ UNCHANGED <<pending_orders, fills, positions, net, closing, quiet>>

\* Takes the order by value: it cannot be submitted again, refused or not.
SubmitOrder(id) ==
  /\ id \in created
  /\ created' = created \ {id}
  /\ IF order[id].lots <= 0
     THEN order' = [order EXCEPT ![id] = NoOrder] /\ UNCHANGED pending_orders
     ELSE /\ order' = [order EXCEPT ![id].status = "Submitted"]
          /\ pending_orders' = pending_orders \union {id}
  /\ UNCHANGED <<next_order_id, fills, positions, net, closing, quiet>>

\* Whatever the status, the order stays among the pending ones.
UpdateFromBridge(id) ==
  /\ id \in pending_orders
  /\ \E status \in Reports : order' = [order EXCEPT ![id].status = status]
  /\ UNCHANGED <<next_order_id, created, pending_orders, fills, positions, net,
                 closing, quiet>>

CancelOrder(id) ==
  /\ id \in pending_orders
  /\ order' = [order EXCEPT ![id].status = "Cancelled"]
  /\ UNCHANGED <<next_order_id, created, pending_orders, fills, positions, net,
                 closing, quiet>>

CancelAll ==
  /\ order' = [id \in OrderIds |->
       IF id \in pending_orders THEN [order[id] EXCEPT !.status = "Cancelled"]
                                ELSE order[id]]
  /\ UNCHANGED <<next_order_id, created, pending_orders, fills, positions, net,
                 closing, quiet>>

-----------------------------------------------------------------------------
\* Mutant: a reversal opens the new position in the size of the fill.
ReversalInFull(p, side, lots) ==
  CASE p.lots = 0 \/ p.side = side -> [side |-> side, lots |-> p.lots + lots]
    [] p.lots # 0 /\ p.side # side /\ lots > p.lots -> [side |-> side, lots |-> lots]
    [] p.lots # 0 /\ p.side # side /\ lots = p.lots -> NoPosition
    [] OTHER -> [p EXCEPT !.lots = @ - lots]

\* update_position: add, reverse, close or reduce.
UpdatePosition(p, side, lots) ==
  CASE p.lots = 0 \/ p.side = side -> [side |-> side, lots |-> p.lots + lots]
    [] p.lots # 0 /\ p.side # side /\ lots > p.lots ->
         [side |-> side, lots |-> lots - p.lots]
    [] p.lots # 0 /\ p.side # side /\ lots = p.lots -> NoPosition
    [] OTHER -> [p EXCEPT !.lots = @ - lots]

Signed(side, lots) == IF side = "Buy" THEN lots ELSE -lots

\* Mutant: the order is read and stays pending.
BookAndKeep(id) ==
  /\ pending_orders' = pending_orders
  /\ fills' = [fills EXCEPT ![id] = @ + 1]

\* The order leaves the map and its fill enters the Vec.
Book(id) ==
  /\ pending_orders' = pending_orders \ {id}
  /\ fills' = [fills EXCEPT ![id] = @ + 1]

\* A fill of an order that is not pending is an Err and changes nothing.  The
\* status is not looked at: a cancelled order is filled like any other.
ProcessFill(id) ==
  /\ id \in pending_orders
  /\ Book(id)
  /\ LET o == order[id] IN
       /\ positions' = [positions EXCEPT ![o.symbol] = UpdatePosition(@, o.side, o.lots)]
       /\ net' = [net EXCEPT ![o.symbol] = @ + Signed(o.side, o.lots)]
  /\ order' = [order EXCEPT ![id] = NoOrder]
  /\ closing' = closing \ {id}
  /\ quiet' = (quiet /\ id \in closing)
  /\ UNCHANGED <<next_order_id, created>>

OpenSymbols == {s \in Symbols : positions[s].lots # 0}

\* Mutant: the order is on the side of the position.
CloseSameSide(s) == NewOrder(s, positions[s].side, positions[s].lots)

CloseOrder(s) == NewOrder(s, Opposite(positions[s].side), positions[s].lots)

\* Only creates the orders, one for each position in the order of the HashMap;
\* the caller submits them.
CloseAllPositions ==
  LET last == next_order_id + Cardinality(OpenSymbols) - 1
      ids  == next_order_id..last
  IN  /\ last <= MaxOrders                                       \* bound
      /\ \E sym \in [ids -> OpenSymbols] :
           /\ \A s \in OpenSymbols : \E i \in ids : sym[i] = s
           /\ \A i, j \in ids : sym[i] = sym[j] => i = j
           /\ order' = [id \in OrderIds |->
                IF id \in ids THEN CloseOrder(sym[id]) ELSE order[id]]
      /\ created' = created \union ids
      /\ next_order_id' = last + 1
      /\ closing' = ids
      /\ quiet' = TRUE
      /\ UNCHANGED <<pending_orders, fills, positions, net>>

Next == \/ CreateMarketOrder \/ CancelAll \/ CloseAllPositions
        \/ \E id \in OrderIds : \/ SubmitOrder(id) \/ UpdateFromBridge(id)
                                \/ CancelOrder(id) \/ ProcessFill(id)

Spec == Init /\ [][Next]_vars

-----------------------------------------------------------------------------
(***************************************************************************)
(* Each position is what the fills add up to, through additions, partial   *)
(* closes, closes and reversals, and its size is never negative.           *)
(***************************************************************************)
PositionIsNet ==
  \A s \in Symbols : /\ Signed(positions[s].side, positions[s].lots) = net[s]
                     /\ positions[s].lots >= 0

(***************************************************************************)
(* A fill that is delivered twice is booked once: an order that has been   *)
(* filled is neither pending nor in its caller's hands, whatever the       *)
(* bridge and the cancellations did to it.                                 *)
(***************************************************************************)
FilledOnce ==
  \A id \in OrderIds : /\ fills[id] <= 1
                       /\ fills[id] = 1 => id \notin created \union pending_orders

(***************************************************************************)
(* close_all_positions closes all positions: as long as nothing but its    *)
(* orders is filled after it, each symbol holds exactly what its order     *)
(* will close, and nothing once that order is filled.                      *)
(***************************************************************************)
CloseAllFlattens ==
  quiet => \A s \in Symbols :
    \/ \E id \in closing :
         /\ order[id].symbol = s
         /\ positions[s] = [side |-> Opposite(order[id].side), lots |-> order[id].lots]
    \/ positions[s].lots = 0 /\ \A id \in closing : order[id].symbol # s
=============================================================================
