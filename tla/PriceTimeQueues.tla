-------------------------- MODULE PriceTimeQueues --------------------------
(***************************************************************************)
(* The order book as its callers may think of it: the queues of            *)
(* ReferenceBook inside a price window and under a limit on the number of  *)
(* orders, with the checks of OrderBook::add in the order it makes them.   *)
(* PriceTimeBook is the state machine over these operators, and the        *)
(* matching engine and the simulator are built on them.                    *)
(***************************************************************************)
EXTENDS ReferenceBook

CONSTANTS
  MaxOrders,   \* size of the order pool
  Window       \* the prices inside the book's window

ASSUME WindowAssumption == Window \subseteq Prices
ASSUME MaxOrdersAssumption == MaxOrders \in Nat

Full(b) == Cardinality(LiveOrders(b)) >= MaxOrders

\* OrderBook::add, the checks in the order the code makes them.
Add(b, id, sd, price, qty, mine) ==
  IF qty <= 0 THEN Result(b, "BadQuantity")
  ELSE IF price \notin Window THEN Result(b, "PriceOutOfWindow")
  ELSE IF Full(b) THEN Result(b, "PoolExhausted")
  ELSE IF Crosses(b, sd, price) THEN Result(b, "CrossedBook")
  ELSE IF Known(b, id) THEN Result(b, "DuplicateOrder")
  ELSE Result(JoinQueue(b, id, sd, price, qty, mine), "Ok")

Replace(b, old, new, price, qty) ==
  IF ~Known(b, old) THEN Result(b, "UnknownOrder")
  ELSE Add(Remove(b, old).book, new, Where(b, old)[1], price, qty, EntryOf(b, old).mine)

IsMine(b, id) == Known(b, id) /\ EntryOf(b, id).mine

-----------------------------------------------------------------------------
\* A feed event.  Aggress is an order arriving at the exchange, not a change
\* of the book: it goes through the matching engine.
EventTypes == {"Add", "Reduce", "Delete", "Execute", "Replace", "Clear", "Aggress"}

Event(type, id, new, sd, price, qty) ==
  [type |-> type, id |-> id, new |-> new, side |-> sd, price |-> price, qty |-> qty]

\* OrderBook::apply: an event is applied as an order that is not ours.
Apply(b, e) ==
  CASE e.type = "Add" -> Add(b, e.id, e.side, e.price, e.qty, FALSE)
    [] e.type = "Reduce" -> Reduce(b, e.id, e.qty)
    [] e.type = "Delete" -> Remove(b, e.id)
    [] e.type = "Execute" -> Execute(b, e.id, e.qty)
    [] e.type = "Replace" -> Replace(b, e.id, e.new, e.price, e.qty)
    [] e.type = "Clear" -> Result(RefEmpty, "Ok")
    [] e.type = "Aggress" -> Result(b, "Ok")
=============================================================================
