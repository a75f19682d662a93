--------------------------- MODULE ReferenceBook ---------------------------
(***************************************************************************)
(* The naive book of include/lob/book/reference_book.hpp, the oracle of    *)
(* the differential test: a FIFO of entries per price and side, no price   *)
(* window and no limit on the number of orders.                            *)
(*                                                                         *)
(* A book is a function from side and price to a sequence of entries; the  *)
(* id index of the code is the set of ids that occur in it.                *)
(***************************************************************************)
EXTENDS Integers, Sequences, FiniteSets
SX == INSTANCE SequencesExt

CONSTANTS
  Ids,      \* order ids
  Prices,   \* every price a caller names
  Qtys      \* every quantity a caller names

Sides == {"Bid", "Ask"}
Opposite(sd) == IF sd = "Bid" THEN "Ask" ELSE "Bid"

Entry == [id : Ids, qty : Int, mine : BOOLEAN]
RefBook == [Sides -> [Prices -> Seq(Entry)]]
RefEmpty == [sd \in Sides |-> [p \in Prices |-> <<>>]]

Result(b, e) == [book |-> b, err |-> e]

-----------------------------------------------------------------------------
IdsIn(q) == {q[i].id : i \in DOMAIN q}
IsAt(b, id, sd, p) == id \in IdsIn(b[sd][p])
Known(b, id) == \E sd \in Sides, p \in Prices : IsAt(b, id, sd, p)

\* find_entry: where the order rests, and its place in that queue.
Where(b, id) ==
  CHOOSE w \in Sides \X Prices : IsAt(b, id, w[1], w[2])
Queue(b, id) == b[Where(b, id)[1]][Where(b, id)[2]]
Place(b, id) == CHOOSE i \in DOMAIN Queue(b, id) : Queue(b, id)[i].id = id
EntryOf(b, id) == Queue(b, id)[Place(b, id)]

Occupied(b, sd) == {p \in Prices : b[sd][p] # <<>>}
HasBest(b, sd) == Occupied(b, sd) # {}
Best(b, sd) ==
  IF ~HasBest(b, sd) THEN 0 ELSE
  CHOOSE p \in Occupied(b, sd) :
    \A r \in Occupied(b, sd) : IF sd = "Bid" THEN r <= p ELSE r >= p

Crosses(b, sd, price) ==
  /\ HasBest(b, Opposite(sd))
  /\ IF sd = "Bid" THEN price >= Best(b, "Ask") ELSE price <= Best(b, "Bid")

-----------------------------------------------------------------------------
\* The queue of order `id` becomes q.
WithQueue(b, id, q) == [b EXCEPT ![Where(b, id)[1]][Where(b, id)[2]] = q]

JoinQueue(b, id, sd, price, qty, mine) ==
  [b EXCEPT ![sd][price] = Append(@, [id |-> id, qty |-> qty, mine |-> mine])]

\* A plausible slip: the id is not looked up.
RefAddWithoutLookup(b, id, sd, price, qty, mine) ==
  IF qty <= 0 THEN Result(b, "BadQuantity")
  ELSE IF Crosses(b, sd, price) THEN Result(b, "CrossedBook")
  ELSE Result(JoinQueue(b, id, sd, price, qty, mine), "Ok")

RefAdd(b, id, sd, price, qty, mine) ==
  IF qty <= 0 THEN Result(b, "BadQuantity")
  ELSE IF Known(b, id) THEN Result(b, "DuplicateOrder")
  ELSE IF Crosses(b, sd, price) THEN Result(b, "CrossedBook")
  ELSE Result(JoinQueue(b, id, sd, price, qty, mine), "Ok")

Remove(b, id) ==
  IF ~Known(b, id) THEN Result(b, "UnknownOrder")
  ELSE Result(WithQueue(b, id, SX!RemoveAt(Queue(b, id), Place(b, id))), "Ok")

Reduce(b, id, by) ==
  IF ~Known(b, id) THEN Result(b, "UnknownOrder")
  ELSE IF by <= 0 \/ by > EntryOf(b, id).qty THEN Result(b, "BadQuantity")
  ELSE IF by = EntryOf(b, id).qty THEN Remove(b, id)
  ELSE Result(WithQueue(b, id, [Queue(b, id) EXCEPT ![Place(b, id)].qty = @ - by]), "Ok")

Execute(b, id, qty) == Reduce(b, id, qty)

RefReplace(b, old, new, price, qty) ==
  IF ~Known(b, old) THEN Result(b, "UnknownOrder")
  ELSE RefAdd(Remove(b, old).book, new, Where(b, old)[1], price, qty, EntryOf(b, old).mine)

-----------------------------------------------------------------------------
QtySum(q) == SX!FoldLeft(LAMBDA n, e : n + e.qty, 0, q)
QtyAt(b, sd, price) == QtySum(b[sd][price])
OrdersAt(b, sd, price) == Len(b[sd][price])
QtyOf(b, id) == IF Known(b, id) THEN EntryOf(b, id).qty ELSE 0
QueueAhead(b, id) ==
  IF Known(b, id) THEN QtySum(SubSeq(Queue(b, id), 1, Place(b, id) - 1)) ELSE -1
LiveOrders(b) == {id \in Ids : Known(b, id)}
=============================================================================
