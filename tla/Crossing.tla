------------------------------ MODULE Crossing ------------------------------
(***************************************************************************)
(* The rules of the matching engine, include/lob/sim/matching.hpp, on the  *)
(* queues of the order book: an incoming order takes the front of the best *)
(* opposite level, again and again, until it is filled, nothing is left    *)
(* that it may trade with, or self-match prevention stops it.              *)
(*                                                                         *)
(* A limit is the set of prices it lets the order trade at, so a market    *)
(* order is one whose limit is every price.  The window of the fill log is *)
(* in FillWindow.                                                          *)
(***************************************************************************)
EXTENDS PriceTimeQueues

SelfMatchRules == {"Allow", "CancelResting", "CancelIncoming"}

NoFront == 0     \* what front_order_at returns for an empty level

Lesser(m, n) == IF m <= n THEN m ELSE n

\* A buy trades with asks at or below its limit, a sell with bids at or above.
Limit(sd, price) == {p \in Prices : IF sd = "Bid" THEN p <= price ELSE p >= price}

\* A plausible slip: the queue is served from its back.
BackEntry(q) == q[Len(q)]
FrontEntry(q) == Head(q)

-----------------------------------------------------------------------------
(***************************************************************************)
(* cross().  m is the matching in progress: the book, what is left of the  *)
(* incoming order, and its fills so far.                                   *)
(***************************************************************************)
Matched(b, left, fills) == [book |-> b, left |-> left, fills |-> fills]

Take(left, avail) == Lesser(left, avail)

TradeWith(m, front, price, id, sd, mine) ==
  LET take == Take(m.left, front.qty)
  IN Matched(Execute(m.book, front.id, take).book,
             m.left - take,
             Append(m.fills, [resting |-> front.id, aggressor |-> id, price |-> price,
                              qty |-> take, side |-> Opposite(sd),
                              restingMine |-> front.mine, aggressorMine |-> mine]))

\* A plausible slip: the flag of the incoming order is not passed down.
MeetsNobody(front, mine) == FALSE
MeetsItself(front, mine) == mine /\ front.mine

\* One turn of the loop; it changes nothing when the loop is over.  An order
\* whose id is the value front_order_at returns for "none" stops it as well.
CrossStep(m, smp, id, sd, limit, mine) ==
  LET other == Opposite(sd)
      price == Best(m.book, other)
      front == FrontEntry(m.book[other][price])
  IN IF m.left = 0 \/ ~HasBest(m.book, other) THEN m
     ELSE IF price \notin limit \/ front.id = NoFront THEN m
     ELSE IF MeetsItself(front, mine) /\ smp = "CancelResting"
       THEN [m EXCEPT !.book = Remove(m.book, front.id).book]
     ELSE IF MeetsItself(front, mine) /\ smp = "CancelIncoming" THEN m
     ELSE TradeWith(m, front, price, id, sd, mine)

\* Every turn but the last uses up a resting order, so there are no more
\* turns than the book has room for orders.
Cross(b, smp, id, sd, limit, qty, mine) ==
  LET after[n \in 0 .. MaxOrders] ==
        IF n = 0 THEN Matched(b, qty, <<>>)
        ELSE CrossStep(after[n - 1], smp, id, sd, limit, mine)
  IN after[MaxOrders]

-----------------------------------------------------------------------------
Submitted(b, fills, filled, resting, e) ==
  [book |-> b, fills |-> fills, filled |-> filled, resting |-> resting, error |-> e]

Refused(b, e) == Submitted(b, <<>>, 0, 0, e)

\* A plausible slip: the whole order joins the book, not what is left of it.
RestAll(m, qty) == qty
Remainder(m, qty) == m.left

SubmitLimit(b, smp, id, sd, price, qty, mine) ==
  IF qty <= 0 THEN Refused(b, "BadQuantity")
  ELSE LET m == Cross(b, smp, id, sd, Limit(sd, price), qty, mine)
           r == Add(m.book, id, sd, price, Remainder(m, qty), mine)
       IN IF m.left = 0 THEN Submitted(m.book, m.fills, qty, 0, "Ok")
          ELSE Submitted(r.book, m.fills, qty - m.left,
                         IF r.err = "Ok" THEN m.left ELSE 0, r.err)

\* What a market order does not fill is lost.
SubmitMarket(b, smp, id, sd, qty, mine) ==
  IF qty <= 0 THEN Refused(b, "BadQuantity")
  ELSE LET m == Cross(b, smp, id, sd, Prices, qty, mine)
       IN Submitted(m.book, m.fills, qty - m.left, 0, "Ok")
=============================================================================
