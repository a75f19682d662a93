------------------------------ MODULE Matching ------------------------------
(***************************************************************************)
(* The matching engine as a state machine: any sequence of limit orders,   *)
(* market orders and cancels, ours or not, under each rule for             *)
(* self-matches.  `call` and `result` describe the last submission.        *)
(***************************************************************************)
EXTENDS Crossing

\* The engine takes the id 0 for that of no order; orders are numbered from one.
ASSUME IdsAssumption == IsFiniteSet(Ids) /\ NoFront \notin Ids
ASSUME InputAssumption == Prices \subseteq Int /\ IsFiniteSet(Prices) /\ Qtys \subseteq Int

VARIABLES
  queues,   \* the book
  smp,      \* the engine's self-match rule, fixed when it is built
  call,     \* the last submission
  result    \* and what it returned, SubmitResult with the fills themselves

vars == <<queues, smp, call, result>>

NoCall == [id |-> NoFront, side |-> "Bid", limit |-> {}, qty |-> 0, mine |-> FALSE,
           rests |-> FALSE]

Init ==
  /\ queues = RefEmpty
  /\ smp \in SelfMatchRules
  /\ call = NoCall
  /\ result = Refused(RefEmpty, "Ok")

Returns(c, r) ==
  /\ call' = c
  /\ result' = r
  /\ queues' = r.book
  /\ UNCHANGED smp

DoSubmitLimit(id, sd, price, qty, mine) ==
  Returns([id |-> id, side |-> sd, limit |-> Limit(sd, price), qty |-> qty, mine |-> mine,
           rests |-> TRUE],
          SubmitLimit(queues, smp, id, sd, price, qty, mine))

DoSubmitMarket(id, sd, qty, mine) ==
  Returns([id |-> id, side |-> sd, limit |-> Prices, qty |-> qty, mine |-> mine,
           rests |-> FALSE],
          SubmitMarket(queues, smp, id, sd, qty, mine))

DoCancel(id) ==
  LET r == Remove(queues, id)
  IN Returns([NoCall EXCEPT !.id = id], Submitted(r.book, <<>>, 0, 0, r.err))

Next ==
  \/ \E id \in Ids, sd \in Sides, price \in Prices, qty \in Qtys, mine \in BOOLEAN :
       DoSubmitLimit(id, sd, price, qty, mine)
  \/ \E id \in Ids, sd \in Sides, qty \in Qtys, mine \in BOOLEAN :
       DoSubmitMarket(id, sd, qty, mine)
  \/ \E id \in Ids : DoCancel(id)

Spec == Init /\ [][Next]_vars

-----------------------------------------------------------------------------
(***************************************************************************)
(* Properties.                                                             *)
(***************************************************************************)

SumOver(S, f) == SX!SumFunctionOnSet(f, S)

\* Order x has price-time priority over order y, resting on the same side of b.
HasPriority(b, x, y) ==
  LET sd == Where(b, x)[1]  px == Where(b, x)[2]  py == Where(b, y)[2]
  IN /\ Where(b, y)[1] = sd
     /\ \/ IF sd = "Bid" THEN px > py ELSE px < py
        \/ px = py /\ Place(b, x) < Place(b, y)

\* The orders of b that submission c may meet, and those of them it would
\* have to trade with itself for.
Reached(b, c) ==
  {x \in LiveOrders(b) : Where(b, x)[1] = Opposite(c.side) /\ Where(b, x)[2] \in c.limit}
Itself(b, c) == {x \in Reached(b, c) : c.mine /\ EntryOf(b, x).mine}

\* What the rule on self-matches leaves to trade with: everything, everything
\* that is not ours, or everything with priority over the first that is ours.
Tradeable(b, c) ==
  IF smp = "Allow" THEN Reached(b, c)
  ELSE IF smp = "CancelResting" THEN Reached(b, c) \ Itself(b, c)
  ELSE {x \in Reached(b, c) \ Itself(b, c) : \A y \in Itself(b, c) : HasPriority(b, x, y)}

Sizes(b) == [y \in LiveOrders(b) |-> QtyOf(b, y)]

InFront(b, c, x) == SumOver({y \in Tradeable(b, c) : HasPriority(b, y, x)}, Sizes(b))

\* The share of order x by price-time priority, in closed form: what is left
\* of the incoming quantity after everything in front of x, up to its size.
Share(b, c, x) ==
  LET left == c.qty - InFront(b, c, x)
  IN IF x \notin Tradeable(b, c) \/ left <= 0 THEN 0 ELSE Lesser(left, QtyOf(b, x))

Taken(r) == [k \in DOMAIN r.fills |-> r.fills[k].qty]

TradedBy(r, x) == SumOver({k \in DOMAIN r.fills : r.fills[k].resting = x}, Taken(r))

\* Every resting order trades its share, at its price, in the order of priority.
PriceTime(b, c, r) ==
  c.qty > 0 =>
    /\ \A x \in LiveOrders(b) : TradedBy(r, x) = Share(b, c, x)
    /\ \A k \in DOMAIN r.fills : r.fills[k].price = Where(b, r.fills[k].resting)[2]
    /\ \A k \in 2 .. Len(r.fills) : HasPriority(b, r.fills[k - 1].resting, r.fills[k].resting)

\* What the submission makes of book b is book d.
Conserves(b, c, r, d) ==
  c.limit # {} =>
    /\ \A x \in LiveOrders(b) \ {c.id} :
         \/ QtyOf(d, x) = QtyOf(b, x) - TradedBy(r, x)
         \/ x \in LiveOrders(b) \ LiveOrders(d) /\ x \in Itself(b, c) /\ smp = "CancelResting"
    /\ LiveOrders(d) \subseteq LiveOrders(b) \cup {c.id}
    /\ r.filled = SumOver(DOMAIN r.fills, Taken(r))
    /\ r.error = "Ok" /\ c.rests => r.filled + r.resting = c.qty
    /\ r.resting > 0 => QtyOf(d, c.id) = r.resting
    /\ r.error # "Ok" => QtyOf(d, c.id) <= QtyOf(b, c.id)

KeepsApart(b, c, r, d) ==
  c.limit # {} /\ smp # "Allow" =>
    /\ \A k \in DOMAIN r.fills : ~(r.fills[k].restingMine /\ r.fills[k].aggressorMine)
    /\ \A x \in LiveOrders(b) \ LiveOrders(d) : TradedBy(r, x) = 0 => InFront(b, c, x) < c.qty

\* Price-time priority: whatever the depth swept, the sizes met and the orders
\* prevented on the way, every resting order trades exactly its share, at the
\* price it rests at, and the fills are reported in the order of priority
\* (include/lob/sim/matching.hpp:140).
FillsArePriceTime == [][PriceTime(queues, call', result')]_vars

\* Conservation: a submission changes no resting order but by the fills that
\* name it, or by preventing a self-match; what it returns adds up; and an
\* order that is refused, by whatever check, leaves nothing behind
\* (include/lob/sim/matching.hpp:80).
NothingLostOrMade == [][Conserves(queues, call', result', queues')]_vars

\* Self-match prevention holds along the whole sweep: our orders never trade
\* with each other, and an order of ours is cancelled only when the incoming
\* order really reached it: everything in front of it was used up
\* (include/lob/sim/matching.hpp:168).
NeverTradesWithItself == [][KeepsApart(queues, call', result', queues')]_vars

=============================================================================
