--------------------------- MODULE FlowGenerator ---------------------------
(***************************************************************************)
(* What the generator of market events (include/lob/sim/flow.hpp, class    *)
(* FlowGenerator) believes rests in the book, and the events it can emit   *)
(* on that belief: its zero-intelligence flow.                             *)
(*                                                                         *)
(* Every random draw is a choice over what it can come out as: the event   *)
(* type, the side, the order, the size, and the price before it is kept    *)
(* off the opposite touch.  The weights, the clock and the drift of the    *)
(* mid only decide how often, so they are left out.                        *)
(*                                                                         *)
(* g is the generator: `live`, the orders it remembers; `next`, the next   *)
(* order id; `touch`, the best prices it was last told (0 for none).       *)
(***************************************************************************)
EXTENDS PriceTimeQueues

CONSTANT FirstId   \* the generator's first order id

NewGenerator == [live |-> {}, next |-> FirstId, touch |-> [sd \in Sides |-> 0]]

IsRemembered(g, id) == \E l \in g.live : l.id = id

Remember(g, l) == [g EXCEPT !.live = @ \cup {l}]
Forget(g, id) == [g EXCEPT !.live = {l \in @ : l.id # id}]

\* price_for: a price through the observed opposite touch is moved next to it.
PriceFor(g, sd, p) ==
  LET opposite == g.touch[Opposite(sd)]
  IN IF opposite = 0 THEN p
     ELSE IF sd = "Bid" /\ p >= opposite THEN opposite - 1
     ELSE IF sd = "Ask" /\ p <= opposite THEN opposite + 1
     ELSE p

Positive == {q \in Qtys : q > 0}

-----------------------------------------------------------------------------
(***************************************************************************)
(* next(): the events of each kind.                                        *)
(***************************************************************************)
Adds(g) ==
  {Event("Add", g.next, g.next, sd, PriceFor(g, sd, p), q) :
     sd \in Sides, p \in Window, q \in Positive}

Deletes(g) == {Event("Delete", l.id, l.id, l.side, l.price, 0) : l \in g.live}

\* Any part of what the order is believed to hold, or all of it.
Takes(g, type) ==
  UNION {{Event(type, l.id, l.id, l.side, l.price, q) : q \in 1 .. l.qty} : l \in g.live}

Replaces(g) ==
  {Event("Replace", l.id, g.next, l.side, PriceFor(g, l.side, p), q) :
     l \in g.live, p \in Window, q \in Positive}

\* While nothing is believed to rest, only an add is drawn.
Aggresses(g) ==
  IF g.live = {} THEN {}
  ELSE {Event("Aggress", g.next, g.next, sd, 0, q) : sd \in Sides, q \in Positive}

\* The prices in reach of the mid are inside the book's window: draws that
\* are moved out of it, at the edge of a small window, are left out.
Drawable(e) == e.type \in {"Add", "Replace"} => e.price \in Window

Draws(g) ==
  {e \in Adds(g) \cup Deletes(g) \cup Takes(g, "Reduce") \cup Takes(g, "Execute")
         \cup Replaces(g) \cup Aggresses(g) : Drawable(e)}

\* The id counter, moved on by the event drawn.
Drew(g, e) == IF e.new = g.next THEN [g EXCEPT !.next = @ + 1] ELSE g

-----------------------------------------------------------------------------
\* A plausible slip: an order reduced or filled is taken to be gone.
OnAppliedForgetsAll(g, e, restingAfter) ==
  CASE e.type = "Add" ->
         Remember(g, [id |-> e.id, qty |-> e.qty, price |-> e.price, side |-> e.side])
    [] e.type \in {"Delete", "Reduce", "Execute"} -> Forget(g, e.id)
    [] e.type = "Replace" ->
         Remember(Forget(g, e.id),
                  [id |-> e.new, qty |-> e.qty, price |-> e.price, side |-> e.side])
    [] e.type = "Clear" -> [g EXCEPT !.live = {}]
    [] e.type = "Aggress" -> g

\* on_applied: the belief after event e, told what rests of order e.id now.
\* Whether the book accepted the event is not asked.
OnApplied(g, e, restingAfter) ==
  CASE e.type = "Add" ->
         Remember(g, [id |-> e.id, qty |-> e.qty, price |-> e.price, side |-> e.side])
    [] e.type = "Delete" -> Forget(g, e.id)
    [] e.type \in {"Reduce", "Execute"} ->
         IF restingAfter <= 0 THEN Forget(g, e.id)
         ELSE [g EXCEPT !.live =
                 {IF l.id = e.id THEN [l EXCEPT !.qty = restingAfter] ELSE l : l \in @}]
    [] e.type = "Replace" ->
         Remember(Forget(g, e.id),
                  [id |-> e.new, qty |-> e.qty, price |-> e.price, side |-> e.side])
    [] e.type = "Clear" -> [g EXCEPT !.live = {}]
    [] e.type = "Aggress" -> g

\* observe: the touch of the book after the event.
Observe(g, b) == [g EXCEPT !.touch = [sd \in Sides |-> Best(b, sd)]]
=============================================================================
