----------------------------- MODULE Accumulator -----------------------------
(***************************************************************************)
(* The Accumulator of apps/stats/main.cpp: the orders it follows from when *)
(* they join the book, and the rows of orders.csv it writes when they      *)
(* leave.  An accumulator is a record of the two.  Times, distances and    *)
(* depth profiles are left out.                                            *)
(***************************************************************************)
EXTENDS PriceTimeQueues

\* An order that is followed, and one that is not.
Rec(size, filled) == [size |-> size, filled |-> filled]
NoRec == Rec(0, 0)

NewAccumulator == [live |-> [id \in Ids |-> NoRec], rows |-> {}]

\* A row of orders.csv.
Row(id, rec) == [id |-> id, size |-> rec.size, filled |-> rec.filled]

\* before_apply: an order that joins a two-sided book is followed.
BeforeApply(a, b, e) ==
  IF e.type = "Add" /\ HasBest(b, "Bid") /\ HasBest(b, "Ask")
  THEN [a EXCEPT !.live[e.id] = Rec(e.qty, 0)] ELSE a

\* close, and the erase that goes with it.
Close(a, id) ==
  [a EXCEPT !.rows = @ \cup {Row(id, a.live[id])}, !.live[id] = NoRec]

Credit(a, id, qty) == [a EXCEPT !.live[id].filled = @ + qty]

\* A plausible slip: every reduction of an order closes its row.
CloseOnReduce(a, b, e) ==
  IF a.live[e.id] = NoRec THEN a
  ELSE IF e.type = "Execute" THEN Credit(a, e.id, e.qty)
  ELSE IF e.type \in {"Delete", "Reduce"} THEN Close(a, e.id) ELSE a
\* after_apply, on the book the event has been applied to.
AfterApply(a, b, e) ==
  IF a.live[e.id] = NoRec THEN a
  ELSE IF e.type = "Execute" THEN Credit(a, e.id, e.qty)
  ELSE IF e.type = "Delete" \/ (e.type = "Reduce" /\ QtyOf(b, e.id) = 0) THEN Close(a, e.id)
  ELSE a

\* A plausible slip: the row of an order that is used up lacks its last fill.
CloseFirst(a, id, qty, gone) ==
  IF a.live[id] = NoRec THEN a ELSE IF gone THEN Close(a, id) ELSE Credit(a, id, qty)
\* on_consumed: the matching engine took qty of the order.
OnConsumed(a, id, qty, gone) ==
  IF a.live[id] = NoRec THEN a
  ELSE IF gone THEN Close(Credit(a, id, qty), id) ELSE Credit(a, id, qty)

\* on_session_reset: the fate of what was followed is unknown.
OnSessionReset(a) == [a EXCEPT !.live = NewAccumulator.live]
=============================================================================
