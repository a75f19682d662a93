---------------------------- MODULE MCSynthetic ----------------------------
(***************************************************************************)
(* Instances of Synthetic for TLC: the loop starts on a warm book, with    *)
(* orders at the touch and one far behind it, or on the empty one.         *)
(***************************************************************************)
EXTENDS Synthetic

Live(id, sd, price, qty) == [id |-> id, side |-> sd, price |-> price, qty |-> qty]

WarmStart(orders) ==
  LET b == SX!FoldLeft(LAMBDA r, l : JoinQueue(r, l.id, l.side, l.price, l.qty, FALSE),
                       RefEmpty, orders)
  IN StartsWith([NewReactive EXCEPT !.live = SX!ToSet(orders), !.next = Len(orders) + 1,
                                    !.touch = [sd \in Sides |-> Best(b, sd)]], b)

\* A best queue of one order on each side, and a bid the price has walked past.
WarmInit ==
  WarmStart(<<Live(1, "Bid", StartMid, 2), Live(2, "Ask", StartMid + 1, 1),
              Live(3, "Bid", StartMid - 2, 1)>>)

\* What the last step added to the tables, and what it was, decides nothing.
View == <<gen, book, acc, est.cur, draws, mark>>

WarmSpec == WarmInit /\ [][Next]_vars
=============================================================================
