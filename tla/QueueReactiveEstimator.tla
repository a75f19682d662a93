----------------------- MODULE QueueReactiveEstimator -----------------------
(***************************************************************************)
(* include/lob/feat/queue_reactive.hpp: events counted, and time accrued,  *)
(* by the state of the queue they happen in.                               *)
(*                                                                         *)
(* The tables are sums.  What is kept of them is the last thing added: q   *)
(* has `cur`, the state each queue was last seen in; `charged`, the queues *)
(* and states that on_state last gave the time since it was called before; *)
(* `counted`, those on_event last counted an event for.  A state is what   *)
(* its bucket is computed from: the size of the queue, its orders, and the *)
(* size of the opposite best queue.                                        *)
(***************************************************************************)
EXTENDS PriceTimeQueues

CONSTANT EstimatorLevels    \* kLevels of the estimator, counted from the touch

ASSUME EstimatorAssumption == EstimatorLevels \in Nat \ {0}

TouchLevels == 0 .. EstimatorLevels - 1
TwoSided(b) == HasBest(b, "Bid") /\ HasBest(b, "Ask")

State(qty, orders, opposite) == [qty |-> qty, orders |-> orders, opposite |-> opposite]
NotSeen == State(-1, -1, -1)

PriceAt(b, sd, level) == IF sd = "Bid" THEN Best(b, sd) - level ELSE Best(b, sd) + level

\* qbucket, bucket and opp_bucket: where a queue of book b stands.
StateOf(b, sd, level) ==
  LET p == PriceAt(b, sd, level)
      other == QtyAt(b, Opposite(sd), Best(b, Opposite(sd)))
  IN IF p \in Prices THEN State(QtyAt(b, sd, p), OrdersAt(b, sd, p), other)
     ELSE State(0, 0, other)

NewEstimator ==
  [cur |-> [sd \in Sides |-> [level \in TouchLevels |-> NotSeen]],
   charged |-> {}, counted |-> {}]

In(sd, level, state) == [side |-> sd, level |-> level, state |-> state]

\* on_event, before the event is applied: which queue it finds, and how.
OnEvent(q, b, e) ==
  LET level == IF e.side = "Bid" THEN Best(b, "Bid") - e.price ELSE e.price - Best(b, "Ask")
  IN [q EXCEPT !.counted =
        IF TwoSided(b) /\ level \in TouchLevels /\ e.type \notin {"Clear", "Aggress"}
        THEN {In(e.side, level, StateOf(b, e.side, level))} ELSE {}]

\* A plausible slip: the time goes to the state the event left behind.
ChargeNew(q, b) ==
  IF ~TwoSided(b) THEN [q EXCEPT !.charged = {}]
  ELSE LET new == [sd \in Sides |-> [level \in TouchLevels |-> StateOf(b, sd, level)]]
       IN [q EXCEPT !.cur = new,
                    !.charged = {In(sd, level, new[sd][level]) : sd \in Sides, level \in TouchLevels}]
\* on_state, after the event: the time since the last call goes to the states
\* last seen.  On a book with an empty side nothing is charged and nothing seen:
\* the stretch that ends there is dropped, and the next one, spent with a side
\* empty, goes to the states of before.
OnState(q, b) ==
  IF ~TwoSided(b) THEN [q EXCEPT !.charged = {}]
  ELSE [q EXCEPT
          !.charged = {In(sd, level, q.cur[sd][level]) : sd \in Sides, level \in TouchLevels}
                        \ {In(sd, level, NotSeen) : sd \in Sides, level \in TouchLevels},
          !.cur = [sd \in Sides |-> [level \in TouchLevels |-> StateOf(b, sd, level)]]]
=============================================================================
