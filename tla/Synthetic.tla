------------------------------ MODULE Synthetic ------------------------------
(***************************************************************************)
(* apps/stats measuring the simulator's own flow: the queue-reactive       *)
(* generator, the book and the matching engine it drives, the Accumulator  *)
(* and the estimator that measure the book, and the generator told what    *)
(* became of its event.  One step is one turn of that loop, after the      *)
(* warm-up.                                                                *)
(***************************************************************************)
EXTENDS QueueReactiveFlow, Crossing, Accumulator, QueueReactiveEstimator

CONSTANT MaxDraws    \* bound on the turns of the loop that draw an event

VARIABLES
  gen,     \* the generator
  book,    \* the exchange's book
  acc,     \* the Accumulator
  est,     \* the estimator
  draws,   \* events drawn so far
  last,    \* the last event, where it came from and what the book said to it
  mark     \* the first id drawn by the last redrawing of the book

vars == <<gen, book, acc, est, draws, last, mark>>

NoneYet == [type |-> "none", redrawn |-> FALSE, err |-> "Ok", stood |-> {}]

StartsWith(g, b) ==
  /\ gen = g /\ book = b /\ acc = NewAccumulator /\ est = NewEstimator
  /\ draws = 0 /\ last = NoneYet /\ mark = FirstId

Init == StartsWith(NewReactive, RefEmpty)

\* The states the queues are in, when both sides have a touch.
StatesOf(b) ==
  IF ~TwoSided(b) THEN {}
  ELSE {In(sd, level, StateOf(b, sd, level)) : sd \in Sides, level \in TouchLevels}

\* The generator's queues stay inside the book's window.
InReach(g) == \A sd \in Sides, level \in QueueIndex : QueuePrice(g, sd, level) \in Window

\* What is remembered of a turn: the event, whether it is of a redrawn book, what
\* the book said to it, and the states the queues were in until then.
Remembered(type, err) ==
  [type |-> type, redrawn |-> gen.pending # <<>>, err |-> err,
   stood |-> IF draws = 0 THEN {} ELSE StatesOf(book)]

\* What every turn does, whatever the event: the next one is drawn, and at the
\* end the generator hears of the book.
Turn(d, b, g, err) ==
  /\ (gen.pending # <<>> \/ draws < MaxDraws) /\ InReach(d.gen) /\ d.gen.next <= SX!Max(Ids) + 1
  /\ book' = b /\ draws' = IF gen.pending = <<>> THEN draws + 1 ELSE draws
  /\ gen' = Observe(OnApplied(g, d.event, QtyOf(b, d.event.id)), b)
  /\ last' = Remembered(d.event.type, err)
  /\ mark' = IF gen.pending = <<>> /\ d.gen.pending # <<>> THEN gen.next ELSE mark

\* Plausible slips: every order that traded is forgotten, or none is.
ForgetTraded(g, b, fills) == SX!FoldLeft(LAMBDA h, f : Forget(h, f.resting), g, fills)
\* The generator is told of the orders a market order used up.
ForgetUsedUp(g, b, fills) ==
  SX!FoldLeft(LAMBDA h, f : IF QtyOf(b, f.resting) = 0 THEN Forget(h, f.resting) ELSE h, g, fills)

Measured(q, before, e, after) == OnState(OnEvent(q, before, e), after)

\* What the estimator is shown of a market order: one execution at the touch it
\* found, if there was one.
AsTrade(e) ==
  LET hit == Opposite(e.side)
  IN IF HasBest(book, hit) THEN Event("Execute", e.id, e.id, hit, Best(book, hit), e.qty) ELSE e

\* A market order goes through the matching engine.
MarketOrder(d) ==
  LET e == d.event
      m == SubmitMarket(book, "Allow", e.id, e.side, e.qty, FALSE)
      Consumed(a, f) == OnConsumed(a, f.resting, f.qty, QtyOf(m.book, f.resting) = 0)
  IN /\ e.type = "Aggress"
     /\ Turn(d, m.book, ForgetUsedUp(d.gen, m.book, m.fills), "Ok")
     /\ acc' = SX!FoldLeft(Consumed, acc, m.fills)
     /\ est' = Measured(est, book, AsTrade(e), m.book)

\* Any other event is a change of the book.
BookChange(d) ==
  LET e == d.event
      r == Apply(book, e)
  IN /\ e.type # "Aggress"
     /\ Turn(d, r.book, d.gen, r.err)
     /\ acc' = AfterApply(BeforeApply(acc, book, e), r.book, e)
     /\ est' = Measured(est, book, e, r.book)

Next ==
  \/ \E d \in Nexts(gen) : MarketOrder(d)
  \/ \E d \in Nexts(gen) : BookChange(d)

Spec == Init /\ [][Next]_vars

-----------------------------------------------------------------------------
(***************************************************************************)
(* Properties.                                                             *)
(***************************************************************************)

\* What the generator believes to rest is what rests, order for order and where
\* it stands; of a size it may believe too much, never too little
\* (include/lob/sim/flow.hpp:953).  As long as the reference price moves only
\* where the book pulls it, the orders of the two sides stay on their own side
\* of it, whatever is taken, cancelled or redrawn (include/lob/sim/flow.hpp:1363).
BeliefIsTheBook ==
  ~DriftProb =>
    /\ {l.id : l \in gen.live} = LiveOrders(book)
    /\ \A l \in gen.live :
         /\ IsAt(book, l.id, l.side, l.price) /\ l.qty >= QtyOf(book, l.id)
         /\ IF l.side = "Bid" THEN l.price <= gen.mid ELSE l.price > gen.mid

\* When a redrawn book has been handed out, nothing is left of the one before
\* (include/lob/sim/flow.hpp:1155).  The book refuses nothing the generator has
\* just drawn, and of a redrawn book only deletes, of orders that were taken or
\* cancelled by the event drawn with it (include/lob/sim/flow.hpp:891).
RedrawingReplacesTheBook ==
  /\ [](gen.pending = <<>> => \A id \in LiveOrders(book) : id >= mark \/ mark = FirstId)
  /\ [][~DriftProb /\ last'.err # "Ok" => last'.redrawn /\ last'.type = "Delete"]_vars

\* orders.csv on the simulator's flow: an order that is followed rests with what
\* it has not filled, and one that a market order uses up gets a row that says it
\* was filled whole (apps/stats/main.cpp:100).
Followed(a) == {id \in Ids : a.live[id] # NoRec}
RowsAreExact ==
  /\ [](\A id \in Followed(acc) : acc.live[id].size - acc.live[id].filled = QtyOf(book, id))
  /\ [][\A id \in Followed(acc) :
          id \notin LiveOrders(book') =>
            Row(id, Rec(acc.live[id].size,
                        IF last'.type = "Aggress" THEN acc.live[id].size ELSE acc.live[id].filled))
              \in acc'.rows]_vars

\* Between two events that leave the book with both its sides, time is given to
\* the states the queues were in; and an event is counted for the states last
\* seen.  What empties a side or fills it again is outside this claim: there it
\* fails, as TimeIsChargedWhereSpent shows
\* (include/lob/feat/queue_reactive.hpp:148).
ExposureIsCharged ==
  [][/\ TwoSided(book) /\ TwoSided(book') => est'.charged = last'.stood
     /\ draws > 0 => \A c \in est'.counted : est.cur[c.side][c.level] = c.state]_vars

\* The estimator "accumulates the TIME the queue spent in that state", and leaves
\* none out (include/lob/feat/queue_reactive.hpp:11): every stretch goes to the
\* states of the queues during it, and none to a state they were not in.
TimeIsChargedWhereSpent == est.charged = last.stood
=============================================================================
