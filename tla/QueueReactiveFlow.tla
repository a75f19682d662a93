-------------------------- MODULE QueueReactiveFlow --------------------------
(***************************************************************************)
(* The queue-reactive flow of include/lob/sim/flow.hpp: events drawn from  *)
(* queues that sit at fixed distances from a reference price, which moves  *)
(* when the best queue of one side empties, and may have the whole book    *)
(* redrawn around it.                                                      *)
(*                                                                         *)
(* The intensities only decide how often.  With the rates of the code an   *)
(* add is always possible, a cancel in any queue that holds an order, a    *)
(* trade in the best queue of a side.  Sizes are drawn from a small set.   *)
(*                                                                         *)
(* Besides what FlowGenerator keeps, g has `mid`, the reference price;     *)
(* `pending`, the events of a redrawn book not handed out yet; `meta`, the *)
(* side the current metaorder takes and how many children it has left.     *)
(***************************************************************************)
EXTENDS FlowGenerator

CONSTANTS
  StartMid,      \* cfg.mid
  QueueLevels,   \* kLevels, the modelled queues of each side
  RefillCap,     \* bound on the orders drawn for a queue of a redrawn book
  RefillSizes,   \* and on their sizes
  MetaCap,       \* bound on the children of a metaorder
  DriftProb,     \* whether drift_prob is positive
  ThetaReinit    \* whether theta_reinit is positive

ASSUME ReactiveAssumption ==
  /\ StartMid \in Int /\ QueueLevels \in Nat \ {0} /\ RefillCap \in Nat /\ RefillSizes \subseteq Qtys \ {0} /\ MetaCap \in Nat
  /\ DriftProb \in BOOLEAN /\ ThetaReinit \in BOOLEAN

QueueIndex == 0 .. QueueLevels - 1
NoMeta == [side |-> "Bid", left |-> 0]

NewReactive ==
  [live |-> {}, next |-> FirstId, touch |-> [sd \in Sides |-> 0],
   mid |-> StartMid, pending |-> <<>>, meta |-> NoMeta]

-----------------------------------------------------------------------------
\* queue_price: one tick apart either side of the reference price.
QueuePrice(g, sd, level) == IF sd = "Bid" THEN g.mid - level ELSE g.mid + 1 + level

\* The level an order stands at; none of the modelled ones if it is negative or
\* too far.
LevelOf(g, l) == IF l.side = "Bid" THEN g.mid - l.price ELSE l.price - (g.mid + 1)

\* queue_state: who stands in a queue, and who is stranded outside all of them.
InQueue(g, sd, level) == {l \in g.live : l.side = sd /\ LevelOf(g, l) = level}
Stranded(g, sd) == {l \in g.live : l.side = sd /\ LevelOf(g, l) \notin QueueIndex}

BestQueueEmpty(g, sd) == InQueue(g, sd, 0) = {}

\* best_live_price, when there is one.
LivePrices(g, sd) == {l.price : l \in {k \in g.live : k.side = sd}}
BestLivePrice(g, sd) == IF sd = "Bid" THEN SX!Max(LivePrices(g, sd)) ELSE SX!Min(LivePrices(g, sd))

\* Where the reference price goes when side sd has nothing at its best queue:
\* onto its best order, or one tick where there is none in that direction.
PulledTo(g, sd) ==
  LET tick == IF sd = "Bid" THEN g.mid - 1 ELSE g.mid + 1
      want == IF LivePrices(g, sd) = {} THEN tick
              ELSE IF sd = "Bid" THEN BestLivePrice(g, sd) ELSE BestLivePrice(g, sd) - 1
  IN IF sd = "Bid" THEN IF want < g.mid THEN want ELSE tick
                   ELSE IF want > g.mid THEN want ELSE tick

-----------------------------------------------------------------------------
\* A plausible slip: only the orders of the modelled queues are cancelled.
OnlyModelled(g) == {l \in g.live : LevelOf(g, l) \in QueueIndex}
\* What a redrawing cancels: the whole book, the stranded orders included.
Cleared(g) == g.live

\* The deletes, here in the order of the ids.
DeletesOf(orders, next) ==
  LET Delete(l) == Event("Delete", l.id, l.id, l.side, l.price, 0)
  IN SX!FoldLeft(LAMBDA out, id : out \o SX!SetToSeq({Delete(l) : l \in {k \in orders : k.id = id}}),
                 <<>>, [i \in 1 .. next - 1 |-> i])

\* The orders drawn for a redrawn book, level after level: the n-th of them
\* gets the n-th fresh id.
Refills(g) ==
  LET queues == [i \in 1 .. 2 * QueueLevels |->
                   [side |-> IF i <= QueueLevels THEN "Bid" ELSE "Ask",
                    level |-> (i - 1) % QueueLevels]]
      Drawn(n) == UNION {[1 .. k -> RefillSizes] : k \in 0 .. n}
      OfQueue(out, q) ==
        {o \o [j \in DOMAIN sizes |->
                 LET id == g.next + Len(o) + j - 1
                 IN Event("Add", id, id, q.side, QueuePrice(g, q.side, q.level), sizes[j])] :
           o \in out, sizes \in Drawn(RefillCap)}
  IN SX!FoldLeft(OfQueue, {<<>>}, queues)

\* reinitialise: everything believed to rest is deleted, every queue redrawn.
Reinitialise(g) ==
  {[g EXCEPT !.pending = @ \o DeletesOf(Cleared(g), g.next) \o adds,
             !.next = @ + Len(adds)] : adds \in Refills(g)}

\* reference_price_step: only one side at a time can pull.
ReferencePriceSteps(g) ==
  LET pulls == {sd \in Sides : BestQueueEmpty(g, sd) /\ ~BestQueueEmpty(g, Opposite(sd))}
      moved == {[g EXCEPT !.mid = PulledTo(g, sd)] : sd \in pulls}
  IN {g} \cup moved \cup (IF ThetaReinit THEN UNION {Reinitialise(m) : m \in moved} ELSE {})

-----------------------------------------------------------------------------
\* drift: one tick either way.
Drifts(g) ==
  IF DriftProb THEN {[g EXCEPT !.mid = @ + d] : d \in {-1, 0, 1}} ELSE {g}

Drawing(g, e) == [gen |-> g, event |-> e]

QrAdds(g) ==
  {Drawing(Drew(g, e), e) :
     e \in {Event("Add", g.next, g.next, sd, QueuePrice(g, sd, level), q) :
              sd \in Sides, level \in QueueIndex, q \in Positive}}

\* qr_cancel and qr_cancel_far: between them, any order believed to rest.
QrCancels(g) ==
  {Drawing(g, Event("Delete", l.id, l.id, l.side, l.price, 0)) :
     l \in UNION {InQueue(g, sd, level) : sd \in Sides, level \in QueueIndex}
             \cup Stranded(g, "Bid") \cup Stranded(g, "Ask")}

\* The side a market order takes: that of the metaorder at work, or of a new one.
Metaorders(g) ==
  IF g.meta.left > 0 THEN {g.meta}
  ELSE {[side |-> sd, left |-> n] : sd \in Sides, n \in 1 .. MetaCap}

\* qr_trade: drawn when some side has a best queue, which need not be the side
\* that the metaorder takes.  Taking the bids needs a seller.
QrTrades(g) ==
  IF \A sd \in Sides, level \in QueueIndex : InQueue(g, sd, level) = {} THEN {}
  ELSE {Drawing([g EXCEPT !.meta = [m EXCEPT !.left = @ - 1], !.next = @ + 1],
                Event("Aggress", g.next, g.next, Opposite(m.side), 0, q)) :
          m \in Metaorders(g), q \in Positive}

\* next_queue_reactive, after a drift: the price step, then one event.
ReactiveDraws(g) ==
  LET priced == UNION {ReferencePriceSteps(d) : d \in Drifts(g)}
  IN UNION {QrAdds(p) \cup QrCancels(p) \cup QrTrades(p) : p \in priced}

\* next(): a redrawn book is handed out before anything else is drawn.
Nexts(g) ==
  IF g.pending # <<>>
  THEN {Drawing([g EXCEPT !.pending = Tail(@)], Head(g.pending))}
  ELSE ReactiveDraws(g)
=============================================================================
