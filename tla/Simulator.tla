----------------------------- MODULE Simulator -----------------------------
(***************************************************************************)
(* The discrete-event simulator of include/lob/sim/simulator.hpp: the book *)
(* the exchange holds and the book the agent knows, the market events of   *)
(* the generator, the matching engine, the agent's messages on their way   *)
(* to the exchange and the market data on its way to the agent.            *)
(*                                                                         *)
(* One turn of run() is split where its parts can come apart:              *)
(*   draw    the fill log is trimmed and the next market event drawn       *)
(*   orders  messages of the agent that have arrived land, one by one      *)
(*   feed    market data that has arrived is delivered, in order           *)
(*   event   the exchange handles the event                                *)
(*   publish what the exchange executed since last time is sent out        *)
(*   agent   the agent acts                                                *)
(*                                                                         *)
(* Time is abstracted to what the latency draws allow.  Each message of    *)
(* the agent has a delay of its own, so any message in flight may land     *)
(* next, unless every draw comes out at the floor of the model (no jitter) *)
(* and they land in the order of the decisions.  Market data is a queue,   *)
(* so any prefix of it may have arrived.                                   *)
(* The agent is any agent: it sends limit orders under new ids, market     *)
(* orders and cancels of ids it has used.                                  *)
(***************************************************************************)
EXTENDS Crossing, FlowGenerator, FillWindow

CONSTANTS
  OwnIds,       \* the agent's order ids
  Rule,         \* the self-match rule; Simulator leaves the engine's default
  Configs       \* the configurations runs are made with

\* A configuration: SimConfig::use_latency, whether the latency draws of two
\* messages may differ, the n_events of run(), and a bound on the messages an
\* agent sends.
Config(latency, jitter, events, actions) ==
  [latency |-> latency, jitter |-> jitter, events |-> events, actions |-> actions]

ASSUME InputAssumption ==
  /\ Ids \subseteq Nat /\ FirstId \in Nat
  /\ Prices \subseteq Int /\ IsFiniteSet(Prices) /\ Qtys \subseteq Int
  /\ \A c \in Configs : c.events \in Nat
ASSUME OwnIdsAssumption ==
  OwnIds \subseteq Ids /\ \A id \in OwnIds, c \in Configs : id > FirstId + c.events

VARIABLES
  config,      \* how this run is configured
  pc,          \* the part of the turn
  turn,        \* turns completed
  event,       \* the market event of this turn
  truth,       \* true_book_
  view,        \* view_book_
  gen,         \* gen_
  inflight,    \* inflight_: messages of the agent on their way
  feed,        \* pending_md_: market data on its way to the agent
  log,         \* the fill log of match_
  fillsSeen,   \* fills_seen_: published up to this index
  agentRead,   \* agent_read_: read by the agent up to this index
  stats,       \* the counters of SimStats that other components read
  used,        \* the ids the agent has sent orders under
  tape,        \* history: every fill of the run
  published    \* history: the fills sent to the agent as executions

vars == <<config, pc, turn, event, truth, view, gen, inflight, feed, log, fillsSeen,
          agentRead, stats, used, tape, published>>

-----------------------------------------------------------------------------
NoStats == [sent |-> 0, applied |-> 0, passive |-> 0, aggressive |-> 0, lateCancels |-> 0,
            inventory |-> 0, cash |-> 0]

IsOurs(f) == f.restingMine \/ f.aggressorMine

\* Which side of fill f we were on: the resting order's, or the one against it.
OurSide(f) == IF f.restingMine THEN f.side ELSE Opposite(f.side)

SignedQty(f) == IF OurSide(f) = "Bid" THEN f.qty ELSE -f.qty

\* book_fill: fill f enters our position, cash and fill counts.
BookFill(s, f) ==
  IF ~IsOurs(f) THEN s
  ELSE [s EXCEPT !.passive = IF f.restingMine THEN @ + f.qty ELSE @,
                 !.aggressive = IF f.restingMine THEN @ ELSE @ + f.qty,
                 !.inventory = @ + SignedQty(f),
                 !.cash = @ - SignedQty(f) * f.price]

\* A plausible slip: only the last of a submission's fills is booked.
BookLast(s, fills) == IF fills = <<>> THEN s ELSE BookFill(s, fills[Len(fills)])
BookFills(s, fills) == SX!FoldLeft(BookFill, s, fills)

PushFills(w, fills) == [w EXCEPT !.fills = @ \o fills]

\* The execution a public feed carries for fill f.
ExecutionOf(f) == Event("Execute", f.resting, f.resting, f.side, 0, f.qty)

\* The view after the events of a queue.
Replay(b, events) == SX!FoldLeft(LAMBDA c, e : Apply(c, e).book, b, events)

\* deliver: with latency an event is queued, without it is seen at once.
Deliver(events) ==
  IF config.latency THEN feed' = feed \o events /\ UNCHANGED view
  ELSE view' = Replay(view, events) /\ UNCHANGED feed

\* The exchange: the book, the fill log, and what is counted as it executes.
Exchange == [truth |-> truth, log |-> log, tape |-> tape, stats |-> stats]

\* Exchange x after submission r: the engine logs its fills, and ours are booked.
Executed(x, r) ==
  [truth |-> r.book,
   log   |-> PushFills(x.log, r.fills),
   tape  |-> x.tape \o r.fills,
   stats |-> BookFills(x.stats, r.fills)]

ExchangeBecomes(x) == truth' = x.truth /\ log' = x.log /\ tape' = x.tape /\ stats' = x.stats

-----------------------------------------------------------------------------
Init ==
  /\ config \in Configs
  /\ pc = "draw" /\ turn = 0 /\ event = Event("Clear", FirstId, FirstId, "Bid", 0, 0)
  /\ truth = RefEmpty /\ view = RefEmpty
  /\ gen = NewGenerator
  /\ inflight = {} /\ feed = <<>>
  /\ log = EmptyLog /\ fillsSeen = 0 /\ agentRead = 0
  /\ stats = NoStats /\ used = {}
  /\ tape = <<>> /\ published = <<>>

ReadByBoth == Lesser(fillsSeen, agentRead)

\* What both have read is dropped, and the event is drawn: before the orders
\* that land ahead of it, on the touch the generator saw last turn.
Draw ==
  /\ pc = "draw" /\ turn < config.events
  /\ log' = ConsumeThrough(log, ReadByBoth)
  /\ \E e \in Draws(gen) : event' = e /\ gen' = Drew(gen, e)
  /\ pc' = "orders"
  /\ UNCHANGED <<config, turn, truth, view, inflight, feed, fillsSeen, agentRead, stats, used,
                 tape, published>>

\* What the engine does with message a.
ResultOf(b, a) ==
  CASE a.type = "Limit" -> SubmitLimit(b, Rule, a.id, a.side, a.price, a.qty, TRUE)
    [] a.type = "Market" -> SubmitMarket(b, Rule, a.id, a.side, a.qty, TRUE)
    [] a.type = "Cancel" -> LET r == Remove(b, a.id)
                            IN Submitted(r.book, <<>>, 0, 0, r.err)

\* apply_action: a cancel that finds no order is counted as late.
ApplyAction(x, a) ==
  LET r == ResultOf(x.truth, a)
      late == a.type = "Cancel" /\ r.error # "Ok"
  IN Executed([x EXCEPT !.stats.applied = @ + 1,
                        !.stats.lateCancels = IF late THEN @ + 1 ELSE @], r)

\* InFlight: sooner decided lands sooner, ties by id.
IsBefore(a, b) == a.decided < b.decided \/ (a.decided = b.decided /\ a.id < b.id)
MayLand(a) == config.jitter \/ \A b \in inflight : ~IsBefore(b, a)

\* drain_actions, one message: before the turn's event, or after the last turn.
OrderLands ==
  /\ pc \in {"orders", "drain"}
  /\ \E a \in inflight :
       /\ MayLand(a)
       /\ inflight' = inflight \ {a}
       /\ \E x \in {ApplyAction(Exchange, a)} : ExchangeBecomes(x)
  /\ UNCHANGED <<config, pc, turn, event, view, gen, feed, fillsSeen, agentRead, used, published>>

OrdersDone ==
  /\ pc = "orders" /\ pc' = "feed"
  /\ UNCHANGED <<config, turn, event, truth, view, gen, inflight, feed, log, fillsSeen,
                 agentRead, stats, used, tape, published>>

\* drain_market_data, one event.
FeedArrives ==
  /\ pc = "feed" /\ feed # <<>>
  /\ view' = Apply(view, Head(feed)).book
  /\ feed' = Tail(feed)
  /\ UNCHANGED <<config, pc, turn, event, truth, gen, inflight, log, fillsSeen, agentRead,
                 stats, used, tape, published>>

FeedDone ==
  /\ pc = "feed" /\ pc' = "event"
  /\ UNCHANGED <<config, turn, event, truth, view, gen, inflight, feed, log, fillsSeen,
                 agentRead, stats, used, tape, published>>

\* The generator is told of the orders that fills used up.
ForgetUsedUp(g, b, fills) ==
  LET usedUp == {id \in {fills[i].resting : i \in DOMAIN fills} : QtyOf(b, id) = 0}
  IN [g EXCEPT !.live = {l \in @ : l.id \notin usedUp}]

\* An aggressive order goes through the matcher and the generator is told of
\* the orders it used up; anything else is applied and delivered, accepted or
\* not.
Handle ==
  LET r == IF event.type = "Aggress"
             THEN SubmitMarket(truth, Rule, event.id, event.side, event.qty, FALSE)
             ELSE Submitted(Apply(truth, event).book, <<>>, 0, 0, "Ok")
  IN \E x \in {Executed(Exchange, r)} :
       /\ ExchangeBecomes(x)
       /\ gen' = Observe(OnApplied(ForgetUsedUp(gen, x.truth, r.fills), event,
                                   QtyOf(x.truth, event.id)),
                         x.truth)

\* The exchange handles the event.  An aggressive order is not news itself:
\* it is seen through its trades.
EventHandled ==
  /\ pc = "event" /\ pc' = "publish"
  /\ Handle
  /\ Deliver(IF event.type = "Aggress" THEN <<>> ELSE <<event>>)
  /\ UNCHANGED <<config, turn, event, inflight, fillsSeen, agentRead, used, published>>

\* A plausible slip: executions are published only after an aggressive event.
FillsOfAggress == IF event.type = "Aggress" THEN FillsFrom(log, fillsSeen) ELSE <<>>
Unpublished == FillsFrom(log, fillsSeen)

\* publish_new_fills: every execution since the last publication is sent,
\* whoever caused it.
Publish ==
  /\ pc = "publish" /\ pc' = "agent"
  /\ Deliver([k \in DOMAIN Unpublished |-> ExecutionOf(Unpublished[k])])
  /\ published' = published \o Unpublished
  /\ fillsSeen' = FillsEnd(log)
  /\ UNCHANGED <<config, turn, event, truth, gen, inflight, log, agentRead, stats, used, tape>>

\* send_* and queue, for messages in the order they are sent: in flight, or
\* applied at once without latency.
QueueActions(messages) ==
  \E x \in {[Exchange EXCEPT !.stats.sent = @ + Len(messages)]} :
    IF config.latency
      THEN ExchangeBecomes(x) /\ inflight' = inflight \cup SX!ToSet(messages)
      ELSE /\ \E y \in {SX!FoldLeft(ApplyAction, x, messages)} : ExchangeBecomes(y)
           /\ UNCHANGED inflight

Send(a) ==
  /\ pc = "agent" /\ stats.sent < config.actions
  /\ QueueActions(<<a>>)
  /\ UNCHANGED <<config, pc, turn, event, view, gen, feed, fillsSeen, agentRead, published>>

Message(type, id, sd, price, qty) ==
  [decided |-> turn, type |-> type, id |-> id, side |-> sd, price |-> price, qty |-> qty]

Unused == {id \in OwnIds : \A u \in used : u < id}
NewId(id) == id \in Unused /\ \A u \in Unused : id <= u

SendLimit(id, sd, price, qty) ==
  NewId(id) /\ used' = used \cup {id} /\ Send(Message("Limit", id, sd, price, qty))

SendMarket(id, sd, qty) ==
  NewId(id) /\ used' = used \cup {id} /\ Send(Message("Market", id, sd, 0, qty))

\* An agent does not cancel an order twice in one turn.
SendCancel(id) ==
  LET a == Message("Cancel", id, "Bid", 0, 0)
  IN id \in used /\ a \notin inflight /\ UNCHANGED used /\ Send(a)

\* note_fills_read: the agent says it has read every fill so far.
NoteFillsRead ==
  /\ pc = "agent" /\ agentRead' = FillsEnd(log)
  /\ UNCHANGED <<config, pc, turn, event, truth, view, gen, inflight, feed, log, fillsSeen, stats,
                 used, tape, published>>

AgentDone ==
  /\ pc = "agent" /\ pc' = "draw" /\ turn' = turn + 1
  /\ UNCHANGED <<config, event, truth, view, gen, inflight, feed, log, fillsSeen, agentRead, stats,
                 used, tape, published>>

\* After the last turn everything still in flight lands: what arrives in the
\* ten seconds that follow, and no latency drawn comes near that.
LoopDone ==
  /\ pc = "draw" /\ turn = config.events /\ pc' = "drain"
  /\ UNCHANGED <<config, turn, event, truth, view, gen, inflight, feed, log, fillsSeen, agentRead,
                 stats, used, tape, published>>

\* A plausible slip: the run ends with the loop.
EndsAnyway == TRUE
NothingInFlight == inflight = {}

RunDone ==
  /\ pc = "drain" /\ NothingInFlight /\ pc' = "done"
  /\ UNCHANGED <<config, turn, event, truth, view, gen, inflight, feed, log, fillsSeen, agentRead,
                 stats, used, tape, published>>

\* Everything but the agent.
World ==
  \/ Draw
  \/ OrderLands
  \/ OrdersDone
  \/ FeedArrives
  \/ FeedDone
  \/ EventHandled
  \/ Publish
  \/ LoopDone
  \/ RunDone

Next ==
  \/ World
  \/ \E id \in OwnIds, sd \in Sides, price \in Window, qty \in Positive :
       SendLimit(id, sd, price, qty)
  \/ \E id \in OwnIds, sd \in Sides, qty \in Positive : SendMarket(id, sd, qty)
  \/ \E id \in OwnIds : SendCancel(id)
  \/ NoteFillsRead
  \/ AgentDone

\* The loop is one thread: it always takes its next step, the agent returns
\* after finitely many messages, and what is in flight after the last turn
\* lands, because the loop waits for it.
ControlStep ==
  Draw \/ OrdersDone \/ FeedDone \/ Publish \/ AgentDone \/ LoopDone \/ RunDone

\* Weak fairness of the steps that match orders, with what enables them written
\* out: to evaluate ENABLED of a whole matching step is slow.
EventsAreHandled == []<>(pc # "event") \/ []<><<EventHandled>>_vars
OrdersLand == []<>(pc \notin {"orders", "drain"} \/ inflight = {}) \/ []<><<OrderLands>>_vars

Spec ==
  Init /\ [][Next]_vars /\ WF_vars(ControlStep) /\ EventsAreHandled /\ OrdersLand

-----------------------------------------------------------------------------
(***************************************************************************)
(* Properties.                                                             *)
(***************************************************************************)

Total(s) == SX!FoldLeft(LAMBDA n, k : n + k, 0, s)
SumTape(P(_), f(_)) == Total([i \in DOMAIN tape |-> IF P(tape[i]) THEN f(tape[i]) ELSE 0])

QtyIn(t) == t.qty
WeBought(t) == IF t.restingMine THEN t.side = "Bid" ELSE t.aggressorMine /\ t.side = "Ask"
WeSold(t) == IF t.restingMine THEN t.side = "Ask" ELSE t.aggressorMine /\ t.side = "Bid"

\* Our position and cash are what the run's fills make them, each fill booked
\* once: those our orders made on landing, those the market made of our
\* resting orders, and none of the market's own.
FillsAreBookedOnce ==
  /\ stats.inventory = SumTape(WeBought, QtyIn) - SumTape(WeSold, QtyIn)
  /\ stats.cash = SumTape(WeSold, LAMBDA t : t.qty * t.price)
                   - SumTape(WeBought, LAMBDA t : t.qty * t.price)
  /\ stats.passive + stats.aggressive = SumTape(IsOurs, QtyIn)

\* Every execution reaches the agent's feed once and in order, whoever caused
\* it, and none is missing when the agent acts.
ExecutionsArePublishedOnce ==
  /\ published = SubSeq(tape, 1, fillsSeen)
  /\ pc = "agent" /\ (config.latency \/ stats.sent = 0) => fillsSeen = Len(tape)

\* While the agent stays quiet its view is behind the truth and never wrong:
\* with the feed in flight delivered it is the exchange's book.
QuietViewOnlyLags == stats.sent = 0 /\ pc # "publish" => Replay(view, feed) = truth

\* While the agent stays quiet the generator remembers exactly the orders that
\* rest, where they rest, and never believes them smaller than they are.
QuietBeliefIsTheBook ==
  stats.sent = 0 =>
    /\ LiveOrders(truth) = {l.id : l \in gen.live}
    /\ \A l \in gen.live : IsAt(truth, l.id, l.side, l.price) /\ QtyOf(truth, l.id) <= l.qty

\* The run ends, and by then every message sent has landed, once.
EverythingLands == <>(pc = "done" /\ stats.applied = stats.sent)

-----------------------------------------------------------------------------
(***************************************************************************)
(* What the documentation says, and the code does not do.                  *)
(***************************************************************************)
MarketPart(b) ==
  [sd \in Sides |-> [p \in Prices |-> SelectSeq(b[sd][p], LAMBDA e : ~e.mine)]]

\* simulator.hpp: the view is meant to lag the truth, never to be wrong; the
\* test: without latency "view == truth or it is a bug".  With everything
\* published and delivered, the view is the market's part of the truth.
CaughtUpViewIsTheMarket ==
  fillsSeen = FillsEnd(log) => Replay(view, feed) = MarketPart(truth)

=============================================================================
