-------------------------- MODULE TabulatedPolicy --------------------------
(***************************************************************************)
(* The strategy that runs the policy table,                                *)
(* include/lob/strat/tabulated.hpp, on one side of the book: how it        *)
(* estimates the size ahead of its order from a feed that shows only how   *)
(* much the market has at a price, and what it makes of the table's        *)
(* answer.                                                                 *)
(*                                                                         *)
(* The market's orders from the touch down, the strategy's order among     *)
(* them, the driver that tells the strategy before each decision what it   *)
(* has resting, and the simulator's two delays                             *)
(* (include/lob/sim/simulator.hpp): an order is on its way for some time   *)
(* after it was sent, and the book the strategy reads lags the exchange by *)
(* the messages on their way, which arrive in order.  Without latency an   *)
(* order joins as it is sent and the strategy reads the exchange's sizes.  *)
(***************************************************************************)
EXTENDS PolicyState
TX == INSTANCE SequencesExt

CONSTANTS
  Touch,       \* the best price there may be; the prices behind it count downwards
  Behind,      \* how many prices behind it there are
  LevelSizes,  \* sizes of market orders
  MaxLevel,    \* bound on the orders of a level
  Depth,       \* queue_scale of the table
  UseLatency,  \* SimConfig's use_latency
  MaxLag,      \* bound on the messages on their way
  MaxJoined    \* bound on the size that joins a price

ASSUME PricesAssumption == Touch \in Int /\ Behind \in Nat
ASSUME SizesAssumption == LevelSizes \subseteq Nat \ {0}
ASSUME DepthAssumption == Depth \in Int
ASSUME LatencyAssumption == UseLatency \in BOOLEAN

VARIABLES
  levels,     \* levels[p]: the sizes resting at p in order of time, 0 for our order
  order,      \* our order: "none", "sent" or "resting", its price, and how much had
              \* joined that price by what was shown as it was sent, and as it landed
  estimate,   \* TabulatedPolicy's: on, price and ahead
  feed        \* the exchange's sizes from what the view shows to what they are now,
              \* a picture for each message on its way

qvars == <<levels, order, estimate, feed>>

PricesHere == Touch - Behind .. Touch
Ours == 0
Flat == [on |-> FALSE, price |-> Touch, ahead |-> 0]
NoOrderOut == [state |-> "none", price |-> Touch, seen |-> 0, landed |-> 0]

\* What there is at each price, the market's orders only, and how much has ever
\* joined it.
SizesIn(q) == TX!FoldLeft(+, 0, q)
Picture(ls, joined) == [size |-> [p \in PricesHere |-> SizesIn(ls[p])], joined |-> joined]

\* The last picture is the exchange's, the first is what the view shows.
Now == feed[Len(feed)]
Shown(p) == feed[1].size[p]

\* deliver: a message is on its way, or is there at once.
Publish(ls, joined) ==
  feed' = IF UseLatency THEN Append(feed, Picture(ls, joined)) ELSE <<Picture(ls, joined)>>

\* A plausible slip: an order that moved to another price is not a new one.
TrackAcrossPrices(e, on, p) ==
  IF ~on THEN [e EXCEPT !.on = FALSE, !.ahead = 0]
  ELSE IF ~e.on THEN [on |-> TRUE, price |-> p, ahead |-> Shown(p)]
  ELSE [e EXCEPT !.price = p, !.ahead = IF Shown(p) < @ THEN Shown(p) ELSE @]

\* track: everything resting is ahead of an order that is new; after that the
\* estimate only shrinks, as growth arrives behind.
Track(e, on, p) ==
  IF ~on THEN [e EXCEPT !.on = FALSE, !.ahead = 0]
  ELSE IF ~e.on \/ p # e.price THEN [on |-> TRUE, price |-> p, ahead |-> Shown(p)]
  ELSE [e EXCEPT !.ahead = IF Shown(p) < @ THEN Shown(p) ELSE @]

\* side_state: off the modelled levels the order counts as no quote.
SideState(e, touch, scale) ==
  IF ~e.on \/ touch - e.price < 0 \/ touch - e.price >= QuoteLevels THEN NoQuote
  ELSE MakeSide(touch - e.price, QueueBucket(e.ahead, scale))

\* The best price shown, and the price an action asks for behind it.
ShownPrices == {p \in PricesHere : Shown(p) > 0}
ShownBest == CHOOSE p \in ShownPrices : \A h \in ShownPrices : h <= p
Asked(act) == ShownBest - (act - 1)

-----------------------------------------------------------------------------
QueueInit ==
  /\ levels \in [PricesHere -> {<<>>} \cup {<<n>> : n \in LevelSizes}]
  /\ order = NoOrderOut /\ estimate = Flat
  /\ feed = <<Picture(levels, [p \in PricesHere |-> 0])>>

\* The driver's turn, if a price is shown: it tells what is out, then moves it if
\* the table's action asks for another price; the cancel and the new order are
\* sent together.
HasOurs(q) == \E i \in DOMAIN q : q[i] = Ours
OurPlace(q) == CHOOSE i \in DOMAIN q : q[i] = Ours
JoinBack(ls, p) == [ls EXCEPT ![p] = Append(@, Ours)]
WithoutOurs(ls) ==
  [p \in PricesHere |-> IF HasOurs(ls[p]) THEN TX!RemoveAt(ls[p], OurPlace(ls[p])) ELSE ls[p]]

Decide ==
  /\ ShownPrices # {}
  /\ estimate' = Track(estimate, order.state # "none", order.price)
  /\ UNCHANGED feed
  /\ \E act \in 0 .. Behind + 1 :
       IF act = 0 THEN order' = NoOrderOut /\ levels' = WithoutOurs(levels)
       ELSE IF order.state # "none" /\ order.price = Asked(act)
       THEN UNCHANGED <<order, levels>>
       ELSE /\ Asked(act) \in PricesHere
            /\ order' = [state |-> IF UseLatency THEN "sent" ELSE "resting", price |-> Asked(act),
                         seen |-> feed[1].joined[Asked(act)], landed |-> Now.joined[Asked(act)]]
            /\ levels' = IF UseLatency THEN WithoutOurs(levels)
                         ELSE JoinBack(WithoutOurs(levels), Asked(act))

Lands ==
  /\ order.state = "sent"
  /\ order' = [order EXCEPT !.state = "resting", !.landed = Now.joined[order.price]]
  /\ levels' = JoinBack(levels, order.price) /\ UNCHANGED <<estimate, feed>>

\* The market joins, cancels anywhere, or trades from the front of the best price.
MarketJoins ==
  \E p \in PricesHere, n \in LevelSizes :
    /\ Len(feed) <= MaxLag /\ Len(levels[p]) < MaxLevel /\ Now.joined[p] + n <= MaxJoined
    /\ levels' = [levels EXCEPT ![p] = Append(@, n)]
    /\ Publish(levels', [Now.joined EXCEPT ![p] = @ + n]) /\ UNCHANGED <<order, estimate>>

MarketCancels ==
  \E p \in PricesHere : \E i \in DOMAIN levels[p] :
    /\ Len(feed) <= MaxLag /\ levels[p][i] # Ours
    /\ levels' = [levels EXCEPT ![p] = TX!RemoveAt(@, i)]
    /\ Publish(levels', Now.joined) /\ UNCHANGED <<order, estimate>>

\* Our order is filled when it is first; the driver hears of it.
MarketTrades ==
  \E p \in PricesHere :
    /\ Len(feed) <= MaxLag
    /\ levels[p] # <<>> /\ \A h \in PricesHere : h > p => levels[h] = <<>>
    /\ levels' = [levels EXCEPT ![p] = IF Head(@) > 1 THEN <<Head(@) - 1>> \o Tail(@) ELSE Tail(@)]
    /\ order' = IF Head(levels[p]) = Ours THEN NoOrderOut ELSE order
    /\ Publish(levels', Now.joined) /\ UNCHANGED estimate

\* drain_market_data: the oldest message on its way reaches the view.
FeedArrives ==
  Len(feed) > 1 /\ feed' = Tail(feed) /\ UNCHANGED <<levels, order, estimate>>

QueueNext == Decide \/ Lands \/ MarketJoins \/ MarketCancels \/ MarketTrades \/ FeedArrives

QueueSpec == QueueInit /\ [][QueueNext]_qvars

-----------------------------------------------------------------------------
\* What is really ahead of our order.
Ahead(q) == SizesIn(SubSeq(q, 1, OurPlace(q) - 1))
TrueAhead == Ahead(levels[order.price])

\* What joined its price between the picture our order was sent on and its
\* landing: orders ahead of it that the estimate need not have seen.
Missed == order.landed - order.seen

\* The place the table is asked about is better than the true one by no more
\* than that, whatever joins behind, leaves or trades, at any later time and
\* however late the pictures are (include/lob/strat/tabulated.hpp:16 and :104).
\* Without latency nothing is missed, and the estimate is "an upper bound on our
\* true queue position"; with it, which is the default, it need not be.
PlaceIsShortByItsDelay ==
  order.state = "resting" /\ estimate.on /\ estimate.price = order.price =>
    /\ estimate.ahead + Missed >= TrueAhead
    /\ \A touch \in PricesHere :
         LET side == SideState(estimate, touch, Depth)
         IN side # NoQuote => QueueOf(side) >= QueueBucket(TrueAhead - Missed, Depth)
=============================================================================
