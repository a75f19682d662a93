------------------------------- MODULE Driver -------------------------------
(***************************************************************************)
(* run_strategy of include/lob/strat/driver.hpp: the agent that turns the  *)
(* quotes of a strategy into messages, as the agent of Simulator.  It      *)
(* remembers the order it has out on each side, counts it down as fills    *)
(* arrive, and requotes only what has moved.                               *)
(*                                                                         *)
(* The strategies of include/lob/strat/quoting.hpp are any strategy: one   *)
(* that quotes nothing, one side or both, a bid below its ask and neither  *)
(* through the touch it sees, and stops buying (selling) at its limit.     *)
(* The time between decisions is whatever the clock makes it, so the       *)
(* driver may let any turn pass.  Placement statistics and markouts are    *)
(* left out.                                                               *)
(***************************************************************************)
EXTENDS Simulator

CONSTANTS
  Size,           \* QuoteParams::size
  MaxInventory    \* QuoteParams::max_inventory

ASSUME SizeAssumption == Size \in Nat \ {0}

VARIABLES
  quote,      \* per side: the id out (bid_id, ask_id), its price and what is left
  cancelled   \* history: the ids the driver has sent cancels for

dvars == <<vars, quote, cancelled>>

NoOrderOut == 0

InitQuotes == [sd \in Sides |-> [id |-> NoOrderOut, price |-> 0, left |-> 0]]

IsOut(q) == q.id # NoOrderOut

-----------------------------------------------------------------------------
\* A fill of the order out on a side counts it down; a fill our order made on
\* landing names it as the aggressor and does not.
CountDown(q, f) ==
  [sd \in Sides |-> IF f.restingMine /\ f.resting = q[sd].id
                      THEN [q[sd] EXCEPT !.left = @ - f.qty] ELSE q[sd]]

\* A plausible slip: an order is taken for done at its first fill.
ForgetTouched(q) ==
  [sd \in Sides |-> IF IsOut(q[sd]) /\ q[sd].left < Size
                      THEN [q[sd] EXCEPT !.id = NoOrderOut] ELSE q[sd]]

\* An order counted down to nothing is forgotten.
ForgetFilled(q) ==
  [sd \in Sides |-> IF IsOut(q[sd]) /\ q[sd].left <= 0
                      THEN [q[sd] EXCEPT !.id = NoOrderOut] ELSE q[sd]]

\* The quotes after the fills the driver has not read yet.
AfterFills(q) == ForgetFilled(SX!FoldLeft(CountDown, q, FillsFrom(log, agentRead)))

\* What a strategy may ask for: per side a price, or 0 for no quote.
Targets ==
  {t \in [Sides -> Window \cup {0}] :
     /\ t["Bid"] # 0 => stats.inventory < MaxInventory /\ t["Bid"] < Best(view, "Ask")
     /\ t["Ask"] # 0 => stats.inventory > -MaxInventory /\ t["Ask"] > Best(view, "Bid")
     /\ t["Bid"] # 0 /\ t["Ask"] # 0 => t["Bid"] < t["Ask"]}

Moved(q, t, sd) == (t[sd] # 0) # IsOut(q[sd]) \/ (t[sd] # 0 /\ t[sd] # q[sd].price)

\* The new orders take the next ids, the bid first.
NextIds == {id \in OwnIds : \A u \in used : u < id}
FirstOf(S) == CHOOSE id \in S : \A k \in S : id <= k
NewOrderId(q, t, sd) ==
  IF sd = "Bid" \/ ~(Moved(q, t, "Bid") /\ t["Bid"] # 0) THEN FirstOf(NextIds)
  ELSE FirstOf(NextIds \ {FirstOf(NextIds)})

Requoted(q, t, sd) == Moved(q, t, sd) /\ t[sd] # 0
Withdrawn(q, t, sd) == Moved(q, t, sd) /\ IsOut(q[sd])

\* A plausible slip: a quote that moves is replaced, and not cancelled.
CancelsNothing(q, t, sd) == <<>>
Cancel(q, t, sd) ==
  IF Withdrawn(q, t, sd) THEN <<Message("Cancel", q[sd].id, "Bid", 0, 0)>> ELSE <<>>

NewLimit(q, t, sd) ==
  IF Requoted(q, t, sd) THEN <<Message("Limit", NewOrderId(q, t, sd), sd, t[sd], Size)>>
  ELSE <<>>

\* What is withdrawn is cancelled before what is new is sent.
Messages(q, t) ==
  Cancel(q, t, "Bid") \o Cancel(q, t, "Ask") \o NewLimit(q, t, "Bid") \o NewLimit(q, t, "Ask")

\* A plausible slip: the new order inherits what was left of the old one.
AfterRequoteKeepsLeft(q, t) ==
  [sd \in Sides |->
     IF Requoted(q, t, sd) THEN [q[sd] EXCEPT !.id = NewOrderId(q, t, sd), !.price = t[sd]]
     ELSE IF Withdrawn(q, t, sd) THEN [q[sd] EXCEPT !.id = NoOrderOut, !.left = 0]
     ELSE q[sd]]
AfterRequote(q, t) ==
  [sd \in Sides |->
     IF Requoted(q, t, sd) THEN [id |-> NewOrderId(q, t, sd), price |-> t[sd], left |-> Size]
     ELSE IF Withdrawn(q, t, sd) THEN [q[sd] EXCEPT !.id = NoOrderOut, !.left = 0]
     ELSE q[sd]]

-----------------------------------------------------------------------------
DInit == Init /\ quote = InitQuotes /\ cancelled = {}

\* The agent's turn: it reads the fills it has not read, notes how far it got,
\* and perhaps requotes.
Reads ==
  /\ pc = "agent" /\ pc' = "draw" /\ turn' = turn + 1
  /\ agentRead' = FillsEnd(log)
  /\ UNCHANGED <<config, event, view, gen, feed, fillsSeen, published>>

\* No touch in the view, too soon, or nothing has moved.
Waits ==
  /\ Reads
  /\ quote' = AfterFills(quote)
  /\ UNCHANGED <<truth, inflight, log, stats, used, tape, cancelled>>

Requotes ==
  /\ Reads
  /\ HasBest(view, "Bid") /\ HasBest(view, "Ask")
  /\ Cardinality(NextIds) >= 2
  /\ \E t \in Targets, q \in {AfterFills(quote)} :
       /\ \E sd \in Sides : Moved(q, t, sd)
       /\ quote' = AfterRequote(q, t)
       /\ QueueActions(Messages(q, t))
       /\ used' = used \cup {NewOrderId(q, t, sd) : sd \in {s \in Sides : Requoted(q, t, s)}}
       /\ cancelled' = cancelled \cup {q[sd].id : sd \in {s \in Sides : Withdrawn(q, t, s)}}

DNext ==
  \/ World /\ UNCHANGED <<quote, cancelled>>
  \/ Waits
  \/ Requotes

DSpec == DInit /\ [][DNext]_dvars

-----------------------------------------------------------------------------
OurOrders == LiveOrders(truth) \cap OwnIds
Out == {quote[sd].id : sd \in Sides} \ {NoOrderOut}

OfType(type) == {a.id : a \in {m \in inflight : m.type = type}}

\* The driver gives up on an order by itself only when it is used up: an order
\* of ours that rests, or is on its way, is one the driver still counts on or
\* one it has sent a cancel for, however late its fills and messages are.
NothingIsForgotten == OurOrders \cup OfType("Limit") \subseteq Out \cup cancelled

\* What the driver thinks is left of an order is never less than what rests.
NeverShort ==
  \A sd \in Sides : quote[sd].id \in OurOrders => QtyOf(truth, quote[sd].id) <= quote[sd].left

\* While messages land in the order of the decisions, an order of ours rests
\* only while the driver counts on it or its cancel is on its way: none is left
\* behind in the market.  (A cancel that may overtake its limit leaves one.)
NoOrphansInOrder == ~config.jitter => OurOrders \subseteq Out \cup OfType("Cancel")

-----------------------------------------------------------------------------
FilledQty(id) == SumTape(LAMBDA f : f.resting = id \/ f.aggressor = id, QtyIn)

\* driver.hpp: an order that filled is gone and the driver knows: it is "done
\* when it reaches zero, whether or not it has arrived anywhere yet".  Once
\* every fill is read, no order that the driver has out is used up.
FilledQuotesAreForgotten ==
  pc = "draw" /\ agentRead = Len(tape) => \A id \in Out : FilledQty(id) < Size
=============================================================================
