-------------------------- MODULE BitstampDecoder --------------------------
(***************************************************************************)
(* src/bitstamp.cpp and include/lob/feed/bitstamp.hpp: the decoder of a    *)
(* recorded venue feed.  It keeps a table of the orders it has heard of,   *)
(* independent of the book, and turns each message about an order into at  *)
(* most three book events.                                                 *)
(*                                                                         *)
(* A line of the capture is a record: which order, what is left of it, and *)
(* what this message traded of it.  The scanning of JSON is left out, the  *)
(* outcomes it can have are not: a field may be missing or unreadable.  A  *)
(* line so broken that it names no event takes no part in the chain: to    *)
(* what follows it is a message that was lost.                             *)
(***************************************************************************)
EXTENDS PriceTimeQueues

CONSTANT SeedGuard    \* ticks from the snapshot's touch that are not seeded

ASSUME SeedGuardAssumption == SeedGuard \in Nat

NoEvent == 0          \* last_event_id_len_ = 0: no message heard in this session
NotSent == -1         \* the message has no amount_traded

\* A line about an order.  eid and pre are its event_id and pre_event_id.
Line(type, id, sd, price, left, traded) ==
  [type |-> type, id |-> id, side |-> sd, price |-> price, left |-> left,
   traded |-> traded, readable |-> TRUE, eid |-> NoEvent, pre |-> NoEvent]

-----------------------------------------------------------------------------
\* OrderState: an order the decoder tracks, and why it is or is not in the book.
OrderState(left, sd, price, kind) ==
  [left |-> left, side |-> sd, price |-> price, kind |-> kind]

Untracked == OrderState(0, "Bid", 0, "none")

NewDecoder ==
  [live |-> [id \in Ids |-> Untracked], last |-> NoEvent,
   gaps |-> 0, errors |-> 0, violations |-> 0]

\* reset_session: the orders and the chain are forgotten, the counters stay.
ResetSession(d) == [d EXCEPT !.live = NewDecoder.live, !.last = NoEvent]

Track(d, m, kind) ==
  [d EXCEPT !.live[m.id] = OrderState(m.left, m.side, m.price, kind)]
Erase(d, m) == [d EXCEPT !.live[m.id] = Untracked]

Decoded(d, events) == [dec |-> d, out |-> events]

AddOf(m) == Event("Add", m.id, m.id, m.side, m.price, m.left)

-----------------------------------------------------------------------------
\* A plausible slip: a broken chain is taken up without a word.
SilentChain(d, m) == [d EXCEPT !.last = m.eid]
\* Each message names the one before it.
Chain(d, m) ==
  [d EXCEPT !.gaps = IF d.last # NoEvent /\ m.pre # d.last THEN @ + 1 ELSE @,
            !.last = m.eid]

\* What becomes of an order at its price, given the touch of the book: outside
\* the price window it is only tracked; marketable, it has not rested yet.
Standing(m, b) ==
  IF m.price \notin Window THEN "suppressed"
  ELSE IF Crosses(b, m.side, m.price) THEN "pending" ELSE "resting"

Placed(d, m, kind, before) ==
  Decoded(Track(d, m, kind),
          IF kind = "resting" THEN Append(before, AddOf(m)) ELSE before)

Created(d, m, b) == Placed(d, m, Standing(m, b), <<>>)

OfSuppressed(d, m) ==
  Decoded(IF m.type = "deleted" THEN Erase(d, m) ELSE d, <<>>)

\* An order that was marketable: it may trade out, be cancelled, or come to rest
\* once the touch has moved away from it.
OfPending(d, m, b) ==
  LET passive == m.left > 0 /\ ~Crosses(b, m.side, m.price)
  IN IF m.type = "deleted" THEN Decoded(Erase(d, m), <<>>)
     ELSE Placed(d, m, IF passive THEN Standing(m, b) ELSE "pending", <<>>)

\* A plausible slip: an order amended up grows where it stands.
GrowInPlace(d, m, st, left, fill) ==
  Decoded([d EXCEPT !.live[m.id].left = m.left], fill)
\* Size added to an order goes to the back of its queue.
Grow(d, m, st, left, fill) ==
  Decoded([d EXCEPT !.live[m.id].left = m.left, !.live[m.id].side = m.side],
          fill \o <<Event("Delete", m.id, m.id, st.side, st.price, left), AddOf(m)>>)

Shrink(d, m, st, left, fill) ==
  Decoded([d EXCEPT !.live[m.id].left = m.left],
          Append(fill, Event("Reduce", m.id, m.id, st.side, st.price, left - m.left)))

\* A plausible slip: what an order traded is taken for the whole of what left it.
FillAll(m, st) == IF m.traded > 0 THEN st.left ELSE 0
\* What this message traded, never more than is believed to rest.
FillOf(m, st) == SX!Min({SX!Max({0, m.traded}), st.left})

\* A message about an order in the book: what it traded leaves as an Execute,
\* and what it lost otherwise leaves as a cancel.
OfResting(d, m, b) ==
  LET st == d.live[m.id]
      fill == FillOf(m, st)
      left == st.left - fill
      events == IF fill > 0
                THEN <<Event("Execute", m.id, m.id, st.side, st.price, fill)>> ELSE <<>>
      gone == Event("Delete", m.id, m.id, st.side, st.price, left)
      broken == m.traded # NotSent /\ SX!Max({0, m.traded}) + m.left > st.left
      e == [d EXCEPT !.live[m.id].left = left,
                     !.violations = IF broken THEN @ + 1 ELSE @]
  IN CASE m.type = "deleted" ->
            Decoded(Erase(e, m), IF left > 0 THEN Append(events, gone) ELSE events)
       [] m.type = "changed" /\ m.price # st.price ->
            Placed(e, m, Standing(m, b), Append(events, gone))
       [] m.type = "changed" /\ m.price = st.price ->
            IF m.left < left THEN Shrink(e, m, st, left, events)
            ELSE IF m.left > left THEN Grow(e, m, st, left, events)
            ELSE Decoded(e, events)

\* decode_line.  An order never heard of is not guessed at.
DecodeLine(d, m, b) ==
  LET c == Chain(d, m)
  IN IF ~m.readable THEN Decoded([c EXCEPT !.errors = @ + 1], <<>>)
     ELSE IF m.type = "created" THEN Created(c, m, b)
     ELSE CASE c.live[m.id].kind = "none" -> Decoded(c, <<>>)
            [] c.live[m.id].kind = "suppressed" -> OfSuppressed(c, m)
            [] c.live[m.id].kind = "pending" -> OfPending(c, m, b)
            [] c.live[m.id].kind = "resting" -> OfResting(c, m, b)

-----------------------------------------------------------------------------
\* snapshot_touch: the guard is measured from the snapshot's own touch.
BeyondGuard(book, sd, price) ==
  IF sd = "Bid" THEN Best(book, "Bid") - price >= SeedGuard
                ELSE price - Best(book, "Ask") >= SeedGuard

\* The rows of a snapshot of `book` that are seeded, bids before asks.
SeededAt(book, sd, price) ==
  IF price \in Window /\ BeyondGuard(book, sd, price)
  THEN [i \in DOMAIN book[sd][price] |->
          Line("created", book[sd][price][i].id, sd, price, book[sd][price][i].qty, 0)]
  ELSE <<>>

RowsOfSide(book, sd) ==
  SX!FoldLeft(LAMBDA rows, p : rows \o SeededAt(book, sd, p), <<>>,
              [p \in 1 .. SX!Max(Window \cup {0}) |-> p])
SeededRows(book) ==
  IF SeedGuard > 0 /\ ~(HasBest(book, "Bid") /\ HasBest(book, "Ask")) THEN <<>>
  ELSE RowsOfSide(book, "Bid") \o RowsOfSide(book, "Ask")

\* load_snapshot: what is seeded is tracked, and added to the book.
LoadSnapshot(d, book) ==
  SX!FoldLeft(LAMBDA r, m : Placed(r.dec, m, "resting", r.out), Decoded(d, <<>>),
              SeededRows(book))
=============================================================================
