------------------------------ MODULE Capture ------------------------------
(***************************************************************************)
(* A capture from end to end: the venue, the recorder connected to it, the *)
(* file it writes, and the applications that read the file.                *)
(*                                                                         *)
(* The venue is not part of the repository.  It is modelled by what the    *)
(* decoder expects of it: an order is published as created at its limit    *)
(* price before the fills it causes, then come the orders it traded with   *)
(* and last the order itself; each message names the one before it.        *)
(*                                                                         *)
(* The applications read a finished file.  As they only fold its lines,    *)
(* `stats` and `replay` are what they have made of the lines written so    *)
(* far, and the file itself is not kept.                                   *)
(***************************************************************************)
EXTENDS Crossing, CaptureReader, Recorder

CONSTANTS
  Offers,      \* the orders that may be sent to the venue
  Restless,    \* the orders that may be cancelled or amended there
  MaxActs,     \* how often the venue acts, and how often something goes wrong
  MaxFaults    \* how often a message or a snapshot is lost, damaged or incomplete

ASSUME OffersAssumption ==
  /\ Offers \subseteq [id : Ids, side : Sides, price : Prices, qty : Nat \ {0}]
  /\ Qtys \subseteq Nat \ {0}
\* The venue gives an id to one order.
ASSUME OfferIdsAssumption == \A o, u \in Offers : o.id = u.id => o = u
\* The books of the applications (apps/stats/main.cpp:586), and the venue's,
\* have room for every order the capture tells of.
ASSUME RoomAssumption == Cardinality(Ids) <= MaxOrders

VARIABLES
  venue,      \* the venue's book
  unsent,     \* offers not made yet
  outbox,     \* messages of the venue's last act, still to be published
  sent,       \* the number of the last message
  acts,       \* how often the venue has acted
  buffered,   \* messages kept until the snapshot is taken
  stats,      \* apps/stats on the lines written so far
  replay,     \* apps/replay on the same lines
  markers,    \* session markers written
  faults,     \* what has gone wrong with messages
  missed,     \* "lost" after a message was lost, "heard" once another came
  overlap,    \* a snapshot told of an order that messages written after it change
  heard,      \* orders the file tells of, from the session's start, in the window
  made,       \* how much each order has traded since it joined its queue
  departed    \* orders that left a queue other than by trading, with what they had
              \* traded in it

venueVars == <<venue, unsent, outbox, sent, acts, made, departed>>
fileVars == <<stats, replay, markers, heard>>
cvars == <<rvars, venueVars, fileVars, buffered, faults, missed, overlap>>

NoFaults == [lost |-> 0, damaged |-> 0, untraded |-> 0, snapshot |-> 0]
FaultCount == faults.lost + faults.damaged + faults.untraded + faults.snapshot
MayAct == acts + FaultCount < MaxActs
MayFail == MayAct /\ FaultCount < MaxFaults

CaptureInit ==
  /\ RecorderInit
  /\ venue = RefEmpty /\ unsent = Offers /\ outbox = <<>> /\ sent = 0 /\ acts = 0
  /\ made = [id \in Ids |-> 0] /\ departed = {} /\ heard = {}
  /\ stats = Opened(RefEmpty) /\ replay = Replayed(Opened(RefEmpty)) /\ markers = 0
  /\ buffered = <<>> /\ faults = NoFaults /\ missed = "none" /\ overlap = FALSE

-----------------------------------------------------------------------------
(***************************************************************************)
(* The venue.                                                              *)
(***************************************************************************)
\* Messages numbered from the last one sent; without a connection nobody hears
\* them.
Numbered(ms) ==
  [i \in DOMAIN ms |-> [ms[i] EXCEPT !.eid = sent + i, !.pre = sent + i - 1]]

Publish(book, ms) ==
  /\ outbox = <<>> /\ MayAct /\ phase \notin {"done", "exited"}
  /\ venue' = book /\ outbox' = IF Connected THEN Numbered(ms) ELSE <<>>
  /\ sent' = sent + Len(ms) /\ acts' = acts + 1
  /\ UNCHANGED <<rvars, fileVars, buffered, faults, missed, overlap>>

\* The message about an order that has traded: changed, or deleted at the end.
Traded(id, sd, price, left, qty) ==
  Line(IF left = 0 THEN "deleted" ELSE "changed", id, sd, price, left, qty)

\* An order that meets one the capture does not tell of looks passive to those
\* who read it: there is no knowing what they take its trades for.
Obscure(o) ==
  IF \E id \in LiveOrders(venue) \ heard :
        Where(venue, id)[1] = Opposite(o.side) /\ Where(venue, id)[2] \in Limit(o.side, o.price)
  THEN {[id |-> o.id, filled |-> n] : n \in 0 .. o.qty} ELSE {}

\* A limit order: it trades what it can and the rest joins the book.
PlaceOrder ==
  \E o \in unsent :
    LET m == Cross(venue, "Allow", o.id, o.side, Limit(o.side, o.price), o.qty, FALSE)
        rest == IF m.left = 0 THEN m.book
                ELSE JoinQueue(m.book, o.id, o.side, o.price, m.left, FALSE)
        makers == [i \in DOMAIN m.fills |->
                     Traded(m.fills[i].resting, m.fills[i].side, m.fills[i].price,
                            QtyOf(m.book, m.fills[i].resting), m.fills[i].qty)]
        own == IF m.fills = <<>> THEN <<>>
               ELSE <<Traded(o.id, o.side, o.price, m.left, o.qty - m.left)>>
    IN /\ Publish(rest, <<Line("created", o.id, o.side, o.price, o.qty, 0)>> \o makers \o own)
       /\ unsent' = {u \in unsent : u.id # o.id}
       /\ made' = [id \in Ids |->
            made[id] + QtySum(SelectSeq([i \in DOMAIN m.fills |->
                                          [id |-> m.fills[i].resting, qty |-> m.fills[i].qty]],
                                        LAMBDA f : f.id = id))]
       /\ departed' = departed \cup Obscure(o)

\* The order leaves its queue, other than by trading.
Departs(id) ==
  /\ departed' = departed \cup {[id |-> id, filled |-> made[id]]}
  /\ made' = [made EXCEPT ![id] = 0] /\ UNCHANGED unsent

\* A post-only order that would have traded: published, never rested.
RefusePostOnly ==
  \E o \in unsent :
    /\ Crosses(venue, o.side, o.price)
    /\ Publish(venue, <<Line("created", o.id, o.side, o.price, o.qty, 0),
                        Line("deleted", o.id, o.side, o.price, o.qty, 0)>>)
    /\ unsent' = {u \in unsent : u.id # o.id}
    /\ departed' = departed \cup Obscure(o) /\ UNCHANGED made

CancelOrder ==
  \E id \in LiveOrders(venue) \cap Restless :
    /\ Publish(Remove(venue, id).book,
               <<Line("deleted", id, Where(venue, id)[1], Where(venue, id)[2],
                      QtyOf(venue, id), 0)>>)
    /\ Departs(id)

\* Less of an order keeps its place; more of it goes to the back.
AmendOrder ==
  \E id \in LiveOrders(venue) \cap Restless, qty \in Qtys :
    LET w == Where(venue, id)
    IN /\ qty # QtyOf(venue, id)
       /\ Publish(IF qty < QtyOf(venue, id)
                  THEN Reduce(venue, id, QtyOf(venue, id) - qty).book
                  ELSE JoinQueue(Remove(venue, id).book, id, w[1], w[2], qty, FALSE),
                  <<Line("changed", id, w[1], w[2], qty, 0)>>)
       /\ IF qty > QtyOf(venue, id) THEN Departs(id) ELSE UNCHANGED <<unsent, made, departed>>

\* To a price where it does not trade.
RepriceOrder ==
  \E id \in LiveOrders(venue) \cap Restless, p \in Prices :
    LET sd == Where(venue, id)[1]
    IN /\ p # Where(venue, id)[2] /\ ~Crosses(venue, sd, p)
       /\ Publish(JoinQueue(Remove(venue, id).book, id, sd, p, QtyOf(venue, id), FALSE),
                  <<Line("changed", id, sd, p, QtyOf(venue, id), 0)>>)
       /\ Departs(id)

VenueActs ==
  PlaceOrder \/ RefusePostOnly \/ CancelOrder \/ AmendOrder \/ RepriceOrder

-----------------------------------------------------------------------------
(***************************************************************************)
(* The messages on their way to the file.                                  *)
(***************************************************************************)
\* The orders inside the window that the decoder has been told of.
Hears(h, m) ==
  IF m.price \notin Window THEN h \ {m.id}
  ELSE IF m.type = "created" THEN h \cup {m.id} ELSE h

\* _session: kept until there is a snapshot, then written as it comes.
Record(m) ==
  IF phase = "subscribing"
  THEN buffered' = Append(buffered, m) /\ UNCHANGED <<stats, replay, heard, missed>>
  ELSE /\ stats' = ReadLine(stats, m) /\ replay' = ReplayLine(replay, m)
       /\ heard' = Hears(heard, m)
       /\ missed' = IF missed = "lost" THEN "heard" ELSE missed
       /\ UNCHANGED buffered

Damaged(m) == {[m EXCEPT !.readable = FALSE], [m EXCEPT !.traded = NotSent]}

Deliver ==
  /\ outbox # <<>> /\ Connected /\ outbox' = Tail(outbox)
  /\ Record(Head(outbox))
  /\ UNCHANGED <<rvars, venue, unsent, sent, acts, made, departed, markers, faults, overlap>>

DeliverDamaged ==
  /\ outbox # <<>> /\ Connected /\ MayFail /\ outbox' = Tail(outbox)
  /\ \E m \in Damaged(Head(outbox)) :
       /\ Record(m)
       /\ faults' = IF m.readable THEN [faults EXCEPT !.untraded = @ + 1]
                                  ELSE [faults EXCEPT !.damaged = @ + 1]
  /\ UNCHANGED <<rvars, venue, unsent, sent, acts, made, departed, markers, overlap>>

\* A message lost although the recorder is connected.
Lose ==
  /\ outbox # <<>> /\ Connected /\ MayFail /\ outbox' = Tail(outbox)
  /\ faults' = [faults EXCEPT !.lost = @ + 1]
  /\ missed' = IF phase = "streaming" /\ stats.dec.last # NoEvent THEN "lost" ELSE missed
  /\ UNCHANGED <<rvars, venue, unsent, sent, acts, made, departed, fileVars, buffered, overlap>>

\* The REST snapshot, the marker that names it, and what was buffered.  The
\* applications open the first snapshot before they read the first line.
TakeSnapshot ==
  /\ StartStreaming
  /\ markers' = markers + 1 /\ buffered' = <<>>
  /\ \E readable \in BOOLEAN :
       LET opened == ReadMarker(IF markers = 0 THEN Opened(venue) ELSE stats, venue, readable)
       IN /\ readable \/ (markers > 0 /\ MayFail)
          /\ faults' = [faults EXCEPT !.snapshot = IF readable THEN @ ELSE @ + 1]
          /\ stats' = SX!FoldLeft(ReadLine, opened, buffered)
          /\ replay' = SX!FoldLeft(ReplayLine, IF markers = 0 THEN Replayed(opened) ELSE replay,
                                   buffered)
          /\ heard' = SX!FoldLeft(Hears,
                        IF readable THEN {row.id : row \in SX!ToSet(SeededRows(venue))} ELSE {},
                        buffered)
  /\ missed' = IF missed = "lost" THEN "none" ELSE missed
  /\ overlap' = (overlap \/ \E m \in SX!ToSet(buffered \o outbox) :
                              m.id \in {row.id : row \in SX!ToSet(SeededRows(venue))})
  /\ UNCHANGED venueVars

\* The session is over: what was on its way is lost, and what was buffered for
\* its snapshot is dropped.
EndSession ==
  /\ EndsCleanly \/ Fails \/ Exits
  /\ outbox' = <<>> /\ buffered' = <<>>
  /\ missed' = IF missed = "lost" THEN "none" ELSE missed
  /\ UNCHANGED <<venue, unsent, sent, acts, made, departed, fileVars, faults, overlap>>

Loop ==
  /\ StartSession \/ Leave \/ Wake
  /\ heard' = IF phase' = "subscribing" THEN {} ELSE heard
  /\ UNCHANGED <<venueVars, stats, replay, markers, buffered, faults, missed, overlap>>

Interrupted ==
  /\ Interrupt
  /\ UNCHANGED <<venueVars, fileVars, buffered, faults, missed, overlap>>

RecorderActs == TakeSnapshot \/ EndSession \/ Loop \/ Interrupted

CaptureNext ==
  VenueActs \/ Deliver \/ DeliverDamaged \/ Lose \/ RecorderActs

-----------------------------------------------------------------------------
\* The loop of the recorder makes progress and its sessions end: the stream is
\* read with a time limit and the subscription has a deadline.
Fairness == WF_cvars(Loop) /\ WF_cvars(EndSession)

CaptureSpec == CaptureInit /\ [][CaptureNext]_cvars /\ Fairness

-----------------------------------------------------------------------------
(***************************************************************************)
(* What the capture is for.                                                *)
(***************************************************************************)
\* The file is whole: every message in it as it was sent, and no snapshot that
\* has already what messages written after it say of an order.
Whole == faults = NoFaults /\ ~overlap

\* apps/stats has read all the venue has published in a session it has noticed.
CaughtUp == phase = "streaming" /\ outbox = <<>> /\ stats.sessions = markers

\* Of a whole capture the book refuses nothing (tests/test_bitstamp.cpp:142), and
\* the queues rebuilt from it are the venue's, order for order and size for size,
\* as far as the capture tells of them: orders resting since before the session
\* and nearer the touch than the guard are never heard of (src/bitstamp.cpp:36,
\* apps/stats/main.cpp:618).
QueuesAreTheMarkets ==
  /\ Whole /\ stats.sessions = markers => stats.refused = 0
  /\ Whole /\ CaughtUp =>
       \A sd \in Sides, p \in Window :
         stats.book[sd][p] = SelectSeq(venue[sd][p], LAMBDA e : e.id \in heard)

\* The decoder's table and the book stay in step, whatever is lost or damaged on
\* the way, as long as no snapshot has what messages read after it tell of
\* (include/lob/feed/bitstamp.hpp:237).
BeliefIsTheBook ==
  ~overlap =>
    \A id \in Ids :
      LET st == stats.dec.live[id]
      IN IF st.kind = "resting" /\ st.left > 0
         THEN /\ IsAt(stats.book, id, st.side, st.price)
              /\ QtyOf(stats.book, id) = st.left
         ELSE ~Known(stats.book, id)

\* A message lost between two that were heard in one session shows as a gap in
\* the chain; the counter outlives the reconnect (src/bitstamp.cpp:81).
LossIsReported == missed = "heard" => stats.dec.gaps > 0

\* A row of orders.csv has filled what the venue traded of that order while it
\* stood in that queue, and nothing it cancelled (apps/stats/main.cpp:86).
RowsTellTheSplit ==
  Whole => \A r \in stats.acc.rows : [id |-> r.id, filled |-> r.filled] \in departed

\* Every recording ends (tools/recorder_retry.py:28).
RecordingEnds == <>(phase \in {"done", "exited"})

-----------------------------------------------------------------------------
\* What the recorder says of its file: replay must reset the book at each marker
\* (tools/record_bitstamp.py:109).
ReplayResetsAtMarkers == Whole /\ CaughtUp => replay.book = stats.book

=============================================================================
