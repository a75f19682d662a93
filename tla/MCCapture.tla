----------------------------- MODULE MCCapture -----------------------------
(***************************************************************************)
(* Instances of Capture for TLC.  The recording starts on a venue with two *)
(* orders on each side, one of them inside the guard, and a few offers     *)
(* that join them or trade with them.                                      *)
(***************************************************************************)
EXTENDS Capture

Offer(id, sd, price, qty) == [id |-> id, side |-> sd, price |-> price, qty |-> qty]

\* On each side an order at the touch, inside the guard, and one behind it.
Standing4 ==
  LET Join(b, o) == RefAdd(b, o.id, o.side, o.price, o.qty, FALSE).book
  IN SX!FoldLeft(Join, RefEmpty, <<Offer(1, "Bid", 10, 1), Offer(2, "Bid", 11, 1),
                                   Offer(5, "Ask", 12, 1), Offer(6, "Ask", 13, 1)>>)

\* An order at a price taken, at the touch or behind it, and one that trades.
Offers2 == {Offer(3, "Bid", 11, 2), Offer(4, "Ask", 11, 2)}

\* The recording comes to its end on that venue, after sessions that failed
\* before they had a snapshot; or the venue is silent from the start.
FromHere(time, done) ==
  /\ phase = "loop" /\ clock = time /\ backoff = 1 /\ stop = FALSE
  /\ venue = Standing4 /\ unsent = Offers /\ outbox = <<>> /\ sent = 0 /\ acts = done
  /\ made = [id \in Ids |-> 0] /\ departed = {} /\ heard = {}
  /\ stats = Opened(RefEmpty) /\ replay = Replayed(Opened(RefEmpty)) /\ markers = 0
  /\ buffered = <<>> /\ faults = NoFaults /\ missed = "none" /\ overlap = FALSE

WarmCapture == FromHere(Duration - 2, 0) \/ FromHere(0, MaxActs)

\* The user interrupts no sooner than the venue has done all it will do.
WarmCaptureSpec ==
  /\ WarmCapture
  /\ [][CaptureNext /\ (stop' # stop => acts = MaxActs)]_cvars
  /\ Fairness
=============================================================================
