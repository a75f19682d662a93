--------------------------- MODULE CaptureReader ---------------------------
(***************************************************************************)
(* The applications that read a capture: apps/stats, which writes the      *)
(* orders that left the book to orders.csv, and apps/replay, which         *)
(* measures the book itself.  Both open the first snapshot and then fold   *)
(* the lines of the capture into a decoder and an order book.              *)
(*                                                                         *)
(* A reader is a record: the decoder, the book, the Accumulator, whether a *)
(* message has been decoded, the sessions counted, and the events the book *)
(* has refused.                                                            *)
(***************************************************************************)
EXTENDS BitstampDecoder, Accumulator

\* What both applications do first: seed the book from the first snapshot.
Seeded(decoder, venue) ==
  LET s == LoadSnapshot(decoder, venue)
  IN [dec |-> s.dec,
      book |-> SX!FoldLeft(LAMBDA b, e : Apply(b, e).book, RefEmpty, s.out)]

Opened(venue) ==
  LET s == Seeded(NewDecoder, venue)
  IN [dec |-> s.dec, book |-> s.book, acc |-> NewAccumulator, seen |-> FALSE,
      sessions |-> 1, refused |-> 0]

-----------------------------------------------------------------------------
ApplyEvent(r, e) ==
  LET done == Apply(r.book, e)
  IN [r EXCEPT !.acc = AfterApply(BeforeApply(@, r.book, e), done.book, e),
               !.book = done.book,
               !.refused = IF done.err = "Ok" THEN @ ELSE @ + 1]

\* A line about an order.  One that cannot be parsed is skipped.
ReadLine(r, m) ==
  LET d == DecodeLine(r.dec, m, r.book)
  IN SX!FoldLeft(ApplyEvent,
                 [r EXCEPT !.dec = d.dec, !.seen = @ \/ m.readable], d.out)

\* A session marker in apps/stats.  The first one is the header of the session
\* whose snapshot was opened; a snapshot that cannot be read changes nothing;
\* any other reseeds the book and drops the orders that were followed.
ReadMarker(r, venue, readable) ==
  IF ~r.seen \/ ~readable THEN r
  ELSE LET s == Seeded(ResetSession(r.dec), venue)
       IN [r EXCEPT !.dec = s.dec, !.book = s.book, !.sessions = @ + 1,
                    !.acc = OnSessionReset(@)]

-----------------------------------------------------------------------------
\* apps/replay folds the same lines without the Accumulator, and hands every
\* line to the decoder: a marker is a line it cannot parse.
Replayed(r) == [dec |-> r.dec, book |-> r.book]

ReplayLine(r, m) ==
  LET d == DecodeLine(r.dec, m, r.book)
  IN [dec |-> d.dec, book |-> SX!FoldLeft(LAMBDA b, e : Apply(b, e).book, r.book, d.out)]
=============================================================================
