----------------------------- MODULE FillWindow -----------------------------
(***************************************************************************)
(* The fill log of the matching engine, include/lob/sim/matching.hpp: a    *)
(* window that slides over the fills of a run, addressed by the global     *)
(* index of a fill, so that an index survives the window sliding.  The     *)
(* engine's 64-bit indices are naturals: no run makes that many fills.     *)
(***************************************************************************)
EXTENDS Integers, Sequences

EmptyLog == [base |-> 0, fills |-> <<>>]

\* fills_begin() and fills_end(): the global indices the window covers.
FillsBegin(w) == w.base
FillsEnd(w) == w.base + Len(w.fills)

\* A plausible slip: an index into the window as it is now, not a global one.
FillAtOffset(w, i) == w.fills[(i % Len(w.fills)) + 1]

\* fill_at(i), undefined outside the window.
FillAt(w, i) == w.fills[i - w.base + 1]

\* A plausible slip: the first of them is taken to have been read.
FillsAfter(w, i) == SubSeq(w.fills, i - w.base + 2, Len(w.fills))
\* The fills from global index i on.
FillsFrom(w, i) == SubSeq(w.fills, i - w.base + 1, Len(w.fills))

PushFill(w, f) == [w EXCEPT !.fills = Append(@, f)]

DropCount(w, i) == i - w.base

\* consume_through(i): drop what is before index i; nothing if i is behind
\* the window, everything if it is past it.
ConsumeThrough(w, i) ==
  IF i <= w.base THEN w
  ELSE LET n == IF DropCount(w, i) <= Len(w.fills) THEN DropCount(w, i) ELSE Len(w.fills)
       IN [base |-> w.base + n, fills |-> SubSeq(w.fills, n + 1, Len(w.fills))]

ClearFills(w) == [base |-> FillsEnd(w), fills |-> <<>>]
=============================================================================
