------------------------------ MODULE FillLog ------------------------------
(***************************************************************************)
(* The fill log and those who read it: the simulator, which publishes      *)
(* fills to the agent's view, and the agent, each with its own index into  *)
(* the run's fills, while the log is trimmed behind them.                  *)
(*                                                                         *)
(* `tape` and `got` are history: every fill there ever was, and what each  *)
(* reader was handed.                                                      *)
(***************************************************************************)
EXTENDS FillWindow

CONSTANTS
  Readers,   \* who reads the log
  Fills,     \* what it records
  MaxFills   \* bound on the fills of a run

ASSUME ReadersAssumption == Readers # {}
ASSUME MaxFillsAssumption == MaxFills \in Nat

VARIABLES
  log,     \* the window
  mark,    \* mark[r] is the global index of the next fill reader r reads
  noted,   \* noted[r] is how far the log has been told r has read
  tape,
  got

vars == <<log, mark, noted, tape, got>>

Init ==
  /\ log = EmptyLog
  /\ mark = [r \in Readers |-> 0]
  /\ noted = [r \in Readers |-> 0]
  /\ tape = <<>>
  /\ got = [r \in Readers |-> <<>>]

\* The engine executes.
Push(f) ==
  /\ Len(tape) < MaxFills
  /\ log' = PushFill(log, f)
  /\ tape' = Append(tape, f)
  /\ UNCHANGED <<mark, noted, got>>

\* A reader takes the next fill.
Read(r) ==
  /\ mark[r] < FillsEnd(log)
  /\ got' = [got EXCEPT ![r] = Append(@, FillAt(log, mark[r]))]
  /\ mark' = [mark EXCEPT ![r] = @ + 1]
  /\ UNCHANGED <<log, noted, tape>>

\* A reader says how far it has got.
NoteRead(r) ==
  /\ noted' = [noted EXCEPT ![r] = mark[r]]
  /\ UNCHANGED <<log, mark, tape, got>>

\* A plausible slip: trimmed up to the reader that is furthest ahead.
FurthestNoted == CHOOSE n \in {noted[r] : r \in Readers} : \A r \in Readers : noted[r] <= n
\* What every reader says it has read.
LeastNoted == CHOOSE n \in {noted[r] : r \in Readers} : \A r \in Readers : n <= noted[r]

Trim ==
  /\ log' = ConsumeThrough(log, LeastNoted)
  /\ UNCHANGED <<mark, noted, tape, got>>

\* The fuzz target clears the log, when nobody is reading it.
Clear ==
  /\ \A r \in Readers : mark[r] = FillsEnd(log)
  /\ log' = ClearFills(log)
  /\ UNCHANGED <<mark, noted, tape, got>>

Next ==
  \/ \E f \in Fills : Push(f)
  \/ \E r \in Readers : Read(r) \/ NoteRead(r)
  \/ Trim
  \/ Clear

Spec == Init /\ [][Next]_vars

-----------------------------------------------------------------------------
\* Type invariant: the window, the readers and the history.
TypeOK ==
  /\ log \in [base : Nat, fills : Seq(Fills)]
  /\ mark \in [Readers -> Nat]
  /\ noted \in [Readers -> Nat]
  /\ tape \in Seq(Fills)
  /\ got \in [Readers -> Seq(Fills)]

\* Nothing is dropped until everyone has said it has read it: no reader's
\* index is ever behind the window, where fill_at is undefined, or past it.
NothingUnreadIsDropped ==
  \A r \in Readers : FillsBegin(log) <= mark[r] /\ mark[r] <= FillsEnd(log)

\* Each reader is handed the fills of the run in order, each exactly once,
\* however reads, trims and new fills interleave.
EveryFillIsReadOnce == \A r \in Readers : got[r] = SubSeq(tape, 1, mark[r])

\* The window is the tail of the run's fills, whatever was dropped.
WindowIsATail ==
  /\ FillsEnd(log) = Len(tape)
  /\ log.fills = SubSeq(tape, log.base + 1, Len(tape))
=============================================================================
