---------------------------- MODULE PolicyTable ----------------------------
(***************************************************************************)
(* The policy table from the solver to the strategy: apps/solve solves,    *)
(* and writes what has converged; src/policy_table.cpp writes the file in  *)
(* place and reads it back, whatever became of it; the strategy asks the   *)
(* table for actions.                                                      *)
(*                                                                         *)
(* A solve is known by its number: it stands for the policy and the value  *)
(* it computed, entry by entry.                                            *)
(***************************************************************************)
EXTENDS Solver, Sequences
PX == INSTANCE SequencesExt

CONSTANTS
  TableSize,   \* kNumStates
  OurShape,    \* the discretisation of this build
  OtherShapes, \* and of others
  MaxSolves    \* bound on the solves

ASSUME TableSizeAssumption == TableSize \in Nat \ {0}
ASSUME ShapesAssumption == OurShape \notin OtherShapes

VARIABLES
  solves,    \* solves begun
  shipped,   \* history: the solves whose table was to be written
  tfile,     \* the file
  table      \* the PolicyTable of the strategy

tvars == <<svars, solves, shipped, tfile, table>>

\* The header: magic and schema are right or not, the shape, and what the solve
\* left of itself.
NoHeader == [known |-> FALSE, shape |-> OurShape, solve |-> 0]
HeaderOf(shape, n) == [known |-> TRUE, shape |-> shape, solve |-> n]

\* An action the action set does not have.
Outside == -1

\* A file is its items in order: the header, the actions, the values.
Items(shape, actions, n) ==
  [i \in 1 .. 2 * TableSize + 1 |->
     IF i = 1 THEN [header |-> HeaderOf(shape, n)]
     ELSE IF i <= TableSize + 1 THEN [action |-> actions] ELSE [value |-> n]]
\* Absent and empty files are refused alike.
Absent == <<>>

Empty == [header |-> NoHeader, actions |-> <<>>, values |-> <<>>]
Loaded(n) ==
  [header |-> HeaderOf(OurShape, n), actions |-> [i \in 1 .. TableSize |-> n],
   values |-> [i \in 1 .. TableSize |-> n]]

TableInit ==
  SolverInit /\ solves = 1 /\ shipped = {} /\ tfile = Absent /\ table = Empty

\* The solver works.
Solving == SolverNext /\ UNCHANGED <<solves, shipped, tfile, table>>

\* apps/solve runs again.
SolveAgain ==
  /\ stage = "done" /\ solves < MaxSolves /\ solves' = solves + 1
  /\ stage' = "improve" /\ sweeps' = 0 /\ evals' = 0 /\ policy' = 0 /\ verdict' = "none"
  /\ UNCHANGED <<shipped, tfile, table>>

\* apps/solve stops with an error on anything else.
Ships == stage = "done" /\ verdict = "converged"

\* save: the file is emptied and written in place; a full disk or a crash leaves
\* any part of it, and save or apps/solve says so.
SaveTable ==
  /\ Ships /\ solves \notin shipped
  /\ shipped' = shipped \cup {solves}
  /\ \E n \in 0 .. 2 * TableSize + 1 : tfile' = SubSeq(Items(OurShape, solves, solves), 1, n)
  /\ UNCHANGED <<svars, solves, table>>

\* The file is one of another build, damaged, or not a table at all.
Replaced ==
  /\ tfile' \in {Items(shape, solves, solves) : shape \in OtherShapes}
                \cup {Items(OurShape, Outside, solves), <<[header |-> NoHeader]>>, Absent}
  /\ UNCHANGED <<svars, solves, shipped, table>>

\* A plausible slip, and what the code did first: the policy only is cleared.
FailKeepsValues(t) == [t EXCEPT !.actions = <<>>]
\* fail() clears everything.
Fail(t) == Empty

\* What has been read of the body when it ends too soon.
Body(f) ==
  [i \in 1 .. 2 * TableSize |-> IF i + 1 \in DOMAIN f THEN f[i + 1] ELSE [action |-> 0, value |-> 0]]

\* load, check by check: the header is there and known, the shape is ours; then
\* the body is read over what the table held, and checked.
Load(t, f) ==
  IF f = Absent THEN Fail(t)
  ELSE IF ~f[1].header.known \/ f[1].header.shape # OurShape THEN Fail(t)
  ELSE LET actions == [i \in 1 .. TableSize |-> Body(f)[i].action]
           values == [i \in 1 .. TableSize |-> Body(f)[TableSize + i].value]
           read == [header |-> t.header, actions |-> actions, values |-> values]
       IN IF Len(f) < 2 * TableSize + 1 THEN Fail(read)
          ELSE IF Outside \in PX!ToSet(actions) THEN Fail(read)
          ELSE [header |-> f[1].header, actions |-> actions, values |-> values]

LoadTable ==
  /\ table' = Load(table, tfile)
  /\ UNCHANGED <<svars, solves, shipped, tfile>>

TableNext == Solving \/ SolveAgain \/ SaveTable \/ Replaced \/ LoadTable

TableSpec == TableInit /\ [][TableNext]_tvars

-----------------------------------------------------------------------------
\* action_for: past the end of the table the answer is to quote nothing.
ActionFor(t, code) == IF code < Len(t.actions) THEN t.actions[code + 1] ELSE 0

\* Whatever became of the file, the table is empty or all of it, header, policy
\* and value, comes from one solve that converged; nothing of an older or of a
\* broken table is left behind (src/policy_table.cpp:54).
TableIsOneSolves ==
  /\ table = Empty \/ \E n \in shipped : table = Loaded(n)
  /\ ShipsItsPolicy
=============================================================================
