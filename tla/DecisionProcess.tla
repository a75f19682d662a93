-------------------------- MODULE DecisionProcess --------------------------
(***************************************************************************)
(* The market-making decision process of src/mdp.cpp: what one epoch does  *)
(* to the position and to the two quotes, with which probability, and the  *)
(* checks of its parameters.                                               *)
(*                                                                         *)
(* A probability is a number of parts of One.  Each outcome is a product   *)
(* of five of them and a transition of six, so that the transitions of an  *)
(* action add up to One^6, exactly: the code asks for 1e-9.  Rewards are   *)
(* left out but for which side earned its edge and which way the mid went. *)
(*                                                                         *)
(* The process is walked: any admissible action, any transition.           *)
(***************************************************************************)
EXTENDS PolicyState
DX == INSTANCE SequencesExt

CONSTANTS
  One,          \* the parts of a certainty
  Candidates    \* parameters offered to the solver

ASSUME OneAssumption == One \in Nat \ {0}

VARIABLES
  params,   \* MdpParams, once they have passed
  at        \* the state, as its code

pvars == <<params, at>>

QuoteLevelSet == 0 .. QuoteLevels - 1
QueueBucketSet == 0 .. QueueBuckets - 1
ImbSet == 0 .. ImbBuckets - 1
Prob(x) == x \in 0 .. One

RowSum(row) == DX!FoldLeft(+, 0, [j \in 1 .. ImbBuckets |-> row[j - 1]])

MovesExclude(p, i) == Prob(p.up[i]) /\ Prob(p.down[i]) /\ p.up[i] + p.down[i] <= One

\* validate, as far as it is about probabilities.
Valid(p) ==
  /\ Prob(p.adverse)
  /\ \A i \in ImbSet : /\ MovesExclude(p, i)
                     /\ \A j \in ImbSet : Prob(p.imb[i][j])
                     /\ RowSum(p.imb[i]) = One
  /\ \A l \in QuoteLevelSet, q \in QueueBucketSet : Prob(p.fill[l][q])
  /\ \A q \in QueueBucketSet : Prob(p.advance[q])

-----------------------------------------------------------------------------
(***************************************************************************)
(* One side, before and after the market moves.                            *)
(***************************************************************************)

\* Asking for the level already quoted holds the place in its queue; asking for
\* another one joins its back.
ApplyAction(side, act) ==
  IF act = 0 THEN NoQuote
  ELSE IF Quoting(side) /\ LevelOf(side) = act - 1 THEN side
  ELSE MakeSide(act - 1, BackOfQueue)

Advance(side) ==
  IF ~Quoting(side) \/ QueueOf(side) = 0 THEN side ELSE MakeSide(LevelOf(side), QueueOf(side) - 1)

\* The book slides one level: away from a quote, which may leave the modelled
\* levels, or towards one that was not at the touch.
StepAway(side) ==
  IF Quoting(side) /\ LevelOf(side) + 1 < QuoteLevels
  THEN MakeSide(LevelOf(side) + 1, QueueOf(side)) ELSE NoQuote
StepToward(side) ==
  IF Quoting(side) /\ LevelOf(side) > 0
  THEN MakeSide(LevelOf(side) - 1, QueueOf(side)) ELSE NoQuote

\* The parameters of a side; a flat one is never filled and never advances.
FillProb(p, side) == IF Quoting(side) THEN p.fill[LevelOf(side)][QueueOf(side)] ELSE 0
AdvanceProb(p, side) ==
  IF Quoting(side) /\ QueueOf(side) > 0 THEN p.advance[QueueOf(side)] ELSE 0

TakenByMove(side) == Quoting(side) /\ LevelOf(side) = 0

ClampInventory(n) ==
  IF n > MaxInventory THEN MaxInventory ELSE IF n < -MaxInventory THEN -MaxInventory ELSE n

\* A plausible slip: the limit holds for the position we are in, long.
LongOnly(s, a) == ~(s.inventory >= MaxInventory /\ a.bid # 0)
\* The position limit is a limit on the action.
Admissible(s, a) ==
  /\ ~(s.inventory >= MaxInventory /\ a.bid # 0)
  /\ ~(s.inventory <= -MaxInventory /\ a.ask # 0)

-----------------------------------------------------------------------------
(***************************************************************************)
(* One epoch.                                                              *)
(***************************************************************************)
Not(x) == One - x
Outcome(prob, inventory, bid, ask) ==
  [prob |-> prob, inventory |-> inventory, bid |-> bid, ask |-> ask]

\* The mid went through a side: taken if it was at the touch, and what that cost
\* depends on whether the move is still there later.
MovedUp(p, s, b, a) ==
  IF TakenByMove(a)
  THEN <<Outcome(p.up[s.imb] * p.adverse * One ^ 3, s.inventory - 1, StepAway(b), NoQuote),
         Outcome(p.up[s.imb] * Not(p.adverse) * One ^ 3, s.inventory - 1, StepAway(b), NoQuote)>>
  ELSE <<Outcome(p.up[s.imb] * One ^ 4, s.inventory, StepAway(b), StepToward(a))>>

MovedDown(p, s, b, a) ==
  IF TakenByMove(b)
  THEN <<Outcome(p.down[s.imb] * p.adverse * One ^ 3, s.inventory + 1, NoQuote, StepAway(a)),
         Outcome(p.down[s.imb] * Not(p.adverse) * One ^ 3, s.inventory + 1, NoQuote, StepAway(a))>>
  ELSE <<Outcome(p.down[s.imb] * One ^ 4, s.inventory, StepToward(b), StepAway(a))>>

\* A plausible slip, and the first version of the code: at most one side fills.
HeldOneSide(p, s, b, a) ==
  LET hold == One - p.up[s.imb] - p.down[s.imb]
      fb == FillProb(p, b)
      fa == FillProb(p, a)
  IN <<Outcome(hold * fb * One ^ 3, s.inventory + 1, NoQuote, a),
       Outcome(hold * fa * One ^ 3, s.inventory - 1, b, NoQuote),
       Outcome(hold * (One - fb - fa) * One ^ 3, s.inventory, b, a)>>

\* The mid held: each side may be filled where it stands, on its own, and the
\* queue before one that was not may drain.
Held(p, s, b, a) ==
  LET hold == One - p.up[s.imb] - p.down[s.imb]
      fb == FillProb(p, b)
      fa == FillProb(p, a)
      db == AdvanceProb(p, b)
      da == AdvanceProb(p, a)
      both == hold * fb * fa
      bought == hold * fb * Not(fa)
      sold == hold * Not(fb) * fa
      none == hold * Not(fb) * Not(fa)
  IN <<Outcome(both * One ^ 2, s.inventory, NoQuote, NoQuote),
       Outcome(bought * Not(da) * One, s.inventory + 1, NoQuote, a),
       Outcome(bought * da * One, s.inventory + 1, NoQuote, Advance(a)),
       Outcome(sold * Not(db) * One, s.inventory - 1, b, NoQuote),
       Outcome(sold * db * One, s.inventory - 1, Advance(b), NoQuote),
       Outcome(none * Not(db) * Not(da), s.inventory, b, a),
       Outcome(none * db * Not(da), s.inventory, Advance(b), a),
       Outcome(none * Not(db) * da, s.inventory, b, Advance(a)),
       Outcome(none * db * da, s.inventory, Advance(b), Advance(a))>>

\* The outcomes that can happen, before the position is clamped.
Outcomes(p, s, act) ==
  LET b == ApplyAction(s.bid, act.bid)
      a == ApplyAction(s.ask, act.ask)
  IN SelectSeq(MovedUp(p, s, b, a) \o MovedDown(p, s, b, a) \o Held(p, s, b, a),
               LAMBDA o : o.prob > 0)

\* expand: each outcome in each imbalance that can follow.
Expand(p, s, act) ==
  LET next(o, j) == [inventory |-> ClampInventory(o.inventory), bid |-> o.bid, ask |-> o.ask,
                     imb |-> j]
      after(o) == SelectSeq([j \in 1 .. ImbBuckets |->
                               [next |-> Encode(next(o, j - 1)),
                                prob |-> o.prob * p.imb[s.imb][j - 1]]],
                            LAMBDA t : t.prob > 0)
  IN DX!FlattenSeq([i \in DOMAIN Outcomes(p, s, act) |-> after(Outcomes(p, s, act)[i])])

\* stochastic, of one state and action.
SumsToOne(p, s, act) ==
  DX!FoldLeft(LAMBDA n, t : n + t.prob, 0, Expand(p, s, act)) = One ^ 6

-----------------------------------------------------------------------------
Unset == [valid |-> FALSE]

ProcessInit == params = Unset /\ at = 0

\* apps/solve goes on only with parameters that pass.
Accept ==
  /\ params = Unset
  /\ params' \in {p \in Candidates : Valid(p)}
  /\ at' = Encode([inventory |-> 0, bid |-> NoQuote, ask |-> NoQuote, imb |-> 0])

Epoch ==
  /\ params # Unset
  /\ \E act \in Actions :
       /\ Admissible(Decode(at), act)
       /\ at' \in {t.next : t \in DX!ToSet(Expand(params, Decode(at), act))}
  /\ UNCHANGED params

ProcessNext == Accept \/ Epoch

\* What the process may be asked to do where it is.
Choices == IF params = Unset THEN {} ELSE {act \in Actions : Admissible(Decode(at), act)}

-----------------------------------------------------------------------------
\* Whatever parameters pass the checks, the transitions of every admissible
\* action from every state the process gets to add up to one: value iteration
\* contracts (src/mdp.cpp:261).
TransitionsSumToOne ==
  \A act \in Choices : SumsToOne(params, Decode(at), act)

\* No admissible action leads past the position limit, where a fill would pay
\* and change nothing, and what the table is indexed with is the state meant
\* (src/mdp.cpp:113, include/lob/policy/state.hpp:118).
SuccessorsAreWhatHappened ==
  \A act \in Choices :
    {[Decode(t.next) EXCEPT !.imb = 0] : t \in DX!ToSet(Expand(params, Decode(at), act))} =
    {[inventory |-> o.inventory, bid |-> o.bid, ask |-> o.ask, imb |-> 0] :
       o \in DX!ToSet(Outcomes(params, Decode(at), act))}

=============================================================================
