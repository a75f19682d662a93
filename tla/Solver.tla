------------------------------- MODULE Solver -------------------------------
(***************************************************************************)
(* The control of solve in src/mdp.cpp, modified policy iteration: a       *)
(* greedy improvement, then evaluations of the policy it chose, until an   *)
(* improvement changes the value by less than the tolerance, the value     *)
(* runs away, or the sweeps are used up.                                   *)
(*                                                                         *)
(* Values are numbered instead of computed, and how much an improvement    *)
(* changes them is any of small, large, and past what a discounted process *)
(* can reach.                                                              *)
(***************************************************************************)
EXTENDS Integers

CONSTANTS
  MaxSweeps,   \* max_sweeps
  Evals        \* kEval

ASSUME MaxSweepsAssumption == MaxSweeps \in Nat
ASSUME EvalsAssumption == Evals \in Nat

VARIABLES
  stage,    \* "improve", "evaluate" or "done"
  sweeps,   \* backups of the whole state space
  evals,    \* evaluations since the last improvement
  policy,   \* the sweep that chose the policy
  verdict   \* "converged", "diverged", "stopped", or "none" while it runs

svars == <<stage, sweeps, evals, policy, verdict>>

SolverInit ==
  stage = "improve" /\ sweeps = 0 /\ evals = 0 /\ policy = 0 /\ verdict = "none"

Improve ==
  /\ stage = "improve" /\ sweeps < MaxSweeps
  /\ sweeps' = sweeps + 1 /\ policy' = sweeps + 1 /\ evals' = 0
  /\ \/ stage' = "done" /\ verdict' \in {"converged", "diverged"}
     \/ stage' = "evaluate" /\ UNCHANGED verdict

\* A plausible slip: evaluations are not counted against the budget.
EvaluatesOn == evals < Evals
MayEvaluate == evals < Evals /\ sweeps < MaxSweeps

Evaluate ==
  /\ stage = "evaluate"
  /\ IF MayEvaluate
     THEN sweeps' = sweeps + 1 /\ evals' = evals + 1 /\ UNCHANGED stage
     ELSE stage' = "improve" /\ UNCHANGED <<sweeps, evals>>
  /\ UNCHANGED <<policy, verdict>>

GiveUp ==
  /\ stage = "improve" /\ sweeps >= MaxSweeps
  /\ stage' = "done" /\ verdict' = "stopped" /\ UNCHANGED <<sweeps, evals, policy>>

SolverNext == Improve \/ Evaluate \/ GiveUp

\* What is returned as converged is the policy of the sweep that made the value
\* it comes with.
ShipsItsPolicy == verdict = "converged" => policy = sweeps

\* Sweeps are backups of the whole state space, improvements and evaluations,
\* and there are never more than asked for (include/lob/policy/mdp.hpp:179).
KeepsItsBudget == sweeps <= MaxSweeps
=============================================================================
