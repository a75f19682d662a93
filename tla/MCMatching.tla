----------------------------- MODULE MCMatching -----------------------------
(***************************************************************************)
(* Instances of Matching for TLC.  The last submission and its result are  *)
(* read by action properties only, and order ids are interchangeable, so   *)
(* states with the same queues of sizes and owners are the same state.     *)
(***************************************************************************)
EXTENDS Matching

\* front_order_at answers zero for an empty level, so an order whose id is
\* zero reads as none at the front of its own; the instances, like every
\* component that hands out ids, number orders from one.
MatchView ==
  <<[sd \in Sides |-> [p \in Prices |->
       [i \in DOMAIN queues[sd][p] |-> [queues[sd][p][i] EXCEPT !.id = NoFront]]]], smp>>
=============================================================================
