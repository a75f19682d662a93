---------------------------- MODULE MCSimulator ----------------------------
(***************************************************************************)
(* Instances of Simulator for TLC: the configurations of its runs.         *)
(***************************************************************************)
EXTENDS Simulator

\* With fixed latency, with jitter, without latency, and with an agent that only
\* watches for longer.
DelayedInstantAndQuiet ==
  {Config(TRUE, FALSE, 2, 2), Config(TRUE, TRUE, 2, 1), Config(TRUE, TRUE, 1, 2),
   Config(FALSE, TRUE, 2, 1), Config(FALSE, TRUE, 1, 2), Config(TRUE, TRUE, 3, 0)}

Instant == {Config(FALSE, TRUE, 3, 1)}
=============================================================================
