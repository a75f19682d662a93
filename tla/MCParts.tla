------------------------------ MODULE MCParts ------------------------------
(***************************************************************************)
(* The parts of the system that work on their own and in sequence, checked *)
(* in one run: a behaviour picks one of them and works it.                 *)
(***************************************************************************)
EXTENDS FillLog, OrderMap, Journal, Histogram, DecisionProcess, PolicyTable,
        TabulatedPolicy, BitScan, TLC

VARIABLE part    \* the part that is worked

partVars == <<part, bits, vars, mapVars, jvars, hvars, pvars, tvars, qvars>>

Parts == {"log", "map", "journal", "histogram", "process", "table", "queue", "bits"}

\* No key or value is special, as the hash is any hash.
Symmetry == Permutations(Keys) \cup Permutations(Values)

\* One constant number for each index of a dimension.
Each(S, x) == [i \in S |-> x]

\* Parameters of the process: moves that depend on the imbalance, fills that
\* depend on level and place; some are no probabilities together.
Candidates1 ==
  {[up |-> [i \in 0 .. 1 |-> IF i = 0 THEN u ELSE 1], down |-> Each(0 .. 1, d), adverse |-> v,
    imb |-> [i \in 0 .. 1 |-> IF i = 0 THEN [j \in 0 .. 1 |-> IF j = 0 THEN 2 ELSE 0]
                                       ELSE Each(0 .. 1, 1)],
    fill |-> [l \in 0 .. 1 |-> [q \in 0 .. 2 |-> IF l = 0 THEN f ELSE 1]],
    advance |-> [q \in 0 .. 2 |-> IF q = 1 THEN 2 ELSE 1]] :
     u \in {0, 2}, d \in 0 .. 1, v \in 0 .. 2, f \in 1 .. 2}

\* Samples about the edges of slots, below zero and above the ceiling.
Samples1 == {-1, 3, 7, 9, 16, 25}

Edges1 == <<50>>

PartsInit ==
  /\ part \in Parts
  /\ BitsInit /\ Init /\ JournalInit /\ HistogramInit /\ ProcessInit /\ TableInit
  /\ IF part = "map" THEN MapInit
     ELSE home = [k \in Keys |-> 0] /\ slots = [i \in Places |-> Unused] /\ size = 0 /\ answer = TRUE
  /\ IF part = "queue" THEN QueueInit
     ELSE /\ levels = [p \in PricesHere |-> <<>>] /\ order = NoOrderOut /\ estimate = Flat
          /\ feed = <<>>

PartsNext ==
  /\ UNCHANGED part
  /\ \/ part = "log" /\ Next /\ UNCHANGED <<bits, mapVars, jvars, hvars, pvars, tvars, qvars>>
     \/ part = "map" /\ MapNext /\ UNCHANGED <<bits, vars, jvars, hvars, pvars, tvars, qvars>>
     \/ part = "journal" /\ JournalNext
        /\ UNCHANGED <<bits, vars, mapVars, hvars, pvars, tvars, qvars>>
     \/ part = "histogram" /\ HistogramNext
        /\ UNCHANGED <<bits, vars, mapVars, jvars, pvars, tvars, qvars>>
     \/ part = "process" /\ ProcessNext
        /\ UNCHANGED <<bits, vars, mapVars, jvars, hvars, tvars, qvars>>
     \/ part = "table" /\ TableNext
        /\ UNCHANGED <<bits, vars, mapVars, jvars, hvars, pvars, qvars>>
     \/ part = "queue" /\ QueueNext
        /\ UNCHANGED <<bits, vars, mapVars, jvars, hvars, pvars, tvars>>
     \/ part = "bits" /\ FlipBit
        /\ UNCHANGED <<vars, mapVars, jvars, hvars, pvars, tvars, qvars>>

PartsSpec == PartsInit /\ [][PartsNext]_partVars
=============================================================================
