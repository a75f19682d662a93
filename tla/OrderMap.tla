------------------------------ MODULE OrderMap ------------------------------
(***************************************************************************)
(* The id map of include/lob/book/order_map.hpp: open addressing with      *)
(* linear probing in a table of fixed capacity, and backward-shift         *)
(* deletion, which closes the hole an entry leaves by moving back later    *)
(* entries of the chain, around the end of the table if need be.           *)
(*                                                                         *)
(* The hash is any hash: where each key wants to be is chosen at the start *)
(* and TLC tries every choice.  The table of the code has at least sixteen *)
(* slots; a small one wraps and fills sooner.  What an unused slot still   *)
(* holds is never read, and is forgotten here.                             *)
(***************************************************************************)
EXTENDS Integers, FiniteSets

CONSTANTS
  Keys,       \* order ids
  Values,     \* pool slots
  Capacity,   \* number of slots of the table
  NoValue     \* kEmpty

ASSUME CapacityAssumption == Capacity \in Nat \ {0}
ASSUME NoValueAssumption == NoValue \notin Values

VARIABLES
  home,    \* mix(key) & mask_: where each key wants to be
  slots,
  size,
  answer   \* what the last insert or erase returned

mapVars == <<home, slots, size, answer>>

Places == 0 .. Capacity - 1
Unused == [used |-> FALSE, key |-> NoValue, value |-> NoValue]
Used(k, v) == [used |-> TRUE, key |-> k, value |-> v]

-----------------------------------------------------------------------------
\* The n-th slot from i on, around the table.
From(i, n) == (i + n) % Capacity

\* A probe for k stops at an unused slot or at its key.
Stops(k, i) == ~slots[i].used \/ slots[i].key = k

\* The number of slots a probe for k looks past, if it ends at all: on a full
\* table a probe for a key that is absent goes round for ever.
Ends(k) == \E n \in Places : Stops(k, From(home[k], n))
Distance(k) ==
  CHOOSE n \in Places : /\ Stops(k, From(home[k], n))
                        /\ \A m \in 0 .. n - 1 : ~Stops(k, From(home[k], m))
Probe(k) == From(home[k], Distance(k))

Find(k) == IF slots[Probe(k)].used THEN slots[Probe(k)].value ELSE NoValue

\* A plausible slip: the hole and the slot are taken to be in order.
BlockedInOrder(i, j, k) == i < k /\ k <= j

\* An entry in slot j that wants to be in slot k, cyclically after the hole i,
\* would leave its chain by moving into the hole.
Blocked(i, j, k) == IF i <= j THEN i < k /\ k <= j ELSE i < k \/ k <= j

\* How far behind hole i the first entry is that may move into it: none is
\* looked for past the next unused slot.
Movable(T, i) ==
  {n \in 1 .. Capacity - 1 :
     /\ \A m \in 1 .. n : T[From(i, m)].used
     /\ ~Blocked(i, From(i, n), home[T[From(i, n)].key])}
Nearest(N) == CHOOSE n \in N : \A m \in N : n <= m

\* erase_at: entries move into the hole, each leaving a new one, until no entry
\* may.
Shifted(i) ==
  LET moved[n \in Places] ==
        IF n = 0 THEN [slots |-> slots, hole |-> i]
        ELSE LET c == moved[n - 1]
                 j == From(c.hole, Nearest(Movable(c.slots, c.hole)))
             IN IF Movable(c.slots, c.hole) = {} THEN c
                ELSE [slots |-> [c.slots EXCEPT ![c.hole] = c.slots[j]], hole |-> j]
  IN moved[Capacity - 1]

\* The last hole is freed.
EraseAt(i) == LET s == Shifted(i) IN [s.slots EXCEPT ![s.hole] = Unused]

-----------------------------------------------------------------------------
MapInit ==
  /\ home \in [Keys -> Places]
  /\ slots = [i \in Places |-> Unused]
  /\ size = 0
  /\ answer = TRUE

\* insert refuses when the table is full, before it probes, or the key is there.
Insert(k, v) ==
  /\ LET fits == size < Capacity /\ ~slots[Probe(k)].used
     IN /\ answer' = fits
        /\ slots' = IF fits THEN [slots EXCEPT ![Probe(k)] = Used(k, v)] ELSE slots
        /\ size' = IF fits THEN size + 1 ELSE size
  /\ UNCHANGED home

\* erase, when its probe ends.
Erase(k) ==
  /\ Ends(k)
  /\ LET found == slots[Probe(k)].used
     IN /\ answer' = found
        /\ slots' = IF found THEN EraseAt(Probe(k)) ELSE slots
        /\ size' = IF found THEN size - 1 ELSE size
  /\ UNCHANGED home

MapClear ==
  /\ slots' = [i \in Places |-> Unused] /\ size' = 0 /\ answer' = TRUE
  /\ UNCHANGED home

MapNext ==
  \/ \E k \in Keys, v \in Values : Insert(k, v)
  \/ \E k \in Keys : Erase(k)
  \/ MapClear

MapSpec == MapInit /\ [][MapNext]_mapVars

-----------------------------------------------------------------------------
\* A call on the table, and what it returns, is the call on a map: the probes,
\* chains and shifts never lose, revive, duplicate, cut off or swap an entry,
\* whatever was erased in whatever order (include/lob/book/order_map.hpp:130).
\* A key whose probe never ends is absent: only a full table has such keys.
Map == INSTANCE KeyMap WITH map <- [k \in Keys |-> IF Ends(k) THEN Find(k) ELSE NoValue]
ImplementsMap == Map!Spec
=============================================================================
