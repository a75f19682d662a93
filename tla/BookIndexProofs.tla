-------------------------- MODULE BookIndexProofs --------------------------
(***************************************************************************)
(* Theorems about the two indexes of the order book, OrderMap and BitScan: *)
(* for any hash, number of slots and history of calls the id map is a map; *)
(* and for any width of a word and any bits set, the scans find the        *)
(* nearest of them.                                                        *)
(*                                                                         *)
(* The table of the map goes round, its chains need not: there is always a *)
(* slot, the cut, that no entry's probe passes, an unused one if there is  *)
(* any.  Counted from the cut, an entry stands at its home or after it,    *)
(* and every slot between the two is used.                                 *)
(***************************************************************************)
EXTENDS OrderMap, BitScan, FiniteSetTheorems, WellFoundedInduction, TLAPS

\* A nonempty set of naturals has a least element.
LEMMA LeastExists ==
  ASSUME NEW S \in SUBSET Nat, S # {}
  PROVE  \E n \in S : \A m \in S : n <= m
<1>1. PICK n \in S : \A m \in S : ~(<<m, n>> \in OpToRel(<, Nat))
  BY WFMin, NatLessThanWellFounded
<1> SUFFICES ASSUME NEW m \in S PROVE n <= m
  BY <1>1
<1>2. <<m, n>> \notin OpToRel(<, Nat)
  BY <1>1
<1>3. ~(m < n)
  BY <1>2 DEF OpToRel
<1> QED
  BY <1>3

-----------------------------------------------------------------------------
(***************************************************************************)
(* Slots around the table.                                                 *)
(***************************************************************************)
\* How far slot p is behind slot a, around the table, and its number when the
\* slot after the cut u is number 0.
Span(a, p) == IF a <= p THEN p - a ELSE p - a + Capacity
Pos(u, p) == IF u < p THEN p - u - 1 ELSE p - u - 1 + Capacity

LEMMA FromIs ==
  ASSUME NEW i \in Places, NEW n \in 0 .. Capacity
  PROVE  /\ From(i, n) = IF i + n < Capacity THEN i + n ELSE i + n - Capacity
         /\ From(i, n) \in Places
<1> USE CapacityAssumption DEF Places
<1>1. CASE i + n < Capacity
  <2>1. (i + n) % Capacity = i + n
    BY <1>1
  <2> QED
    BY <1>1, <2>1 DEF From
<1>2. CASE i + n >= Capacity
  <2>1. (i + n) % Capacity = i + n - Capacity
    BY <1>2
  <2> QED
    BY <1>2, <2>1 DEF From
<1> QED
  BY <1>1, <1>2

\* Every slot is so many slots behind another.
LEMMA SpanReaches ==
  ASSUME NEW a \in Places, NEW p \in Places
  PROVE  Span(a, p) \in Places /\ From(a, Span(a, p)) = p
<1> USE CapacityAssumption DEF Places, Span
<1>1. Span(a, p) \in 0 .. Capacity
  OBVIOUS
<1> QED
  BY <1>1, FromIs

LEMMA SpanOfFrom ==
  ASSUME NEW a \in Places, NEW n \in Places
  PROVE  Span(a, From(a, n)) = n
<1> USE CapacityAssumption DEF Places
<1>1. From(a, n) = IF a + n < Capacity THEN a + n ELSE a + n - Capacity
  <2>1. n \in 0 .. Capacity
    OBVIOUS
  <2> QED
    BY <2>1, FromIs
<1>2. CASE a + n < Capacity
  BY <1>1, <1>2 DEF Span
<1>3. CASE a + n >= Capacity
  BY <1>1, <1>3 DEF Span
<1> QED
  BY <1>2, <1>3

\* Counting from a cut is one to one; the cut itself is the last.
LEMMA PosCounts ==
  ASSUME NEW u \in Places, NEW p \in Places
  PROVE  /\ Pos(u, p) \in Places
         /\ \A q \in Places : Pos(u, p) = Pos(u, q) => p = q
         /\ Pos(u, u) = Capacity - 1
BY CapacityAssumption DEF Places, Pos

\* The slots a probe from home visits before slot i are those between the two,
\* when the home comes first.
LEMMA PosOfFrom ==
  ASSUME NEW u \in Places, NEW a \in Places, NEW n \in Places, Pos(u, a) + n < Capacity
  PROVE  Pos(u, From(a, n)) = Pos(u, a) + n
<1> USE CapacityAssumption DEF Places
<1>1. From(a, n) = IF a + n < Capacity THEN a + n ELSE a + n - Capacity
  <2>1. n \in 0 .. Capacity
    OBVIOUS
  <2> QED
    BY <2>1, FromIs
<1>2. CASE a + n < Capacity
  BY <1>1, <1>2 DEF Pos
<1>3. CASE a + n >= Capacity
  BY <1>1, <1>3 DEF Pos
<1> QED
  BY <1>2, <1>3

LEMMA SpanIsPos ==
  ASSUME NEW u \in Places, NEW a \in Places, NEW p \in Places, Pos(u, a) <= Pos(u, p)
  PROVE  Span(a, p) = Pos(u, p) - Pos(u, a)
BY CapacityAssumption DEF Places, Pos, Span

-----------------------------------------------------------------------------
(***************************************************************************)
(* Tables.                                                                 *)
(***************************************************************************)
Homes == home \in [Keys -> Places]
Entries == {Unused} \cup {Used(k, v) : k \in Keys, v \in Values}
Tables == [Places -> Entries]

\* Key k is in slot i of table T.
HeldAt(T, k, i) == T[i].used /\ T[i].key = k
Held(T, k) == \E i \in Places : HeldAt(T, k, i)

Between(u, a, p, i) == Pos(u, a) <= Pos(u, p) /\ Pos(u, p) <= Pos(u, i)

\* The entry of slot i is in a chain that begins at its home.
Chained(T, u, i) ==
  /\ Pos(u, home[T[i].key]) <= Pos(u, i)
  /\ \A p \in Places : Between(u, home[T[i].key], p, i) => T[p].used
Cut(T, u) == \A i \in Places : T[i].used => Chained(T, u, i)

Distinct(T) == \A k \in Keys : \A i, j \in Places : HeldAt(T, k, i) /\ HeldAt(T, k, j) => i = j

LEMMA EntryIs ==
  ASSUME NEW e \in Entries
  PROVE  /\ e.used \in BOOLEAN
         /\ e.used => e.key \in Keys /\ e.value \in Values /\ e = Used(e.key, e.value)
         /\ ~e.used => e = Unused
<1>1. CASE e = Unused
  BY <1>1 DEF Unused
<1>2. CASE e # Unused
  <2>1. PICK k \in Keys, v \in Values : e = Used(k, v)
    BY <1>2 DEF Entries
  <2>2. e.used = TRUE /\ e.key = k /\ e.value = v
    BY <2>1 DEF Used
  <2> QED
    BY <2>1, <2>2
<1> QED
  BY <1>1, <1>2

LEMMA SlotIs ==
  ASSUME NEW T \in Tables, NEW i \in Places
  PROVE  /\ T[i].used \in BOOLEAN
         /\ T[i].used => T[i].key \in Keys /\ T[i].value \in Values
                         /\ T[i] = Used(T[i].key, T[i].value)
         /\ ~T[i].used => T[i] = Unused
<1>1. T[i] \in Entries
  BY DEF Tables
<1> QED
  BY <1>1, EntryIs

\* An unused slot can always be the cut.
LEMMA UnusedIsACut ==
  ASSUME NEW T \in Tables, Homes, NEW u \in Places, Cut(T, u), NEW v \in Places, ~T[v].used
  PROVE  Cut(T, v)
<1> SUFFICES ASSUME NEW i \in Places, T[i].used PROVE Chained(T, v, i)
  BY DEF Cut
<1> DEFINE h == home[T[i].key]
<1>1. h \in Places
  BY SlotIs DEF Homes
<1>2. Pos(u, h) <= Pos(u, i) /\ \A p \in Places : Between(u, h, p, i) => T[p].used
  BY DEF Cut, Chained
<1>3. ~Between(u, h, v, i)
  BY <1>2
<1> HIDE DEF h
<1>4. Pos(v, h) <= Pos(v, i)
  BY <1>1, <1>2, <1>3, CapacityAssumption DEF Between, Pos, Places
<1>5. ASSUME NEW p \in Places, Between(v, h, p, i) PROVE Between(u, h, p, i)
  BY <1>1, <1>2, <1>3, <1>5, CapacityAssumption DEF Between, Pos, Places
<1> QED
  BY <1>2, <1>4, <1>5 DEF Chained, h

-----------------------------------------------------------------------------
(***************************************************************************)
(* Probes.                                                                 *)
(***************************************************************************)
Stopped(k, n) == Stops(k, From(home[k], n))
FirstStop(k, n) == Stopped(k, n) /\ \A m \in 0 .. n - 1 : ~Stopped(k, m)

\* A probe that ends stops at its first stop.
LEMMA DistanceIs ==
  ASSUME NEW k \in Keys, NEW n \in Places, FirstStop(k, n)
  PROVE  Ends(k) /\ Distance(k) = n
<1>1. Ends(k)
  BY DEF Ends, FirstStop, Stopped
<1>2. ASSUME NEW m \in Places, FirstStop(k, m) PROVE m = n
  BY <1>2 DEF FirstStop, Places
<1>3. Distance(k) = CHOOSE m \in Places : FirstStop(k, m)
  BY DEF Distance, FirstStop, Stopped
<1>4. \E m \in Places : FirstStop(k, m)
  OBVIOUS
<1>5. (CHOOSE m \in Places : FirstStop(k, m)) \in Places
      /\ FirstStop(k, CHOOSE m \in Places : FirstStop(k, m))
  BY <1>4
<1> QED
  BY <1>1, <1>2, <1>3, <1>5

LEMMA FirstStopExists ==
  ASSUME NEW k \in Keys, Ends(k)
  PROVE  \E n \in Places : FirstStop(k, n)
<1> DEFINE S == {n \in Places : Stopped(k, n)}
<1>1. S \in SUBSET Nat /\ S # {}
  BY DEF Ends, Stopped, Places
<1>2. PICK n \in S : \A m \in S : n <= m
  BY <1>1, LeastExists
<1>3. \A m \in 0 .. n - 1 : m \in Places /\ m \notin S
  BY <1>2, CapacityAssumption DEF Places
<1> QED
  BY <1>2, <1>3 DEF FirstStop

\* A table as the calls leave it.
Sound(T) == T \in Tables /\ Distinct(T) /\ \E u \in Places : Cut(T, u)

\* A key that is in the table is found where it is.
LEMMA ProbeFinds ==
  ASSUME Homes, Sound(slots), NEW k \in Keys, NEW i \in Places, HeldAt(slots, k, i)
  PROVE  Ends(k) /\ Probe(k) = i
<1>1. PICK u \in Places : Cut(slots, u)
  BY DEF Sound
<1> DEFINE h == home[k]
           n == Span(h, i)
<1>2. h \in Places
  BY DEF Homes
<1>3. Pos(u, h) <= Pos(u, i) /\ \A p \in Places : Between(u, h, p, i) => slots[p].used
  BY <1>1 DEF Cut, Chained, HeldAt
<1>4. n \in Places /\ From(h, n) = i /\ n = Pos(u, i) - Pos(u, h)
  BY <1>2, <1>3, SpanReaches, SpanIsPos
<1>5. Stopped(k, n)
  BY <1>4 DEF Stopped, Stops, HeldAt
<1>6. ASSUME NEW m \in 0 .. n - 1 PROVE ~Stopped(k, m)
  <2>1. m \in Places /\ m \in 0 .. Capacity /\ m < n
    BY <1>4, CapacityAssumption DEF Places
  <2>2. Pos(u, h) \in Places /\ Pos(u, i) \in Places
    BY <1>2, PosCounts
  <2>3. Pos(u, From(h, m)) = Pos(u, h) + m /\ From(h, m) \in Places
    <3>1. Pos(u, h) + m < Capacity
      BY <1>4, <2>1, <2>2, CapacityAssumption DEF Places
    <3>2. From(h, m) \in Places
      BY <1>2, <2>1, FromIs
    <3> QED
      BY <1>2, <2>1, <3>1, <3>2, PosOfFrom
  <2>4. Between(u, h, From(h, m), i) /\ From(h, m) # i
    BY <1>4, <2>1, <2>2, <2>3 DEF Between, Places
  <2>5. slots[From(h, m)].used
    BY <1>3, <2>3, <2>4
  <2>6. slots[From(h, m)].key # k
    BY <2>3, <2>4, <2>5 DEF Sound, Distinct, HeldAt
  <2> QED
    BY <2>5, <2>6 DEF Stopped, Stops
<1>7. Ends(k) /\ Distance(k) = n
  BY <1>4, <1>5, <1>6, DistanceIs DEF FirstStop
<1> QED
  BY <1>4, <1>7 DEF Probe

\* The probe for a key that is not ends at an unused slot, if there is one, and
\* every slot it looks past is used.
LEMMA ProbeMisses ==
  ASSUME Homes, slots \in Tables, NEW k \in Keys, ~Held(slots, k)
  PROVE  /\ Ends(k) <=> \E p \in Places : ~slots[p].used
         /\ Ends(k) => /\ Probe(k) \in Places /\ ~slots[Probe(k)].used
                       /\ Distance(k) \in Places
                       /\ \A m \in 0 .. Distance(k) - 1 : slots[From(home[k], m)].used
<1> DEFINE h == home[k]
<1>1. h \in Places
  BY DEF Homes
<1>2. \A n \in 0 .. Capacity : From(h, n) \in Places
  BY <1>1, FromIs
<1>3. \A n \in Places : n \in 0 .. Capacity
  BY CapacityAssumption DEF Places
<1>4. \A n \in Places : Stopped(k, n) <=> ~slots[From(h, n)].used
  BY <1>2, <1>3 DEF Stopped, Stops, Held, HeldAt
<1>5. ASSUME NEW p \in Places, ~slots[p].used PROVE Ends(k)
  <2>1. Span(h, p) \in Places /\ From(h, Span(h, p)) = p
    BY <1>1, SpanReaches
  <2> QED
    BY <1>5, <2>1 DEF Ends, Stops
<1>6. ASSUME Ends(k)
      PROVE  /\ Probe(k) \in Places /\ ~slots[Probe(k)].used
             /\ Distance(k) \in Places
             /\ \A m \in 0 .. Distance(k) - 1 : slots[From(home[k], m)].used
  <2>1. PICK n \in Places : FirstStop(k, n)
    BY <1>6, FirstStopExists
  <2>2. Distance(k) = n
    BY <2>1, DistanceIs
  <2>3. Probe(k) \in Places /\ ~slots[Probe(k)].used
    BY <1>2, <1>3, <1>4, <2>1, <2>2 DEF Probe, FirstStop
  <2>4. ASSUME NEW m \in 0 .. n - 1 PROVE slots[From(h, m)].used
    <3>1. m \in Places
      BY CapacityAssumption DEF Places
    <3>2. From(h, m) \in Places
      BY <1>2, <1>3, <3>1
    <3> QED
      BY <1>4, <2>1, <3>1, <3>2, SlotIs DEF FirstStop
  <2> QED
    BY <2>2, <2>3, <2>4
<1> QED
  BY <1>5, <1>6

-----------------------------------------------------------------------------
(***************************************************************************)
(* Erasing.  While the hole in slot h moves on, what is in it counts for   *)
(* nothing, though the slot stays used.                                    *)
(***************************************************************************)
\* The entries but the one in the hole are those that were in the table but the
\* one in slot i, each in a chain.
Moving(T, h, u, i) ==
  /\ T \in Tables /\ h \in Places
  /\ \A p \in Places : T[p].used = slots[p].used
  /\ T[h].used
  /\ \A j \in Places \ {h} : T[j].used => Chained(T, u, j)
  /\ \A k \in Keys, v \in Values :
       (\E j \in Places \ {h} : T[j] = Used(k, v)) <=> (\E j \in Places \ {i} : slots[j] = Used(k, v))
  /\ \A k \in Keys : \A j, l \in Places \ {h} : HeldAt(T, k, j) /\ HeldAt(T, k, l) => j = l

\* Of two slots in a chain, the one further on is blocked by a home between them;
\* a slot on the other side of the cut always is.
LEMMA BlockedMeans ==
  ASSUME NEW u \in Places, NEW h \in Places, NEW j \in Places, NEW a \in Places,
         Pos(u, a) <= Pos(u, j)
  PROVE  /\ Pos(u, h) < Pos(u, j) => (Blocked(h, j, a) <=> Pos(u, h) < Pos(u, a))
         /\ Pos(u, j) < Pos(u, h) => Blocked(h, j, a)
BY CapacityAssumption DEF Places, Pos, Blocked

\* An entry moves into the hole, from behind it, and no further than its home.
LEMMA HoleMoves ==
  ASSUME Homes, NEW u \in Places, NEW i \in Places, NEW T, NEW h, Moving(T, h, u, i),
         NEW n \in Movable(T, h)
  PROVE  /\ Moving([T EXCEPT ![h] = T[From(h, n)]], From(h, n), u, i)
         /\ Pos(u, h) < Pos(u, From(h, n))
<1> DEFINE j == From(h, n)
           U == [T EXCEPT ![h] = T[j]]
           a == home[T[j].key]
<1>1. T \in Tables /\ h \in Places
  BY DEF Moving
<1>2. n \in 1 .. Capacity - 1 /\ \A m \in 1 .. n : T[From(h, m)].used
  BY DEF Movable
<1>3. j \in Places /\ j # h
  <2>1. n \in 0 .. Capacity
    BY <1>2, CapacityAssumption
  <2>2. j \in Places /\ j = IF h + n < Capacity THEN h + n ELSE h + n - Capacity
    BY <1>1, <2>1, FromIs
  <2> QED
    BY <1>1, <1>2, <2>2, CapacityAssumption DEF Places
<1>4. T[j].used /\ ~Blocked(h, j, a)
  <2>1. n \in 1 .. n
    BY <1>2, CapacityAssumption
  <2>2. ~Blocked(h, j, a)
    BY DEF Movable
  <2> QED
    BY <1>2, <2>1, <2>2
<1>5. a \in Places /\ T[j].key \in Keys
  BY <1>1, <1>3, <1>4, SlotIs DEF Homes
<1>6. Pos(u, a) <= Pos(u, j) /\ \A p \in Places : Between(u, a, p, j) => T[p].used
  BY <1>3, <1>4 DEF Moving, Chained
<1>7. Pos(u, h) < Pos(u, j) /\ Pos(u, a) <= Pos(u, h)
  <2>1. Pos(u, h) # Pos(u, j) /\ Pos(u, h) \in Int /\ Pos(u, j) \in Int /\ Pos(u, a) \in Int
    BY <1>1, <1>3, <1>5, PosCounts, CapacityAssumption DEF Places
  <2> QED
    BY <1>1, <1>3, <1>4, <1>5, <1>6, <2>1, BlockedMeans
<1> HIDE DEF j, a
<1>8. U \in Tables /\ \A p \in Places : U[p] = IF p = h THEN T[j] ELSE T[p]
  <2>1. T[j] \in Entries
    BY <1>1, <1>3 DEF Tables
  <2> QED
    BY <1>1, <2>1 DEF Tables
<1> HIDE DEF U
<1>9. \A p \in Places : U[p].used = T[p].used
  BY <1>1, <1>4, <1>8 DEF Moving
<1>10. ASSUME NEW l \in Places \ {j}, U[l].used PROVE Chained(U, u, l)
  <2>1. CASE l = h
    <3>1. home[U[l].key] = a
      BY <1>1, <1>8, <2>1 DEF a
    <3>2. ASSUME NEW p \in Places, Between(u, a, p, h) PROVE U[p].used
      <4>1. Between(u, a, p, j)
        BY <1>1, <1>3, <1>7, <3>2, PosCounts, CapacityAssumption DEF Between, Places
      <4> QED
        BY <1>6, <1>9, <4>1
    <3> QED
      BY <1>7, <2>1, <3>1, <3>2 DEF Chained
  <2>2. CASE l # h
    <3>1. U[l] = T[l] /\ Chained(T, u, l)
      BY <1>8, <1>10, <2>2 DEF Moving
    <3> QED
      BY <1>9, <3>1 DEF Chained
  <2> QED
    BY <2>1, <2>2
<1>11. ASSUME NEW k \in Keys, NEW v \in Values
       PROVE  (\E l \in Places \ {j} : U[l] = Used(k, v))
              <=> (\E l \in Places \ {i} : slots[l] = Used(k, v))
  <2>1. (\E l \in Places \ {j} : U[l] = Used(k, v)) <=> (\E l \in Places \ {h} : T[l] = Used(k, v))
    <3>1. ASSUME NEW l \in Places \ {j}, U[l] = Used(k, v)
          PROVE  \E m \in Places \ {h} : T[m] = Used(k, v)
      BY <1>3, <1>8, <3>1
    <3>2. ASSUME NEW m \in Places \ {h}, T[m] = Used(k, v)
          PROVE  \E l \in Places \ {j} : U[l] = Used(k, v)
      BY <1>1, <1>3, <1>8, <3>2
    <3> QED
      BY <3>1, <3>2
  <2> QED
    BY <2>1 DEF Moving
<1>12. ASSUME NEW k \in Keys, NEW l \in Places \ {j}, NEW m \in Places \ {j},
              HeldAt(U, k, l), HeldAt(U, k, m)
       PROVE  l = m
  <2> DEFINE Was(x) == IF x = h THEN j ELSE x
  <2>1. Was(l) \in Places \ {h} /\ Was(m) \in Places \ {h}
    BY <1>3
  <2>2. HeldAt(T, k, Was(l)) /\ HeldAt(T, k, Was(m))
    BY <1>8, <1>12 DEF HeldAt
  <2>3. Was(l) = Was(m)
    BY <2>1, <2>2 DEF Moving
  <2> QED
    BY <2>3
<1>13. \A p \in Places : U[p].used = slots[p].used
  BY <1>9 DEF Moving
<1>14. U[j].used
  BY <1>3, <1>4, <1>9
<1>15. Moving(U, j, u, i)
  BY <1>3, <1>8, <1>10, <1>11, <1>12, <1>13, <1>14 DEF Moving
<1> QED
  BY <1>7, <1>15 DEF U, j

\* A hole into which nothing may move can be freed: no chain goes through it.
LEMMA HoleIsFreed ==
  ASSUME Homes, NEW u \in Places, NEW i \in Places, NEW T, NEW h, Moving(T, h, u, i),
         Movable(T, h) = {}, NEW F \in Tables,
         \A p \in Places : F[p] = IF p = h THEN Unused ELSE T[p]
  PROVE  /\ Sound(F)
         /\ \A k \in Keys, v \in Values :
              (\E j \in Places : F[j] = Used(k, v))
              <=> (\E j \in Places \ {i} : slots[j] = Used(k, v))
<1>1. T \in Tables /\ h \in Places
  BY DEF Moving
<1>2. F \in Tables /\ \A p \in Places : F[p] = IF p = h THEN Unused ELSE T[p]
  OBVIOUS
<1>3. ~Unused.used /\ \A k, v : Unused # Used(k, v)
  BY DEF Unused, Used
<1>4. ASSUME NEW j \in Places, F[j].used PROVE Chained(F, u, j)
  <2> DEFINE a == home[T[j].key]
  <2>1. j # h /\ F[j] = T[j] /\ T[j].used
    BY <1>2, <1>3, <1>4
  <2>2. a \in Places
    BY <1>1, <2>1, SlotIs DEF Homes
  <2>3. Pos(u, a) <= Pos(u, j) /\ \A p \in Places : Between(u, a, p, j) => T[p].used
    BY <2>1 DEF Moving, Chained
  <2>4. ~Between(u, a, h, j)
    <3> SUFFICES ASSUME Between(u, a, h, j) PROVE FALSE
      OBVIOUS
    <3> DEFINE n == Span(h, j)
    <3>1. Pos(u, h) \in Places /\ Pos(u, j) \in Places /\ Pos(u, a) \in Places /\ Pos(u, h) # Pos(u, j)
      BY <1>1, <2>1, <2>2, PosCounts
    <3>2. Pos(u, a) <= Pos(u, h) /\ Pos(u, h) < Pos(u, j)
      BY <3>1 DEF Between, Places
    <3>3. n = Pos(u, j) - Pos(u, h) /\ From(h, n) = j
      BY <1>1, <3>1, <3>2, SpanIsPos, SpanReaches DEF Places
    <3>4. n \in 1 .. Capacity - 1
      BY <3>1, <3>2, <3>3, CapacityAssumption DEF Places
    <3> HIDE DEF n, a
    <3>5. ASSUME NEW m \in 1 .. n PROVE T[From(h, m)].used
      <4>1. m \in Places /\ m \in 0 .. Capacity /\ Pos(u, h) + m < Capacity
        BY <3>1, <3>3, <3>4, CapacityAssumption DEF Places
      <4>2. Pos(u, From(h, m)) = Pos(u, h) + m
        BY <1>1, <4>1, PosOfFrom
      <4>3. From(h, m) \in Places
        BY <1>1, <4>1, FromIs
      <4>4. Between(u, a, From(h, m), j)
        BY <3>1, <3>2, <3>3, <3>4, <4>2 DEF Between, Places
      <4> QED
        BY <2>3, <4>3, <4>4 DEF a
    <3>6. Blocked(h, j, a)
      BY <3>3, <3>4, <3>5 DEF Movable, a
    <3> QED
      BY <1>1, <2>2, <2>3, <3>1, <3>2, <3>6, BlockedMeans DEF Places
  <2> QED
    BY <1>2, <2>1, <2>3, <2>4 DEF Chained
<1>5. Distinct(F)
  <2> SUFFICES ASSUME NEW k \in Keys, NEW j \in Places, NEW l \in Places,
                      HeldAt(F, k, j), HeldAt(F, k, l)
               PROVE  j = l
    BY DEF Distinct
  <2>1. j # h /\ l # h /\ HeldAt(T, k, j) /\ HeldAt(T, k, l)
    BY <1>2, <1>3 DEF HeldAt
  <2> QED
    BY <2>1 DEF Moving
<1>6. ASSUME NEW k \in Keys, NEW v \in Values
      PROVE  (\E j \in Places : F[j] = Used(k, v)) <=> (\E j \in Places \ {i} : slots[j] = Used(k, v))
  <2>1. (\E j \in Places : F[j] = Used(k, v)) <=> (\E j \in Places \ {h} : T[j] = Used(k, v))
    BY <1>2, <1>3
  <2> QED
    BY <2>1 DEF Moving
<1>7. Sound(F)
  BY <1>2, <1>4, <1>5 DEF Sound, Cut
<1> QED
  BY <1>6, <1>7

\* One turn of the loop, and all of them from a hole in slot i.
Turn(c) ==
  LET j == From(c.hole, Nearest(Movable(c.slots, c.hole)))
  IN IF Movable(c.slots, c.hole) = {} THEN c
     ELSE [slots |-> [c.slots EXCEPT ![c.hole] = c.slots[j]], hole |-> j]
Hole(i) == [slots |-> slots, hole |-> i]
TurnsOf(g, i) == g[0] = Hole(i) /\ \A n \in 1 .. Capacity - 1 : g[n] = Turn(g[n - 1])

\* The recursive function is there.
LEMMA ShiftedTurns ==
  ASSUME NEW i
  PROVE  \E g : TurnsOf(g, i) /\ Shifted(i) = g[Capacity - 1]
<1> DEFINE Walks(f) == f = [n \in Places |-> IF n = 0 THEN Hole(i) ELSE Turn(f[n - 1])]
           moved == CHOOSE f : Walks(f)
<1>1. Shifted(i) = moved[Capacity - 1]
  BY DEF Shifted, Turn, Hole
<1> USE CapacityAssumption DEF Places
<1> DEFINE UpTo(f, k) == /\ f = [n \in Places |-> f[n]] /\ f[0] = Hole(i)
                         /\ \A n \in 1 .. k : f[n] = Turn(f[n - 1])
           Bad == {k \in Places : ~\E f : UpTo(f, k)}
<1> HIDE DEF UpTo
<1>2. Bad = {}
  <2> SUFFICES ASSUME Bad # {} PROVE FALSE
    OBVIOUS
  <2>1. PICK k \in Bad : \A j \in Bad : k <= j
    <3>1. Bad \in SUBSET Nat
      OBVIOUS
    <3> QED
      BY <3>1, LeastExists
  <2>2. k # 0
    <3> DEFINE f == [n \in Places |-> Hole(i)]
    <3>1. f = [n \in Places |-> f[n]] /\ f[0] = Hole(i)
      OBVIOUS
    <3> HIDE DEF f
    <3>2. UpTo(f, 0)
      BY <3>1 DEF UpTo
    <3> QED
      BY <2>1, <3>2
  <2>3. k \in 1 .. Capacity - 1 /\ k - 1 \in Places /\ k - 1 \notin Bad
    BY <2>1, <2>2
  <2>4. PICK f : UpTo(f, k - 1)
    BY <2>3
  <2> DEFINE g == [n \in Places |-> IF n = k THEN Turn(f[k - 1]) ELSE f[n]]
  <2>5. UpTo(g, k)
    <3>1. f[0] = Hole(i) /\ \A n \in 1 .. k - 1 : f[n] = Turn(f[n - 1])
      BY <2>4 DEF UpTo
    <3>2. g[k] = Turn(f[k - 1]) /\ \A n \in 0 .. k - 1 : g[n] = f[n]
      BY <2>3
    <3>3. g = [n \in Places |-> g[n]]
      OBVIOUS
    <3> HIDE DEF g
    <3>4. \A n \in 1 .. k : g[n] = Turn(g[n - 1])
      <4> SUFFICES ASSUME NEW n \in 1 .. k PROVE g[n] = Turn(g[n - 1])
        OBVIOUS
      <4>1. n - 1 \in 0 .. k - 1 /\ (n = k \/ n \in 1 .. k - 1)
        BY <2>3
      <4> QED
        BY <2>3, <3>1, <3>2, <4>1
    <3>5. g[0] = Hole(i)
      BY <2>3, <3>1, <3>2
    <3> QED
      BY <3>3, <3>4, <3>5 DEF UpTo
  <2> QED
    BY <2>1, <2>5
<1>3. \E f : Walks(f)
  <2>0. Capacity - 1 \in Places /\ Capacity - 1 \notin Bad
    BY <1>2
  <2>1. PICK f : UpTo(f, Capacity - 1)
    BY <2>0
  <2>2. f = [n \in Places |-> f[n]]
    BY <2>1, Zenon DEF UpTo
  <2> DEFINE x(n) == IF n = 0 THEN Hole(i) ELSE Turn(f[n - 1])
  <2>4. \A n \in Places : f[n] = x(n)
    <3> SUFFICES ASSUME NEW n \in Places PROVE f[n] = x(n)
      OBVIOUS
    <3>1. f[0] = Hole(i) /\ (n # 0 => n \in 1 .. Capacity - 1)
      BY <2>1 DEF UpTo
    <3>2. n # 0 => f[n] = Turn(f[n - 1])
      BY <2>1, <3>1, Zenon DEF UpTo
    <3> QED
      BY <3>1, <3>2
  <2> DEFINE w == [n \in Places |-> IF n = 0 THEN Hole(i) ELSE Turn(f[n - 1])]
  <2>3. Walks(f)
    <3>1. w = [n \in Places |-> w[n]] /\ \A n \in Places : w[n] = f[n]
      BY <2>4
    <3> HIDE DEF w
    <3>2. w = f
      BY <2>2, <3>1
    <3> QED
      BY <3>2 DEF w
  <2> QED
    BY <2>3
<1>4. Walks(moved)
  BY <1>3, Zenon
<1> HIDE DEF moved
<1>5. moved[0] = Hole(i) /\ \A k \in 1 .. Capacity - 1 : moved[k] = Turn(moved[k - 1])
  BY <1>4
<1> QED
  BY <1>1, <1>5 DEF TurnsOf

\* A turn moves the hole on, or finds that nothing may move.
LEMMA TurnMovesOn ==
  ASSUME Homes, NEW u \in Places, NEW i \in Places, NEW c, Moving(c.slots, c.hole, u, i)
  PROVE  /\ Moving(Turn(c).slots, Turn(c).hole, u, i)
         /\ Movable(c.slots, c.hole) = {} => Turn(c) = c
         /\ Movable(c.slots, c.hole) # {} => Pos(u, c.hole) < Pos(u, Turn(c).hole)
<1>1. CASE Movable(c.slots, c.hole) = {}
  BY <1>1 DEF Turn
<1>2. CASE Movable(c.slots, c.hole) # {}
  <2> DEFINE n == Nearest(Movable(c.slots, c.hole))
             T == [c.slots EXCEPT ![c.hole] = c.slots[From(c.hole, n)]]
  <2>1. n \in Movable(c.slots, c.hole)
    <3>1. Movable(c.slots, c.hole) \in SUBSET Nat
      BY CapacityAssumption DEF Movable
    <3>2. \E m \in Movable(c.slots, c.hole) : \A l \in Movable(c.slots, c.hole) : m <= l
      BY <1>2, <3>1, LeastExists
    <3> QED
      BY <3>2 DEF Nearest
  <2>2. Turn(c) = [slots |-> T, hole |-> From(c.hole, n)]
    BY <1>2 DEF Turn
  <2>3. Turn(c).slots = T /\ Turn(c).hole = From(c.hole, n)
    BY <2>2
  <2>4. Moving(T, From(c.hole, n), u, i) /\ Pos(u, c.hole) < Pos(u, From(c.hole, n))
    BY <2>1, HoleMoves
  <2> QED
    BY <1>2, <2>3, <2>4
<1> QED
  BY <1>1, <1>2

\* In as many turns as the code has slots the hole is where nothing may move:
\* each turn brings it nearer to the cut, which nothing passes.
LEMMA ShiftingEnds ==
  ASSUME Homes, Sound(slots), NEW i \in Places, slots[i].used
  PROVE  \E u \in Places : /\ Moving(Shifted(i).slots, Shifted(i).hole, u, i)
                          /\ Movable(Shifted(i).slots, Shifted(i).hole) = {}
<1>1. PICK u \in Places : Cut(slots, u)
  BY DEF Sound
<1>2. PICK g : TurnsOf(g, i) /\ Shifted(i) = g[Capacity - 1]
  BY ShiftedTurns
<1> DEFINE Fine(n) == /\ Moving(g[n].slots, g[n].hole, u, i)
                      /\ \/ Movable(g[n].slots, g[n].hole) = {}
                         \/ n <= Pos(u, g[n].hole)
           Bad == {n \in Places : ~Fine(n)}
<1>3. Moving(slots, i, u, i)
  BY <1>1 DEF Sound, Moving, Cut, Distinct
<1>4. Fine(0)
  <2>1. g[0].slots = slots /\ g[0].hole = i
    BY <1>2 DEF TurnsOf, Hole
  <2>2. 0 <= Pos(u, i)
    BY PosCounts DEF Places
  <2> QED
    BY <1>3, <2>1, <2>2
<1>5. ASSUME NEW n \in 1 .. Capacity - 1, Fine(n - 1) PROVE Fine(n)
  <2> DEFINE c == g[n - 1]
  <2>1. g[n] = Turn(c)
    BY <1>2 DEF TurnsOf
  <2>2. c.hole \in Places /\ Turn(c).hole \in Places
    BY <1>5, TurnMovesOn, SMTT(30) DEF Moving
  <2>3. Pos(u, c.hole) \in Places /\ Pos(u, Turn(c).hole) \in Places
    BY <2>2, PosCounts
  <2>4. Moving(Turn(c).slots, Turn(c).hole, u, i)
    BY <1>5, TurnMovesOn
  <2>5. CASE Movable(c.slots, c.hole) = {}
    <3>1. Turn(c) = c
      BY <1>5, <2>5, TurnMovesOn
    <3> QED
      BY <2>1, <2>4, <2>5, <3>1
  <2>6. CASE Movable(c.slots, c.hole) # {}
    <3>1. Pos(u, c.hole) < Pos(u, Turn(c).hole)
      BY <1>5, <2>6, TurnMovesOn
    <3>2. n - 1 <= Pos(u, c.hole)
      BY <1>5, <2>6
    <3>3. n <= Pos(u, Turn(c).hole)
      BY <2>3, <3>1, <3>2, CapacityAssumption DEF Places
    <3> QED
      BY <2>1, <2>4, <3>3
  <2> QED
    BY <2>5, <2>6
<1> HIDE DEF Fine
<1>6. Bad = {}
  <2> SUFFICES ASSUME Bad # {} PROVE FALSE
    OBVIOUS
  <2>1. PICK n \in Bad : \A m \in Bad : n <= m
    <3>1. Bad \in SUBSET Nat
      BY DEF Places
    <3> QED
      BY <3>1, LeastExists
  <2>2. n \in 1 .. Capacity - 1 /\ n - 1 \in Places /\ n - 1 \notin Bad
    BY <1>4, <2>1, CapacityAssumption DEF Places
  <2> QED
    BY <1>5, <2>1, <2>2
<1>7. Fine(Capacity - 1)
  BY <1>6, CapacityAssumption DEF Places
<1> DEFINE T == Shifted(i).slots
           h == Shifted(i).hole
<1>8. Moving(T, h, u, i) /\ (Movable(T, h) = {} \/ Capacity - 1 <= Pos(u, h))
  BY <1>2, <1>7 DEF Fine
<1>9. Movable(T, h) = {}
  <2> SUFFICES ASSUME NEW n \in Movable(T, h), Capacity - 1 <= Pos(u, h) PROVE FALSE
    BY <1>8
  <2>1. Moving([T EXCEPT ![h] = T[From(h, n)]], From(h, n), u, i) /\ Pos(u, h) < Pos(u, From(h, n))
    BY <1>8, HoleMoves
  <2>2. From(h, n) \in Places /\ h \in Places
    BY <1>8, <2>1 DEF Moving
  <2>3. Pos(u, From(h, n)) \in Places /\ Pos(u, h) \in Places
    BY <2>2, PosCounts
  <2> QED
    BY <2>1, <2>3, CapacityAssumption DEF Places
<1> QED
  BY <1>8, <1>9

\* Erasing slot i leaves a table without its entry.
LEMMA EraseAtErases ==
  ASSUME Homes, Sound(slots), NEW i \in Places, slots[i].used
  PROVE  /\ Sound(EraseAt(i))
         /\ \A k \in Keys, v \in Values :
              (\E j \in Places : EraseAt(i)[j] = Used(k, v))
              <=> (\E j \in Places \ {i} : slots[j] = Used(k, v))
<1> DEFINE T == Shifted(i).slots
           h == Shifted(i).hole
<1>1. PICK u \in Places : Moving(T, h, u, i) /\ Movable(T, h) = {}
  BY ShiftingEnds
<1>2. EraseAt(i) = [T EXCEPT ![h] = Unused]
  BY DEF EraseAt
<1> HIDE DEF T, h
<1> DEFINE F == [T EXCEPT ![h] = Unused]
<1>3. /\ Sound(F)
      /\ \A k \in Keys, v \in Values :
           (\E j \in Places : F[j] = Used(k, v))
           <=> (\E j \in Places \ {i} : slots[j] = Used(k, v))
  <2>1. T \in Tables /\ h \in Places
    BY <1>1 DEF Moving
  <2>2. F \in Tables /\ \A p \in Places : F[p] = IF p = h THEN Unused ELSE T[p]
    BY <2>1 DEF Tables, Entries
  <2> HIDE DEF F
  <2> QED
    BY <1>1, <2>2, HoleIsFreed
<1> QED
  BY <1>2, <1>3

-----------------------------------------------------------------------------
(***************************************************************************)
(* The calls.                                                              *)
(***************************************************************************)
HeldKeys(T) == {k \in Keys : Held(T, k)}

\* The inductive invariant.
MapInv ==
  /\ Homes
  /\ Sound(slots)
  /\ IsFiniteSet(HeldKeys(slots)) /\ size = Cardinality(HeldKeys(slots))

\* What the table maps a key to: a relation, as keys may be absent.
Maps(T, k, v) == \E i \in Places : T[i] = Used(k, v)

\* What the refinement reads from the table.
Mapped(k) == IF Ends(k) THEN Find(k) ELSE NoValue

LEMMA HeldIsMapped ==
  ASSUME NEW T \in Tables, NEW k \in Keys
  PROVE  Held(T, k) <=> \E v \in Values : Maps(T, k, v)
<1>1. ASSUME NEW i \in Places, HeldAt(T, k, i) PROVE \E v \in Values : Maps(T, k, v)
  BY <1>1, SlotIs DEF HeldAt, Maps
<1>2. ASSUME NEW v \in Values, NEW i \in Places, T[i] = Used(k, v) PROVE HeldAt(T, k, i)
  BY <1>2 DEF HeldAt, Used
<1> QED
  BY <1>1, <1>2 DEF Held, Maps

\* Looking up a key gives its value, or that it is absent.
LEMMA LookupIs ==
  ASSUME Homes, Sound(slots), NEW k \in Keys
  PROVE  /\ \A v \in Values : Maps(slots, k, v) <=> Mapped(k) = v
         /\ Held(slots, k) => Mapped(k) \in Values
         /\ ~Held(slots, k) => Mapped(k) = NoValue
         /\ Held(slots, k) <=> Mapped(k) # NoValue
<1>1. slots \in Tables
  BY DEF Sound
<1>2. ASSUME NEW i \in Places, HeldAt(slots, k, i)
      PROVE  /\ Mapped(k) = slots[i].value /\ Mapped(k) \in Values
             /\ slots[i] = Used(k, Mapped(k))
  <2>1. Ends(k) /\ Probe(k) = i
    BY <1>2, ProbeFinds
  <2>2. slots[i].used /\ slots[i].value \in Values /\ slots[i] = Used(k, slots[i].value)
    BY <1>1, <1>2, SlotIs DEF HeldAt
  <2> QED
    BY <2>1, <2>2 DEF Mapped, Find
<1>3. ASSUME ~Held(slots, k) PROVE Mapped(k) = NoValue
  BY <1>1, <1>3, ProbeMisses DEF Mapped, Find
<1>4. ASSUME NEW v \in Values, NEW i \in Places, slots[i] = Used(k, v)
      PROVE  Held(slots, k) /\ Mapped(k) = v
  <2>1. HeldAt(slots, k, i) /\ slots[i].value = v
    BY <1>4 DEF HeldAt, Used
  <2> QED
    BY <1>2, <2>1 DEF Held
<1>5. ASSUME Held(slots, k) PROVE Mapped(k) \in Values /\ Maps(slots, k, Mapped(k))
  BY <1>2, <1>5 DEF Held, Maps
<1>6. \A v \in Values : Maps(slots, k, v) <=> Mapped(k) = v
  <2> SUFFICES ASSUME NEW v \in Values PROVE Maps(slots, k, v) <=> Mapped(k) = v
    OBVIOUS
  <2>1. Maps(slots, k, v) => Mapped(k) = v
    BY <1>4 DEF Maps
  <2>2. Mapped(k) = v => Maps(slots, k, v)
    BY <1>3, <1>5, NoValueAssumption
  <2> QED
    BY <2>1, <2>2
<1> QED
  BY <1>3, <1>5, <1>6, NoValueAssumption

\* Fewer keys than slots leave a slot unused.
LEMMA RoomLeft ==
  ASSUME NEW T \in Tables, Distinct(T), IsFiniteSet(HeldKeys(T)),
         Cardinality(HeldKeys(T)) < Capacity
  PROVE  \E p \in Places : ~T[p].used
<1> SUFFICES ASSUME \A p \in Places : T[p].used PROVE FALSE
  BY SlotIs
<1> DEFINE f == [p \in Places |-> T[p].key]
<1>1. \A p \in Places : HeldAt(T, T[p].key, p) /\ T[p].key \in Keys
  BY SlotIs DEF HeldAt
<1>2. f \in [Places -> HeldKeys(T)]
  BY <1>1 DEF HeldKeys, Held
<1>3. IsFiniteSet(Places) /\ Cardinality(Places) = Capacity
  BY FS_Interval, CapacityAssumption DEF Places
<1>4. PICK x \in Places, y \in Places : x # y /\ f[x] = f[y]
  <2> HIDE DEF f
  <2> QED
    BY <1>2, <1>3, FS_PigeonHole
<1> QED
  BY <1>1, <1>4 DEF Distinct

\* What an insert puts in an unused slot, the first a probe for its key comes to.
LEMMA InsertedIs ==
  ASSUME Homes, Sound(slots), NEW k \in Keys, NEW v \in Values, ~Held(slots, k), Ends(k),
         NEW F \in Tables,
         \A p \in Places : F[p] = IF p = Probe(k) THEN Used(k, v) ELSE slots[p]
  PROVE  /\ Sound(F)
         /\ \A l \in Keys, w \in Values :
              Maps(F, l, w) <=> Maps(slots, l, w) \/ (l = k /\ w = v)
<1> DEFINE q == Probe(k)
           d == Distance(k)
           a == home[k]
<1>1. slots \in Tables /\ a \in Places
  BY DEF Sound, Homes
<1>2. /\ q \in Places /\ ~slots[q].used /\ d \in Places
      /\ \A m \in 0 .. d - 1 : slots[From(a, m)].used
  BY <1>1, ProbeMisses
<1>3. q = From(a, d)
  BY DEF Probe
<1>4. Cut(slots, q)
  <2>1. PICK u \in Places : Cut(slots, u)
    BY DEF Sound
  <2> QED
    BY <1>1, <1>2, <2>1, UnusedIsACut
<1>5. F \in Tables /\ \A p \in Places : F[p] = IF p = q THEN Used(k, v) ELSE slots[p]
  OBVIOUS
<1> HIDE DEF q, d, a
<1>6. Used(k, v).used /\ Used(k, v).key = k
  BY DEF Used
<1>7. \A p \in Places : slots[p].used => F[p].used
  BY <1>5, <1>6
<1>8. ASSUME NEW i \in Places, F[i].used PROVE Chained(F, q, i)
  <2>1. CASE i = q
    <3>1. home[F[i].key] = a
      BY <1>5, <1>6, <2>1 DEF a
    <3>2. Pos(q, a) \in Places /\ Pos(q, q) = Capacity - 1
      BY <1>1, <1>2, PosCounts
    <3>3. d = Pos(q, q) - Pos(q, a)
      <4>1. Pos(q, a) <= Pos(q, q)
        BY <3>2, CapacityAssumption DEF Places
      <4>2. Span(a, q) = d
        BY <1>1, <1>2, <1>3, SpanOfFrom
      <4> QED
        BY <1>1, <1>2, <4>1, <4>2, SpanIsPos
    <3>4. ASSUME NEW p \in Places, Between(q, a, p, q) PROVE F[p].used
      <4> DEFINE m == Span(a, p)
      <4>1. Pos(q, p) \in Places /\ Pos(q, a) <= Pos(q, p)
        BY <1>2, <3>4, PosCounts DEF Between
      <4>2. From(a, m) = p /\ m = Pos(q, p) - Pos(q, a)
        BY <1>1, <1>2, <4>1, SpanReaches, SpanIsPos
      <4>3. p = q \/ m \in 0 .. d - 1
        <5>1. p # q => Pos(q, p) # Pos(q, q)
          BY <1>2, PosCounts
        <5> HIDE DEF m
        <5> QED
          BY <1>2, <3>2, <3>3, <4>1, <4>2, <5>1, CapacityAssumption DEF Places
      <4> HIDE DEF m
      <4> QED
        BY <1>2, <1>5, <1>6, <1>7, <4>2, <4>3
    <3>5. Pos(q, a) <= Pos(q, q)
      BY <3>2, CapacityAssumption DEF Places
    <3> QED
      BY <2>1, <3>1, <3>4, <3>5 DEF Chained
  <2>2. CASE i # q
    <3>1. F[i] = slots[i] /\ Chained(slots, q, i)
      BY <1>4, <1>5, <1>8, <2>2 DEF Cut
    <3> QED
      BY <1>7, <3>1 DEF Chained
  <2> QED
    BY <2>1, <2>2
<1>9. Distinct(F)
  <2> SUFFICES ASSUME NEW l \in Keys, NEW i \in Places, NEW j \in Places,
                      HeldAt(F, l, i), HeldAt(F, l, j)
               PROVE  i = j
    BY DEF Distinct
  <2>1. \A p \in Places : p # q /\ HeldAt(F, l, p) => HeldAt(slots, l, p) /\ l # k
    BY <1>5 DEF HeldAt, Held
  <2>2. HeldAt(F, l, q) => l = k
    BY <1>2, <1>5, <1>6 DEF HeldAt
  <2>3. \A x, y \in Places : HeldAt(slots, l, x) /\ HeldAt(slots, l, y) => x = y
    BY DEF Sound, Distinct
  <2> QED
    BY <2>1, <2>2, <2>3
<1>10. ASSUME NEW l \in Keys, NEW w \in Values
       PROVE  Maps(F, l, w) <=> Maps(slots, l, w) \/ (l = k /\ w = v)
  <2>1. Used(k, v) = Used(l, w) <=> l = k /\ w = v
    BY DEF Used
  <2>2. slots[q] # Used(l, w)
    BY <1>2 DEF Used
  <2> QED
    BY <1>2, <1>5, <2>1, <2>2 DEF Maps
<1> QED
  BY <1>5, <1>2, <1>8, <1>9, <1>10 DEF Sound, Cut

-----------------------------------------------------------------------------
(***************************************************************************)
(* Each call keeps the invariant, and is the call on a map.                *)
(***************************************************************************)
\* What is mapped after a call.
MappedAfter(M) == \A k \in Keys : Mapped(k)' = M[k]

\* LookupIs, of the state.
LooksUp ==
  \A k \in Keys : /\ \A v \in Values : Maps(slots, k, v) <=> Mapped(k) = v
                  /\ Held(slots, k) <=> Mapped(k) # NoValue
                  /\ Held(slots, k) => Mapped(k) \in Values

LEMMA LookupHolds == MapInv => LooksUp
BY LookupIs DEF MapInv, LooksUp

\* A table that maps a key to a value, or to none, is read so.
LEMMA ReadsAfter ==
  ASSUME MapInv', NEW k \in Keys
  PROVE  /\ \A v \in Values : Maps(slots', k, v) => Mapped(k)' = v
         /\ (\A v \in Values : ~Maps(slots', k, v)) => Mapped(k)' = NoValue
<1>1. MapInv' => LooksUp'
  BY LookupHolds, PTL
<1>2. /\ \A v \in Values : Maps(slots', k, v) <=> Mapped(k)' = v
      /\ Held(slots', k) <=> Mapped(k)' # NoValue
      /\ Held(slots', k) => Mapped(k)' \in Values
  BY <1>1 DEF LooksUp
<1> QED
  BY <1>2

\* Two tables that map a key alike are read alike.
LEMMA SameMapping ==
  ASSUME MapInv, MapInv', NEW k \in Keys,
         \A v \in Values : Maps(slots', k, v) <=> Maps(slots, k, v)
  PROVE  Mapped(k)' = Mapped(k)
<1>1. /\ \A v \in Values : Maps(slots', k, v) => Mapped(k)' = v
      /\ (\A v \in Values : ~Maps(slots', k, v)) => Mapped(k)' = NoValue
  BY ReadsAfter
<1>2. /\ \A v \in Values : Maps(slots, k, v) <=> Mapped(k) = v
      /\ Held(slots, k) <=> Mapped(k) # NoValue
      /\ Held(slots, k) => Mapped(k) \in Values
  BY LookupHolds DEF LooksUp
<1> HIDE DEF Mapped
<1> QED
  BY <1>1, <1>2

LEMMA MapInvInit == MapInit => MapInv
<1> SUFFICES ASSUME MapInit PROVE MapInv
  OBVIOUS
<1>1. Homes
  BY DEF MapInit, Homes
<1>2. slots \in Tables /\ \A i \in Places : ~slots[i].used
  BY DEF MapInit, Tables, Entries, Unused
<1>3. 0 \in Places
  BY CapacityAssumption DEF Places
<1>4. Sound(slots)
  BY <1>2, <1>3 DEF Sound, Distinct, Cut, HeldAt
<1>5. HeldKeys(slots) = {}
  BY <1>2 DEF HeldKeys, Held, HeldAt
<1> QED
  BY <1>1, <1>4, <1>5, FS_EmptySet DEF MapInv, MapInit

\* An insert that is refused changes nothing; it is refused when the table is
\* full or the key is there.  One that is not adds the key.
LEMMA InsertKeeps ==
  ASSUME MapInv, NEW k \in Keys, NEW v \in Values, Insert(k, v)
  PROVE  /\ MapInv'
         /\ answer' = (~Held(slots, k) /\ size < Capacity)
         /\ ~answer' => slots' = slots
         /\ answer' => \A l \in Keys, w \in Values :
                         Maps(slots', l, w) <=> Maps(slots, l, w) \/ (l = k /\ w = v)
<1> DEFINE fits == size < Capacity /\ ~slots[Probe(k)].used
<1>1. /\ Homes /\ Sound(slots) /\ slots \in Tables
      /\ IsFiniteSet(HeldKeys(slots)) /\ size = Cardinality(HeldKeys(slots))
  BY DEF MapInv, Sound
<1>2. size \in Nat
  BY <1>1, FS_CardinalityType
<1>3. fits <=> ~Held(slots, k) /\ size < Capacity
  <2>1. CASE Held(slots, k)
    <3>1. PICK i \in Places : HeldAt(slots, k, i)
      BY <2>1 DEF Held
    <3>2. slots[Probe(k)].used
      BY <1>1, <3>1, ProbeFinds DEF HeldAt
    <3> QED
      BY <2>1, <3>2
  <2>2. CASE ~Held(slots, k) /\ size < Capacity
    <3>1. Ends(k)
      BY <1>1, <2>2, RoomLeft, ProbeMisses DEF Sound
    <3> QED
      BY <1>1, <2>2, <3>1, ProbeMisses
  <2> QED
    BY <2>1, <2>2
<1>4. CASE ~fits
  <2>1. slots' = slots /\ size' = size /\ home' = home /\ answer' = FALSE
    BY <1>4 DEF Insert
  <2>2. MapInv'
    BY <1>1, <2>1 DEF MapInv, Homes, Sound, Cut, Chained
  <2> QED
    BY <1>3, <1>4, <2>1, <2>2
<1>5. CASE fits
  <2>1. /\ slots' = [slots EXCEPT ![Probe(k)] = Used(k, v)] /\ size' = size + 1
        /\ home' = home /\ answer' = TRUE
    BY <1>5 DEF Insert
  <2>2. ~Held(slots, k) /\ Ends(k)
    BY <1>1, <1>3, <1>5, RoomLeft, ProbeMisses DEF Sound
  <2>3. /\ Sound(slots')
        /\ \A l \in Keys, w \in Values :
             Maps(slots', l, w) <=> Maps(slots, l, w) \/ (l = k /\ w = v)
    <3>1. Probe(k) \in Places
      BY <1>1, <2>2, ProbeMisses
    <3>2. /\ slots' \in Tables
          /\ \A p \in Places : slots'[p] = IF p = Probe(k) THEN Used(k, v) ELSE slots[p]
      BY <1>1, <2>1, <3>1 DEF Tables, Entries
    <3> QED
      BY <1>1, <2>2, <3>2, InsertedIs
  <2>4. HeldKeys(slots') = HeldKeys(slots) \cup {k}
    <3>1. slots' \in Tables
      BY <2>3 DEF Sound
    <3>2. \A l \in Keys : Held(slots', l) <=> Held(slots, l) \/ l = k
      BY <1>1, <2>3, <3>1, HeldIsMapped
    <3> QED
      BY <3>2 DEF HeldKeys
  <2>5. IsFiniteSet(HeldKeys(slots')) /\ size' = Cardinality(HeldKeys(slots'))
    BY <1>1, <2>1, <2>2, <2>4, FS_AddElement DEF HeldKeys
  <2>6. Homes' /\ Sound(slots)' 
    BY <1>1, <2>1, <2>3 DEF Homes, Sound, Cut, Chained
  <2>7. MapInv'
    BY <2>5, <2>6 DEF MapInv
  <2> QED
    BY <1>3, <1>5, <2>1, <2>3, <2>7
<1> QED
  BY <1>4, <1>5

\* An erase finds a key that is there, and takes it away.
LEMMA EraseKeeps ==
  ASSUME MapInv, NEW k \in Keys, Erase(k)
  PROVE  /\ MapInv'
         /\ answer' = IF Held(slots, k) THEN TRUE ELSE FALSE
         /\ \A l \in Keys, w \in Values : Maps(slots', l, w) <=> Maps(slots, l, w) /\ l # k
<1>1. /\ Homes /\ Sound(slots) /\ slots \in Tables
      /\ IsFiniteSet(HeldKeys(slots)) /\ size = Cardinality(HeldKeys(slots))
  BY DEF MapInv, Sound
<1>2. Ends(k) /\ home' = home
  BY DEF Erase
<1>3. CASE ~Held(slots, k)
  <2>1. ~slots[Probe(k)].used
    BY <1>1, <1>2, <1>3, ProbeMisses
  <2>2. slots' = slots /\ size' = size /\ home' = home /\ answer' = FALSE
    BY <2>1 DEF Erase
  <2>3. MapInv'
    BY <1>1, <2>2 DEF MapInv, Homes, Sound, Cut, Chained
  <2>4. \A w \in Values : ~Maps(slots, k, w)
    BY <1>1, <1>3, HeldIsMapped
  <2> QED
    BY <1>3, <2>2, <2>3, <2>4
<1>4. CASE Held(slots, k)
  <2>1. PICK i \in Places : HeldAt(slots, k, i)
    BY <1>4 DEF Held
  <2>2. Probe(k) = i /\ slots[i].used
    BY <1>1, <2>1, ProbeFinds DEF HeldAt
  <2>3. slots' = EraseAt(i) /\ size' = size - 1 /\ answer' = TRUE
    <3>1. slots[i].used = TRUE
      BY <1>1, <2>1, <2>2, SlotIs
    <3> QED
      BY <2>2, <3>1 DEF Erase
  <2>4. /\ Sound(slots')
        /\ \A l \in Keys, w \in Values :
             Maps(slots', l, w) <=> \E j \in Places \ {i} : slots[j] = Used(l, w)
    <3>1. /\ Sound(EraseAt(i))
          /\ \A l \in Keys, w \in Values :
               (\E j \in Places : EraseAt(i)[j] = Used(l, w))
               <=> (\E j \in Places \ {i} : slots[j] = Used(l, w))
      BY <1>1, <2>2, EraseAtErases
    <3> QED
      BY <2>3, <3>1 DEF Maps
  <2>5. ASSUME NEW l \in Keys, NEW w \in Values
        PROVE  Maps(slots', l, w) <=> Maps(slots, l, w) /\ l # k
    <3>1. \A j \in Places : slots[j] = Used(l, w) => HeldAt(slots, l, j)
      BY DEF HeldAt, Used
    <3>2. \A j \in Places : HeldAt(slots, k, j) => j = i
      BY <1>1, <2>1 DEF Sound, Distinct
    <3>3. slots[i] = Used(l, w) => l = k
      BY <2>1 DEF HeldAt, Used
    <3>4. (\E j \in Places \ {i} : slots[j] = Used(l, w)) <=> Maps(slots, l, w) /\ l # k
      BY <3>1, <3>2, <3>3 DEF Maps
    <3> QED
      BY <2>4, <3>4
  <2>6. HeldKeys(slots') = HeldKeys(slots) \ {k}
    <3>1. slots' \in Tables
      BY <2>4 DEF Sound
    <3>2. \A l \in Keys : Held(slots', l) <=> Held(slots, l) /\ l # k
      BY <1>1, <2>5, <3>1, HeldIsMapped
    <3> QED
      BY <3>2 DEF HeldKeys
  <2>7. IsFiniteSet(HeldKeys(slots')) /\ size' = Cardinality(HeldKeys(slots'))
    BY <1>1, <1>4, <2>3, <2>6, FS_RemoveElement DEF HeldKeys
  <2>8. MapInv'
    <3>1. Homes'
      BY <1>1, <1>2 DEF Homes
    <3>2. Sound(slots)'
      BY <1>2, <2>4 DEF Sound, Cut, Chained
    <3> QED
      BY <2>7, <3>1, <3>2 DEF MapInv
  <2> QED
    BY <1>4, <2>3, <2>5, <2>8
<1> QED
  BY <1>3, <1>4

LEMMA ClearKeeps ==
  ASSUME MapInv, MapClear
  PROVE  /\ MapInv' /\ answer' = TRUE
         /\ \A l \in Keys, w \in Values : ~Maps(slots', l, w)
<1>1. /\ slots' = [i \in Places |-> Unused] /\ size' = 0 /\ answer' = TRUE /\ home' = home
  BY DEF MapClear
<1>2. slots' \in Tables /\ \A i \in Places : slots'[i] = Unused /\ ~slots'[i].used
  BY <1>1 DEF Tables, Entries, Unused
<1>3. 0 \in Places
  BY CapacityAssumption DEF Places
<1>4. Sound(slots)'
  BY <1>2, <1>3 DEF Sound, Distinct, Cut, HeldAt
<1>5. HeldKeys(slots') = {}
  BY <1>2 DEF HeldKeys, Held, HeldAt
<1>6. MapInv'
  BY <1>1, <1>4, <1>5, FS_EmptySet DEF MapInv, Homes
<1>7. \A l, w : Unused # Used(l, w)
  BY DEF Unused, Used
<1> QED
  BY <1>1, <1>2, <1>6, <1>7 DEF Maps

LEMMA MapInvKept == MapInv /\ [MapNext]_mapVars => MapInv'
<1> SUFFICES ASSUME MapInv, [MapNext]_mapVars PROVE MapInv'
  OBVIOUS
<1>1. ASSUME NEW k \in Keys, NEW v \in Values, Insert(k, v) PROVE MapInv'
  BY <1>1, InsertKeeps
<1>2. ASSUME NEW k \in Keys, Erase(k) PROVE MapInv'
  BY <1>2, EraseKeeps
<1>3. CASE MapClear
  BY <1>3, ClearKeeps
<1>4. CASE UNCHANGED mapVars
  BY <1>4 DEF mapVars, MapInv, Homes, Sound, Cut, Chained
<1> QED
  BY <1>1, <1>2, <1>3, <1>4 DEF MapNext

LEMMA MapInvHolds == MapSpec => []MapInv
BY MapInvInit, MapInvKept, PTL DEF MapSpec

-----------------------------------------------------------------------------
(***************************************************************************)
(* The refinement.                                                         *)
(***************************************************************************)
\* The map the refinement reads from the table, and the keys it has.
TheMap == [k \in Keys |-> IF Ends(k) THEN Find(k) ELSE NoValue]

LEMMA TheMapIs ==
  ASSUME MapInv
  PROVE  /\ \A k \in Keys : TheMap[k] = Mapped(k)
         /\ Map!Present = HeldKeys(slots)
<1>1. \A k \in Keys : TheMap[k] = Mapped(k)
  BY DEF TheMap, Mapped
<1>2. \A k \in Keys : Held(slots, k) <=> Mapped(k) # NoValue
  BY LookupHolds DEF LooksUp
<1>3. Map!Present = {k \in Keys : TheMap[k] # NoValue}
  BY DEF Map!Present, TheMap
<1> HIDE DEF TheMap
<1> QED
  BY <1>1, <1>2, <1>3 DEF HeldKeys

\* After a call the map is what the table then maps the keys to.
LEMMA TheMapAfter ==
  ASSUME MapInv'
  PROVE  TheMap' = [k \in Keys |-> Mapped(k)']
BY DEF TheMap, Mapped

LEMMA InitIsMapInit == MapInit => Map!Init
<1> SUFFICES ASSUME MapInit PROVE Map!Init
  OBVIOUS
<1>1. \A k \in Keys : ~Held(slots, k)
  <2>1. \A i \in Places : ~slots[i].used
    BY DEF MapInit, Unused
  <2> QED
    BY <2>1 DEF Held, HeldAt
<1>2. MapInv
  BY MapInvInit
<1>3. \A k \in Keys : Mapped(k) = NoValue
  BY <1>1, <1>2, LookupHolds DEF LooksUp
<1>4. TheMap = [k \in Keys |-> NoValue]
  BY <1>3 DEF TheMap, Mapped
<1> QED
  BY <1>4 DEF MapInit, Map!Init, TheMap

LEMMA InsertIsInsert ==
  ASSUME MapInv, NEW k \in Keys, NEW v \in Values, Insert(k, v)
  PROVE  Map!Insert(k, v)
<1> DEFINE fits == k \notin Map!Present /\ Cardinality(Map!Present) < Capacity
<1>1. fits <=> ~Held(slots, k) /\ size < Capacity
  BY TheMapIs DEF HeldKeys, MapInv
<1>2. MapInv' /\ answer' = fits
  <2>1. MapInv' /\ answer' = (~Held(slots, k) /\ size < Capacity)
    BY InsertKeeps
  <2> HIDE DEF fits
  <2>2. (~Held(slots, k) /\ size < Capacity) \in BOOLEAN /\ fits \in BOOLEAN
    BY DEF fits
  <2> QED
    BY <1>1, <2>1, <2>2
<1>3. \A l \in Keys : Mapped(l)' = IF fits /\ l = k THEN v ELSE Mapped(l)
  <2> SUFFICES ASSUME NEW l \in Keys PROVE Mapped(l)' = IF fits /\ l = k THEN v ELSE Mapped(l)
    OBVIOUS
  <2>1. CASE fits
    <3>1. \A w \in Values : Maps(slots', l, w) <=> Maps(slots, l, w) \/ (l = k /\ w = v)
      BY <1>2, <2>1, InsertKeeps
    <3>2. CASE l = k
      BY <1>2, <2>1, <3>1, <3>2, ReadsAfter
    <3>3. CASE l # k
      BY <1>2, <3>1, <3>3, SameMapping
    <3> QED
      BY <3>2, <3>3
  <2>2. CASE ~fits
    <3>1. slots' = slots
      BY <1>2, <2>2, InsertKeeps
    <3> QED
      BY <1>2, <2>2, <3>1, SameMapping
  <2> QED
    BY <2>1, <2>2
<1> HIDE DEF fits
<1>4. TheMap' = IF fits THEN [TheMap EXCEPT ![k] = v] ELSE TheMap
  <2>1. TheMap = [l \in Keys |-> Mapped(l)] /\ TheMap' = [l \in Keys |-> Mapped(l)']
    BY <1>2, TheMapAfter DEF TheMap, Mapped
  <2> HIDE DEF TheMap, Mapped
  <2>2. TheMap' = [l \in Keys |-> IF fits /\ l = k THEN v ELSE Mapped(l)]
    BY <1>3, <2>1
  <2>3. CASE fits
    BY <2>1, <2>2, <2>3
  <2>4. CASE ~fits
    BY <2>1, <2>2, <2>4
  <2> QED
    BY <2>3, <2>4
<1>5. Map!Cardinality(Map!Present) = Cardinality(Map!Present)
  BY DEF Map!Cardinality, Cardinality
<1> QED
  BY <1>2, <1>4, <1>5 DEF Map!Insert, fits, TheMap

LEMMA EraseIsErase ==
  ASSUME MapInv, NEW k \in Keys, Erase(k)
  PROVE  Map!Erase(k)
<1>1. /\ MapInv' /\ answer' = IF Held(slots, k) THEN TRUE ELSE FALSE
      /\ \A l \in Keys, w \in Values : Maps(slots', l, w) <=> Maps(slots, l, w) /\ l # k
  BY EraseKeeps
<1>2. answer' = (k \in Map!Present)
  <2>1. Held(slots, k) <=> k \in Map!Present
    BY TheMapIs DEF HeldKeys
  <2>2. answer' = TRUE \/ answer' = FALSE
    BY <1>1
  <2>3. answer' <=> k \in Map!Present
    BY <1>1, <2>1
  <2> QED
    BY <2>2, <2>3
<1>3. \A l \in Keys : Mapped(l)' = IF l = k THEN NoValue ELSE Mapped(l)
  <2> SUFFICES ASSUME NEW l \in Keys PROVE Mapped(l)' = IF l = k THEN NoValue ELSE Mapped(l)
    OBVIOUS
  <2>1. CASE l = k
    BY <1>1, <2>1, ReadsAfter
  <2>2. CASE l # k
    BY <1>1, <2>2, SameMapping
  <2> QED
    BY <2>1, <2>2
<1>4. TheMap' = [TheMap EXCEPT ![k] = NoValue]
  <2>1. TheMap = [l \in Keys |-> Mapped(l)] /\ TheMap' = [l \in Keys |-> Mapped(l)']
    BY <1>1, TheMapAfter DEF TheMap, Mapped
  <2> HIDE DEF TheMap, Mapped
  <2> QED
    BY <1>3, <2>1
<1> QED
  BY <1>2, <1>4 DEF Map!Erase, TheMap

LEMMA ClearIsClear ==
  ASSUME MapInv, MapClear
  PROVE  Map!Clear
<1>1. MapInv' /\ answer' = TRUE /\ \A l \in Keys : Mapped(l)' = NoValue
  BY ClearKeeps, ReadsAfter
<1>2. TheMap' = [l \in Keys |-> NoValue]
  BY <1>1, TheMapAfter
<1> QED
  BY <1>1, <1>2 DEF Map!Clear, TheMap

(***************************************************************************)
(* The id map implements the map: for every hash, with any number of       *)
(* slots, up to a full table, each call and its answer are those of a map  *)
(* that refuses to overwrite and to grow past its capacity.                *)
(***************************************************************************)
THEOREM OrderMapImplementsMap == MapSpec => ImplementsMap
<1>1. MapInv /\ [MapNext]_mapVars => [Map!Next]_<<TheMap, answer>>
  <2> SUFFICES ASSUME MapInv, [MapNext]_mapVars PROVE [Map!Next]_<<TheMap, answer>>
    OBVIOUS
  <2>1. ASSUME NEW k \in Keys, NEW v \in Values, Insert(k, v) PROVE Map!Next
    BY <2>1, InsertIsInsert DEF Map!Next
  <2>2. ASSUME NEW k \in Keys, Erase(k) PROVE Map!Next
    BY <2>2, EraseIsErase DEF Map!Next
  <2>3. CASE MapClear
    BY <2>3, ClearIsClear DEF Map!Next
  <2>4. CASE UNCHANGED mapVars
    BY <2>4 DEF mapVars, TheMap, Ends, Find, Probe, Distance, Stops
  <2> QED
    BY <2>1, <2>2, <2>3, <2>4 DEF MapNext
<1>2. MapInv /\ [MapNext]_mapVars => [Map!Next]_<<[k \in Keys |-> IF Ends(k) THEN Find(k) ELSE NoValue], answer>>
  BY <1>1 DEF TheMap
<1> QED
  BY <1>2, InitIsMapInit, MapInvHolds, PTL DEF MapSpec, ImplementsMap, Map!Spec

-----------------------------------------------------------------------------
(***************************************************************************)
(* The words of a side: what the scans fall through.                       *)
(***************************************************************************)
\* A bit is where its word begins, and so far into it.
LEMMA BitsOfWords ==
  ASSUME NEW i \in Nat
  PROVE  /\ WordOf(i) \in Nat /\ BitOf(i) \in 0 .. WordBits - 1
         /\ i = WordOf(i) * WordBits + BitOf(i)
BY WordBitsAssumption DEF WordOf, BitOf

LEMMA WordStarts ==
  ASSUME NEW v \in Nat, NEW w \in Nat
  PROVE  v * WordBits \in Nat /\ (v < w => v * WordBits + WordBits <= w * WordBits)
<1>1. v * WordBits \in Nat /\ w * WordBits \in Nat
  BY WordBitsAssumption
<1>2. ASSUME v < w PROVE v * WordBits + WordBits <= w * WordBits
  <2> DEFINE d == w - v - 1
  <2>1. d \in Nat /\ w = v + 1 + d
    BY <1>2
  <2> HIDE DEF d
  <2>2. w * WordBits = v * WordBits + WordBits + d * WordBits
    BY <2>1, WordBitsAssumption
  <2>3. d * WordBits \in Nat
    BY <2>1, WordBitsAssumption
  <2> QED
    BY <1>1, <2>2, <2>3, WordBitsAssumption
<1> QED
  BY <1>1, <1>2

\* Bits of earlier words come first, and of one word the lower ones.
LEMMA WordsInOrder ==
  ASSUME NEW i \in Nat, NEW j \in Nat
  PROVE  /\ WordOf(i) < WordOf(j) => i < j
         /\ WordOf(i) = WordOf(j) => (i <= j <=> BitOf(i) <= BitOf(j))
<1>1. /\ WordOf(i) \in Nat /\ BitOf(i) \in 0 .. WordBits - 1 /\ i = WordOf(i) * WordBits + BitOf(i)
      /\ WordOf(j) \in Nat /\ BitOf(j) \in 0 .. WordBits - 1 /\ j = WordOf(j) * WordBits + BitOf(j)
  BY BitsOfWords
<1> DEFINE x == WordOf(i) * WordBits
           y == WordOf(j) * WordBits
<1>2. x \in Nat /\ y \in Nat /\ (WordOf(i) < WordOf(j) => x + WordBits <= y)
  BY <1>1, WordStarts
<1>3. WordOf(i) = WordOf(j) => x = y
  OBVIOUS
<1> HIDE DEF x, y
<1>4. i = x + BitOf(i) /\ j = y + BitOf(j)
  BY <1>1 DEF x, y
<1> QED
  BY <1>1, <1>2, <1>3, <1>4, WordBitsAssumption

\* Indices are those of the words there are.
LEMMA IndexIs ==
  ASSUME NEW i \in Nat
  PROVE  i \in Indices <=> WordOf(i) < Words
<1> DEFINE x == WordOf(i) * WordBits
           y == Words * WordBits
<1>1. /\ WordOf(i) \in Nat /\ BitOf(i) \in 0 .. WordBits - 1 /\ i = x + BitOf(i)
  BY BitsOfWords
<1>2. /\ x \in Nat /\ y \in Nat /\ (WordOf(i) < Words => x + WordBits <= y)
      /\ (Words < WordOf(i) => y + WordBits <= x)
  BY <1>1, WordStarts, WordsAssumption
<1>3. WordOf(i) = Words => x = y
  OBVIOUS
<1>4. Indices = 0 .. y - 1
  BY WordBitsAssumption, WordsAssumption DEF Indices
<1> HIDE DEF x, y
<1> QED
  BY <1>1, <1>2, <1>3, <1>4, WordBitsAssumption, WordsAssumption

\* The greatest of a set of bits of a word, and the least.
LEMMA GreatestBit ==
  ASSUME NEW T \in SUBSET (0 .. WordBits - 1), T # {}
  PROVE  FX!Max(T) \in T /\ \A b \in T : b <= FX!Max(T)
<1> DEFINE U == {k \in Nat : WordBits - k \in T}
<1>1. U # {}
  <2>1. PICK b \in T : TRUE
    OBVIOUS
  <2>2. WordBits - b \in Nat /\ WordBits - (WordBits - b) = b
    BY WordBitsAssumption
  <2> QED
    BY <2>1, <2>2
<1>2. PICK k \in U : \A j \in U : k <= j
  BY <1>1, LeastExists
<1>3. \A b \in T : WordBits - b \in U
  BY WordBitsAssumption
<1>4. WordBits - k \in T /\ \A b \in T : WordBits - k >= b
  BY <1>2, <1>3, WordBitsAssumption
<1>5. FX!Max(T) \in T /\ \A b \in T : FX!Max(T) >= b
  BY <1>4 DEF FX!Max
<1> QED
  BY <1>5, WordBitsAssumption

LEMMA LeastBit ==
  ASSUME NEW T \in SUBSET (0 .. WordBits - 1), T # {}
  PROVE  FX!Min(T) \in T /\ \A b \in T : FX!Min(T) <= b
<1>1. T \in SUBSET Nat
  BY WordBitsAssumption
<1>2. PICK n \in T : \A m \in T : n <= m
  BY <1>1, LeastExists
<1> QED
  BY <1>2 DEF FX!Min

\* f falls through the words that are not hit.
FallsThrough(f, n, hit, there) ==
  f = [k \in 0 .. n |-> IF k = 0 THEN None ELSE IF hit[k] THEN there[k] ELSE f[k - 1]]

\* Two scans that fall through the same words find the same.
LEMMA FallThroughOnce ==
  ASSUME NEW n \in Nat, NEW hit, NEW there, NEW f, NEW g,
         FallsThrough(f, n, hit, there), FallsThrough(g, n, hit, there)
  PROVE  f = g
<1> USE DEF FallsThrough
<1> DEFINE Off == {k \in 0 .. n : f[k] # g[k]}
<1>1. Off = {}
  <2> SUFFICES ASSUME Off # {} PROVE FALSE
    OBVIOUS
  <2>1. PICK k \in Off : \A j \in Off : k <= j
    <3>1. Off \in SUBSET Nat
      OBVIOUS
    <3> QED
      BY <3>1, LeastExists
  <2>2. k # 0
    <3>1. 0 \in 0 .. n
      OBVIOUS
    <3>2. f[0] = None /\ g[0] = None
      BY <3>1
    <3> QED
      BY <2>1, <3>2
  <2>3. k - 1 \in 0 .. n /\ k - 1 \notin Off
    BY <2>1, <2>2
  <2>4. f[k - 1] = g[k - 1]
    BY <2>3
  <2> QED
    BY <2>1, <2>2, <2>4
<1> QED
  BY <1>1

\* The words a scan looks at hold the bits the mask leaves visible.
LEMMA SeenDown ==
  ASSUME NEW S \in SUBSET Indices, NEW from \in Indices, NEW w \in 0 .. Words - 1
  PROVE  WordSeen(WordsOf(S), from, w, UpToStart(from))
           = {BitOf(i) : i \in {k \in S : WordOf(k) = w /\ (WordOf(k) = WordOf(from) => k <= from)}}
<1>1. \A i \in S : /\ i \in Nat /\ BitOf(i) \in 0 .. WordBits - 1
                   /\ WordOf(i) = WordOf(from) => (i <= from <=> BitOf(i) <= BitOf(from))
  BY BitsOfWords, WordsInOrder, WordBitsAssumption DEF Indices
<1>2. WordsOf(S)[w] = {BitOf(i) : i \in {k \in S : WordOf(k) = w}}
  BY DEF WordsOf
<1>3. CASE w = WordOf(from)
  BY <1>1, <1>2, <1>3 DEF WordSeen, UpToStart
<1>4. CASE w # WordOf(from)
  BY <1>1, <1>2, <1>4 DEF WordSeen
<1> QED
  BY <1>3, <1>4

LEMMA SeenUp ==
  ASSUME NEW S \in SUBSET Indices, NEW from \in Indices, NEW w \in 0 .. Words - 1
  PROVE  WordSeen(WordsOf(S), from, w, FromStart(from))
           = {BitOf(i) : i \in {k \in S : WordOf(k) = w /\ (WordOf(k) = WordOf(from) => k >= from)}}
<1>1. \A i \in S : /\ i \in Nat /\ BitOf(i) \in 0 .. WordBits - 1
                   /\ WordOf(i) = WordOf(from) => (i >= from <=> BitOf(i) >= BitOf(from))
  <2> SUFFICES ASSUME NEW i \in S
               PROVE  /\ i \in Nat /\ BitOf(i) \in 0 .. WordBits - 1
                      /\ WordOf(i) = WordOf(from) => (i >= from <=> BitOf(i) >= BitOf(from))
    OBVIOUS
  <2>1. i \in Nat /\ from \in Nat
    BY DEF Indices
  <2> QED
    BY <2>1, BitsOfWords, WordsInOrder, WordBitsAssumption
<1>2. WordsOf(S)[w] = {BitOf(i) : i \in {k \in S : WordOf(k) = w}}
  BY DEF WordsOf
<1>3. CASE w = WordOf(from)
  BY <1>1, <1>2, <1>3 DEF WordSeen, FromStart
<1>4. CASE w # WordOf(from)
  BY <1>1, <1>2, <1>4 DEF WordSeen
<1> QED
  BY <1>3, <1>4

\* What the scan down finds when the words below n are left: the greatest of
\* the levels S of these words.
GreatestOf(T) == IF T = {} THEN None ELSE CHOOSE i \in T : \A j \in T : j <= i
BestBelow(S, n) == GreatestOf({i \in S : WordOf(i) < n})

LEMMA WordBelow ==
  ASSUME NEW S \in SUBSET Indices, NEW n \in 1 .. Words
  PROVE  LET seen == {BitOf(i) : i \in {k \in S : WordOf(k) = n - 1}}
         IN BestBelow(S, n) = IF seen # {} THEN (n - 1) * WordBits + FX!Max(seen)
                                           ELSE BestBelow(S, n - 1)
<1> DEFINE here == {k \in S : WordOf(k) = n - 1}
           seen == {BitOf(i) : i \in here}
           left == {i \in S : WordOf(i) < n}
<1>1. \A i \in S : /\ i \in Nat /\ WordOf(i) \in Nat /\ BitOf(i) \in 0 .. WordBits - 1
                   /\ i = WordOf(i) * WordBits + BitOf(i)
  BY BitsOfWords DEF Indices
<1>2. CASE seen = {}
  <2>1. left = {i \in S : WordOf(i) < n - 1}
    BY <1>1, <1>2
  <2>2. BestBelow(S, n) = BestBelow(S, n - 1)
    BY <2>1 DEF BestBelow
  <2> QED
    BY <1>2, <2>2
<1>3. CASE seen # {}
  <2>1. seen \in SUBSET (0 .. WordBits - 1)
    BY <1>1
  <2>2. FX!Max(seen) \in seen /\ \A b \in seen : b <= FX!Max(seen)
    BY <1>3, <2>1, GreatestBit
  <2>3. PICK i \in here : BitOf(i) = FX!Max(seen)
    BY <2>2
  <2>4. i = (n - 1) * WordBits + FX!Max(seen)
    BY <1>1, <2>3
  <2>5. i \in left
    BY <2>3
  <2>6. \A j \in left : j <= i
    <3> SUFFICES ASSUME NEW j \in left PROVE j <= i
      OBVIOUS
    <3>1. i \in Nat /\ j \in Nat /\ WordOf(i) = n - 1 /\ WordOf(j) \in Nat /\ WordOf(j) < n
      BY <1>1, <2>3
    <3>2. CASE WordOf(j) = n - 1
      <4>1. BitOf(j) \in seen
        BY <3>2
      <4> QED
        BY <2>2, <2>3, <3>1, <3>2, <4>1, WordsInOrder
    <3>3. CASE WordOf(j) # n - 1
      BY <3>1, <3>3, WordsInOrder
    <3> QED
      BY <3>2, <3>3
  <2>7. \A k \in left : (\A j \in left : j <= k) => k = i
    BY <1>1, <2>5, <2>6
  <2>8. BestBelow(S, n) = CHOOSE k \in left : \A j \in left : j <= k
    BY <2>5 DEF BestBelow, GreatestOf
  <2>9. BestBelow(S, n) = i
    BY <2>5, <2>6, <2>7, <2>8
  <2> QED
    BY <1>3, <2>4, <2>9
<1> QED
  BY <1>2, <1>3

LEMMA ScanDownFinds ==
  ASSUME NEW S \in SUBSET Indices, NEW from \in Indices
  PROVE  ScanDown(WordsOf(S), from) = NearestDown(S, from)
<1> DEFINE seen(w) == WordSeen(WordsOf(S), from, w, UpToStart(from))
           Scans(f) == f = [n \in 0 .. Words |->
                              IF n = 0 THEN None
                              ELSE IF seen(n - 1) # {} THEN (n - 1) * WordBits + FX!Max(seen(n - 1))
                              ELSE f[n - 1]]
           scan == CHOOSE f : Scans(f)
           Vis == {k \in S : WordOf(k) = WordOf(from) => k <= from}
           best == [n \in 0 .. Words |-> BestBelow(Vis, n)]
           hit == [n \in 0 .. Words |-> seen(n - 1) # {}]
           there == [n \in 0 .. Words |-> (n - 1) * WordBits + FX!Max(seen(n - 1))]
<1>0. from # None /\ from \in Nat /\ WordOf(from) \in Nat /\ WordOf(from) < Words
  BY IndexIs, BitsOfWords, WordBitsAssumption, WordsAssumption DEF Indices, None
<1>1. ScanDown(WordsOf(S), from) = scan[WordOf(from) + 1]
  BY <1>0 DEF ScanDown
<1>2. Vis \in SUBSET Indices /\ \A i \in Vis : i \in Nat /\ WordOf(i) \in Nat
  <2>1. \A i \in Indices : i \in Nat
    BY DEF Indices
  <2> QED
    BY <2>1, BitsOfWords
<1>3. ASSUME NEW n \in 1 .. Words
      PROVE  seen(n - 1) = {BitOf(i) : i \in {k \in Vis : WordOf(k) = n - 1}}
  <2>1. n - 1 \in 0 .. Words - 1
    BY WordsAssumption
  <2>2. {k \in S : WordOf(k) = n - 1 /\ (WordOf(k) = WordOf(from) => k <= from)}
          = {k \in Vis : WordOf(k) = n - 1}
    OBVIOUS
  <2> QED
    BY <2>1, <2>2, SeenDown
<1> HIDE DEF Vis, seen
<1>4. BestBelow(Vis, 0) = None
  <2>1. {i \in Vis : WordOf(i) < 0} = {}
    BY <1>2
  <2> QED
    BY <2>1 DEF BestBelow, GreatestOf
<1>5. ASSUME NEW n \in 0 .. Words, n # 0
      PROVE  BestBelow(Vis, n) = IF seen(n - 1) # {} THEN (n - 1) * WordBits + FX!Max(seen(n - 1))
                                 ELSE BestBelow(Vis, n - 1)
  <2>1. n \in 1 .. Words
    BY <1>5, WordsAssumption
  <2> QED
    BY <1>2, <1>3, <2>1, WordBelow
<1>6. Scans(best)
  <2>1. \A n \in 0 .. Words : n # 0 => best[n - 1] = BestBelow(Vis, n - 1)
    BY WordsAssumption
  <2> QED
    BY <1>4, <1>5, <2>1
<1>7. Scans(scan)
  BY <1>6
<1> HIDE DEF scan, best
<1>8. FallsThrough(scan, Words, hit, there) /\ FallsThrough(best, Words, hit, there)
  BY <1>6, <1>7 DEF FallsThrough
<1> HIDE DEF hit, there, Scans
<1>9. scan = best
  BY <1>8, FallThroughOnce, WordsAssumption
<1>10. WordOf(from) + 1 \in 0 .. Words
  BY <1>0, WordsAssumption
<1>11. ScanDown(WordsOf(S), from) = BestBelow(Vis, WordOf(from) + 1)
  BY <1>1, <1>9, <1>10 DEF best
<1>12. {i \in Vis : WordOf(i) < WordOf(from) + 1} = {i \in S : i <= from}
  <2> SUFFICES ASSUME NEW i \in S
               PROVE  (i \in Vis /\ WordOf(i) < WordOf(from) + 1) <=> i <= from
    BY DEF Vis
  <2>1. i \in Nat /\ WordOf(i) \in Nat
    BY BitsOfWords DEF Indices
  <2>2. WordOf(i) < WordOf(from) => i < from
    BY <1>0, <2>1, WordsInOrder
  <2>3. WordOf(from) < WordOf(i) => from < i
    BY <1>0, <2>1, WordsInOrder
  <2> QED
    BY <1>0, <2>1, <2>2, <2>3 DEF Vis
<1> QED
  BY <1>11, <1>12 DEF BestBelow, GreatestOf, NearestDown

\* What the scan up finds when n words are left, the last ones: the least of
\* the levels S of these words.
LeastOf(T) == IF T = {} THEN None ELSE CHOOSE i \in T : \A j \in T : i <= j
BestAbove(S, n) == LeastOf({i \in S : WordOf(i) >= Words - n})

LEMMA WordAbove ==
  ASSUME NEW S \in SUBSET Indices, NEW n \in 1 .. Words
  PROVE  LET seen == {BitOf(i) : i \in {k \in S : WordOf(k) = Words - n}}
         IN BestAbove(S, n) = IF seen # {} THEN (Words - n) * WordBits + FX!Min(seen)
                                           ELSE BestAbove(S, n - 1)
<1> DEFINE here == {k \in S : WordOf(k) = Words - n}
           seen == {BitOf(i) : i \in here}
           left == {i \in S : WordOf(i) >= Words - n}
<1>1. \A i \in S : /\ i \in Nat /\ WordOf(i) \in Nat /\ BitOf(i) \in 0 .. WordBits - 1
                   /\ i = WordOf(i) * WordBits + BitOf(i)
  BY BitsOfWords DEF Indices
<1>2. CASE seen = {}
  <2>1. left = {i \in S : WordOf(i) >= Words - (n - 1)}
    BY <1>1, <1>2, WordsAssumption
  <2>2. BestAbove(S, n) = BestAbove(S, n - 1)
    BY <2>1 DEF BestAbove
  <2> QED
    BY <1>2, <2>2
<1>3. CASE seen # {}
  <2>1. seen \in SUBSET (0 .. WordBits - 1)
    BY <1>1
  <2>2. FX!Min(seen) \in seen /\ \A b \in seen : FX!Min(seen) <= b
    BY <1>3, <2>1, LeastBit
  <2>3. PICK i \in here : BitOf(i) = FX!Min(seen)
    BY <2>2
  <2>4. i = (Words - n) * WordBits + FX!Min(seen)
    BY <1>1, <2>3
  <2>5. i \in left
    BY <2>3, WordsAssumption
  <2>6. \A j \in left : i <= j
    <3> SUFFICES ASSUME NEW j \in left PROVE i <= j
      OBVIOUS
    <3>1. i \in Nat /\ j \in Nat /\ WordOf(i) = Words - n /\ WordOf(j) \in Nat /\ WordOf(j) >= Words - n
      BY <1>1, <2>3
    <3>2. CASE WordOf(j) = Words - n
      <4>1. BitOf(j) \in seen
        BY <3>2
      <4> QED
        BY <2>2, <2>3, <3>1, <3>2, <4>1, WordsInOrder
    <3>3. CASE WordOf(j) # Words - n
      BY <3>1, <3>3, WordsInOrder, WordsAssumption
    <3> QED
      BY <3>2, <3>3
  <2>7. \A k \in left : (\A j \in left : k <= j) => k = i
    BY <1>1, <2>5, <2>6
  <2>8. BestAbove(S, n) = CHOOSE k \in left : \A j \in left : k <= j
    BY <2>5 DEF BestAbove, LeastOf
  <2>9. BestAbove(S, n) = i
    BY <2>5, <2>6, <2>7, <2>8
  <2> QED
    BY <1>3, <2>4, <2>9
<1> QED
  BY <1>2, <1>3

LEMMA ScanUpFinds ==
  ASSUME NEW S \in SUBSET Indices, NEW from \in Indices
  PROVE  ScanUp(WordsOf(S), from) = NearestUp(S, from)
<1> DEFINE seen(w) == WordSeen(WordsOf(S), from, w, FromStart(from))
           Scans(f) == f = [n \in 0 .. Words |->
                              IF n = 0 THEN None
                              ELSE IF seen(Words - n) # {} THEN (Words - n) * WordBits + FX!Min(seen(Words - n))
                              ELSE f[n - 1]]
           scan == CHOOSE f : Scans(f)
           Vis == {k \in S : WordOf(k) = WordOf(from) => k >= from}
           best == [n \in 0 .. Words |-> BestAbove(Vis, n)]
           hit == [n \in 0 .. Words |-> seen(Words - n) # {}]
           there == [n \in 0 .. Words |-> (Words - n) * WordBits + FX!Min(seen(Words - n))]
<1>0. from # None /\ from \in Nat /\ WordOf(from) \in Nat /\ WordOf(from) < Words
  BY IndexIs, BitsOfWords, WordBitsAssumption, WordsAssumption DEF Indices, None
<1>1. ScanUp(WordsOf(S), from) = scan[Words - WordOf(from)]
  BY <1>0, WordsAssumption DEF ScanUp
<1>2. Vis \in SUBSET Indices /\ \A i \in Vis : i \in Nat /\ WordOf(i) \in Nat
  <2>1. \A i \in Indices : i \in Nat
    BY DEF Indices
  <2> QED
    BY <2>1, BitsOfWords
<1>3. ASSUME NEW n \in 1 .. Words
      PROVE  seen(Words - n) = {BitOf(i) : i \in {k \in Vis : WordOf(k) = Words - n}}
  <2>1. Words - n \in 0 .. Words - 1
    BY WordsAssumption
  <2>2. {k \in S : WordOf(k) = Words - n /\ (WordOf(k) = WordOf(from) => k >= from)}
          = {k \in Vis : WordOf(k) = Words - n}
    OBVIOUS
  <2> QED
    BY <2>1, <2>2, SeenUp
<1> HIDE DEF Vis, seen
<1>4. BestAbove(Vis, 0) = None
  <2>1. {i \in Vis : WordOf(i) >= Words - 0} = {}
    BY <1>2, IndexIs, WordsAssumption
  <2> QED
    BY <2>1 DEF BestAbove, LeastOf
<1>5. ASSUME NEW n \in 0 .. Words, n # 0
      PROVE  BestAbove(Vis, n) = IF seen(Words - n) # {} THEN (Words - n) * WordBits + FX!Min(seen(Words - n))
                                 ELSE BestAbove(Vis, n - 1)
  <2>1. n \in 1 .. Words
    BY <1>5, WordsAssumption
  <2> QED
    BY <1>2, <1>3, <2>1, WordAbove
<1>6. Scans(best)
  <2>1. \A n \in 0 .. Words : n # 0 => best[n - 1] = BestAbove(Vis, n - 1)
    BY WordsAssumption
  <2> QED
    BY <1>4, <1>5, <2>1
<1>7. Scans(scan)
  BY <1>6
<1> HIDE DEF scan, best
<1>8. FallsThrough(scan, Words, hit, there) /\ FallsThrough(best, Words, hit, there)
  BY <1>6, <1>7 DEF FallsThrough
<1> HIDE DEF hit, there, Scans
<1>9. scan = best
  BY <1>8, FallThroughOnce, WordsAssumption
<1>10. Words - WordOf(from) \in 0 .. Words
  BY <1>0, WordsAssumption
<1>11. ScanUp(WordsOf(S), from) = BestAbove(Vis, Words - WordOf(from))
  BY <1>1, <1>9, <1>10 DEF best
<1>12. {i \in Vis : WordOf(i) >= Words - (Words - WordOf(from))} = {i \in S : i >= from}
  <2> SUFFICES ASSUME NEW i \in S
               PROVE  (i \in Vis /\ WordOf(i) >= Words - (Words - WordOf(from))) <=> i >= from
    BY DEF Vis
  <2>1. i \in Nat /\ WordOf(i) \in Nat
    BY BitsOfWords DEF Indices
  <2>2. WordOf(i) < WordOf(from) => i < from
    BY <1>0, <2>1, WordsInOrder
  <2>3. WordOf(from) < WordOf(i) => from < i
    BY <1>0, <2>1, WordsInOrder
  <2> QED
    BY <1>0, <2>1, <2>2, <2>3, WordsAssumption DEF Vis
<1> QED
  BY <1>11, <1>12 DEF BestAbove, LeastOf, NearestUp

-----------------------------------------------------------------------------
\* One step of a bit, or none, stays among the levels.
LEMMA BitsStayLevels ==
  ASSUME bits \in SUBSET Indices, [FlipBit]_bits
  PROVE  bits' \in SUBSET Indices
BY DEF FlipBit

\* Whatever the levels that are occupied, both scans find the nearest.
LEMMA BothScansFind ==
  ASSUME bits \in SUBSET Indices
  PROVE  ScansFindTheNearest
<1> SUFFICES ASSUME NEW from \in -1 .. WordBits * Words
             PROVE  /\ from # -1 => ScanUp(WordsOf(bits), from) = NearestUp(bits, from)
                    /\ from # WordBits * Words => ScanDown(WordsOf(bits), from) = NearestDown(bits, from)
  BY DEF ScansFindTheNearest
<1> DEFINE reach == WordBits * Words
<1>1. reach \in Nat
  BY WordBitsAssumption, WordsAssumption
<1>2. Indices = 0 .. reach - 1
  BY DEF Indices
<1>3. from \in -1 .. reach
  OBVIOUS
<1>4. WordOf(reach) = Words
  BY WordBitsAssumption, WordsAssumption DEF WordOf
<1> HIDE DEF reach
<1>5. \A i \in bits : i \in 0 .. reach - 1
  BY <1>2
<1>6. CASE from \in Indices
  BY <1>6, ScanUpFinds, ScanDownFinds
<1>7. CASE from = -1
  <2>1. {i \in bits : i <= from} = {}
    BY <1>5, <1>7
  <2>2. NearestDown(bits, from) = None
    BY <2>1 DEF NearestDown
  <2> QED
    BY <1>7, <2>2 DEF ScanDown, None
<1>8. CASE from = reach
  <2>1. {i \in bits : i >= from} = {}
    BY <1>1, <1>5, <1>8
  <2>2. NearestUp(bits, from) = None
    BY <2>1 DEF NearestUp
  <2>3. ScanUp(WordsOf(bits), from) = None
    BY <1>4, <1>8, WordsAssumption DEF ScanUp
  <2> QED
    BY <1>8, <2>2, <2>3 DEF reach
<1> QED
  BY <1>1, <1>2, <1>3, <1>6, <1>7, <1>8

\* From every level, and from one past either end, the masked scans over the
\* words find the nearest occupied level, whatever the width of a word and the
\* number of words, after any sequence of set_bit and clear_bit
\* (src/order_book.cpp:34).
THEOREM ScansAreRight == BitsSpec => []ScansFindTheNearest
<1>1. BitsInit => bits \in SUBSET Indices
  BY DEF BitsInit
<1>2. bits \in SUBSET Indices /\ [FlipBit]_bits => (bits \in SUBSET Indices)'
  BY BitsStayLevels
<1>3. bits \in SUBSET Indices => ScansFindTheNearest
  BY BothScansFind
<1> QED
  BY <1>1, <1>2, <1>3, PTL DEF BitsSpec
=============================================================================
