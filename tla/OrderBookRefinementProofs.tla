--------------------- MODULE OrderBookRefinementProofs ---------------------
(***************************************************************************)
(* OrderBook implements PriceTimeBook, for every pool size, window and set *)
(* of ids, prices and quantities.                                          *)
(*                                                                         *)
(* The abstract queues are read from the links by recursion.  The proof    *)
(* names what is read instead: Q gives, for each level, its slots in the   *)
(* order they arrived.  That some Q does is inductive, an operation        *)
(* appends to one of its sequences or removes an item, and one lemma,      *)
(* ChainReadsTheQueue, says that the links spell the sequences out.        *)
(***************************************************************************)
EXTENDS OrderBookRefinement, OrderBookProofs, FiniteSetTheorems, FunctionTheorems,
        SequenceTheorems

USE DEF NullOrder, NoLevel, NoId

\* The sequence w names each slot of S once, by rank.
Lists(B, S, w) ==
  /\ w \in Seq(S)
  /\ \A s \in S : \E i \in 1 .. Len(w) : w[i] = s
  /\ \A i, j \in 1 .. Len(w) : i < j => B.pool[w[i]].level_seq < B.pool[w[j]].level_seq

FifoIs(B, Q) ==
  /\ Q \in [Sides -> [Levels -> Seq(Slots)]]
  /\ \A sd \in Sides, l \in Levels : Lists(B, LiveAt(B, sd, l), Q[sd][l])

EntryOf(B, s) == [id |-> B.pool[s].id, qty |-> B.pool[s].qty, mine |-> B.pool[s].mine]
Entries(B, w) == [i \in 1 .. Len(w) |-> EntryOf(B, w[i])]

\* The abstract queues, spelled out.
Read(B, Q) ==
  [sd \in Sides |-> [p \in Prices |->
     IF InWindow(p) THEN Entries(B, Q[sd][ToIndex(p)]) ELSE <<>>]]

-----------------------------------------------------------------------------
\* Ranks grow along a list, and tell its items apart.
LEMMA ListedOnce ==
  ASSUME NEW B \in Book, NEW S \in SUBSET Slots, NEW w, Lists(B, S, w)
  PROVE  /\ Len(w) \in Nat /\ \A i \in 1 .. Len(w) : w[i] \in S
         /\ \A i, j \in 1 .. Len(w) :
              /\ w[i] = w[j] => i = j
              /\ B.pool[w[i]].level_seq < B.pool[w[j]].level_seq => i < j
<1>1. Len(w) \in Nat /\ \A i \in 1 .. Len(w) : w[i] \in S /\ w[i] \in Slots
  BY DEF Lists
<1>2. \A i \in 1 .. Len(w) : B.pool[w[i]].level_seq \in Nat
  BY <1>1, OrderFields
<1>3. \A i, j \in 1 .. Len(w) : i < j => B.pool[w[i]].level_seq < B.pool[w[j]].level_seq
  BY DEF Lists
<1> QED
  BY <1>1, <1>2, <1>3

\* The links of a ranked queue lead from each item of its list to the next.
LEMMA LinksFollowTheList ==
  ASSUME NEW B \in Book, NEW sd \in Sides, NEW l \in Levels, QueueIsRanked(B, sd, l),
         NEW w, Lists(B, LiveAt(B, sd, l), w)
  PROVE  /\ Len(w) = 0 => B.levels[sd][l].head = NullOrder
         /\ Len(w) # 0 => B.levels[sd][l].head = w[1]
         /\ \A i \in 1 .. Len(w) :
              B.pool[w[i]].next = IF i = Len(w) THEN NullOrder ELSE w[i + 1]
<1> DEFINE S == LiveAt(B, sd, l)
           q == B.levels[sd][l]
           R(s) == B.pool[s].level_seq
<1>1. /\ Len(w) \in Nat /\ \A i \in 1 .. Len(w) : w[i] \in S
      /\ \A i, j \in 1 .. Len(w) : (w[i] = w[j] => i = j) /\ (R(w[i]) < R(w[j]) => i < j)
      /\ S \in SUBSET Slots
  <2>1. S \in SUBSET Slots
    BY DEF LiveAt
  <2> QED
    BY <2>1, ListedOnce
<1>2. \A s \in S : R(s) \in Nat
  BY <1>1, OrderFields
<1>3. /\ S = {} => q.head = NullOrder
      /\ S # {} => q.head \in S /\ q.tail \in S
      /\ \A s \in S : /\ s = q.tail <=> B.pool[s].next = NullOrder
                      /\ s # q.tail => Adjacent(B, S, s, B.pool[s].next)
                      /\ R(q.head) <= R(s) /\ R(s) <= R(q.tail)
  BY DEF QueueIsRanked
<1>4. /\ \A s \in S : \E i \in 1 .. Len(w) : w[i] = s
      /\ \A i, j \in 1 .. Len(w) : i < j => R(w[i]) < R(w[j])
  BY DEF Lists
<1> HIDE DEF S, q
<1>5. ASSUME Len(w) = 0 PROVE q.head = NullOrder
  BY <1>3, <1>4, <1>5
<1>6. ASSUME Len(w) # 0 PROVE q.head = w[1]
  <2>1. 1 \in 1 .. Len(w) /\ w[1] \in S
    BY <1>1, <1>6
  <2>2. PICK i \in 1 .. Len(w) : w[i] = q.head
    BY <1>3, <1>4, <2>1
  <2>3. ~(R(w[1]) < R(w[i]))
    BY <1>2, <1>3, <2>1, <2>2
  <2> QED
    BY <1>4, <2>1, <2>2, <2>3
<1>7. ASSUME NEW i \in 1 .. Len(w)
      PROVE  B.pool[w[i]].next = IF i = Len(w) THEN NullOrder ELSE w[i + 1]
  <2>1. w[i] \in S /\ Len(w) \in 1 .. Len(w) /\ w[Len(w)] \in S
    BY <1>1
  <2>2. CASE i = Len(w)
    <3>1. PICK k \in 1 .. Len(w) : w[k] = q.tail
      BY <1>3, <1>4, <2>1
    <3>2. ~(R(w[k]) < R(w[i]))
      BY <1>2, <1>3, <2>1, <2>2, <3>1
    <3>3. k = i
      BY <1>1, <1>4, <2>2, <3>2
    <3> QED
      BY <1>3, <2>1, <2>2, <3>1, <3>3
  <2>3. CASE i # Len(w)
    <3> DEFINE n == B.pool[w[i]].next
    <3>1. i + 1 \in 1 .. Len(w) /\ w[i + 1] \in S /\ i < i + 1
      BY <1>1, <2>3
    <3>2. R(w[i]) < R(w[i + 1])
      BY <1>4, <3>1
    <3>3. w[i] # q.tail
      BY <1>2, <1>3, <2>1, <3>1, <3>2
    <3>4. /\ n \in S /\ R(w[i]) < R(n)
          /\ R(w[i + 1]) <= R(w[i]) \/ R(w[i + 1]) >= R(n)
      BY <1>3, <2>1, <3>1, <3>3 DEF Adjacent
    <3> HIDE DEF n
    <3>5. PICK k \in 1 .. Len(w) : w[k] = n
      BY <1>4, <3>4
    <3>6. i < k
      BY <1>1, <3>4, <3>5
    <3>7. ~(R(w[i + 1]) < R(w[k]))
      BY <1>2, <2>1, <3>1, <3>2, <3>4, <3>5
    <3>8. ~(i + 1 < k)
      BY <1>4, <3>1, <3>7
    <3>9. k = i + 1
      BY <3>6, <3>8
    <3> QED
      BY <2>3, <3>5, <3>9 DEF n
  <2> QED
    BY <2>2, <2>3
<1> QED
  BY <1>5, <1>6, <1>7 DEF q

\* The entries a list of slots stands for.
LEMMA EntriesOfAList ==
  ASSUME NEW B, NEW S, NEW w \in Seq(S)
  PROVE  LET e == Entries(B, w)
         IN /\ e \in Seq({EntryOf(B, s) : s \in S}) /\ Len(e) = Len(w)
            /\ \A i \in 1 .. Len(w) : e[i] = EntryOf(B, w[i])
<1>1. Len(w) \in Nat /\ \A i \in 1 .. Len(w) : w[i] \in S
  OBVIOUS
<1> QED
  BY <1>1 DEF Entries

QueueFor(B, Q, s) == Q[B.pool[s].side][B.pool[s].level]
PlaceIn(w, s) == CHOOSE i \in 1 .. Len(w) : w[i] = s

\* A resting order has one place in the queue of its level.
LEMMA HasAPlace ==
  ASSUME NEW B \in Book, PlacedIn(B), NEW Q, FifoIs(B, Q), NEW s \in Resting(B)
  PROVE  LET w == QueueFor(B, Q, s)
             S == LiveAt(B, B.pool[s].side, B.pool[s].level)
         IN /\ B.pool[s].side \in Sides /\ B.pool[s].level \in Levels
            /\ s \in S /\ S \in SUBSET Resting(B) /\ S \in SUBSET Slots
            /\ Lists(B, S, w) /\ w \in Seq(S) /\ Len(w) \in Nat
            /\ PlaceIn(w, s) \in 1 .. Len(w) /\ w[PlaceIn(w, s)] = s
            /\ \A i \in 1 .. Len(w) : w[i] = s => i = PlaceIn(w, s)
<1> DEFINE w == QueueFor(B, Q, s)
           S == LiveAt(B, B.pool[s].side, B.pool[s].level)
<1>1. /\ B.pool[s].side \in Sides /\ B.pool[s].level \in Levels
      /\ s \in S /\ S \in SUBSET Resting(B) /\ S \in SUBSET Slots
  BY OrderFields DEF PlacedIn, LiveAt, Resting
<1>2. Lists(B, S, w)
  BY <1>1 DEF FifoIs, QueueFor
<1> HIDE DEF S, w
<1>3. w \in Seq(S) /\ Len(w) \in Nat
  BY <1>2 DEF Lists
<1>4. \E i \in 1 .. Len(w) : w[i] = s
  BY <1>1, <1>2 DEF Lists
<1>5. PlaceIn(w, s) \in 1 .. Len(w) /\ w[PlaceIn(w, s)] = s
  BY <1>4 DEF PlaceIn
<1>6. \A i \in 1 .. Len(w) : w[i] = s => i = PlaceIn(w, s)
  <2>1. \A i, j \in 1 .. Len(w) : w[i] = w[j] => i = j
    BY <1>1, <1>2, ListedOnce
  <2> QED
    BY <1>5, <2>1
<1> QED
  BY <1>1, <1>2, <1>3, <1>5, <1>6 DEF S, w

\* What the links spell from a resting order on.
Spelled(B, Q, s) ==
  IF s = NullOrder THEN <<>>
  ELSE LET w == QueueFor(B, Q, s) IN SubSeq(Entries(B, w), PlaceIn(w, s), Len(w))

\* It is the order's entry, then what is spelled from the order behind it.
LEMMA SpelledFromTheNext ==
  ASSUME NEW B \in Book, PlacedIn(B), QueuesAreRankedIn(B), NEW Q, FifoIs(B, Q),
         NEW s \in Resting(B)
  PROVE  LET n == B.pool[s].next
         IN /\ n \in Resting(B) \cup {NullOrder}
            /\ Spelled(B, Q, s) = <<EntryOf(B, s)>> \o Spelled(B, Q, n)
            /\ Len(Spelled(B, Q, n)) \in Nat /\ Len(Spelled(B, Q, s)) \in Nat
            /\ Len(Spelled(B, Q, n)) < Len(Spelled(B, Q, s))
<1> DEFINE n == B.pool[s].next
           sd == B.pool[s].side
           l == B.pool[s].level
           S == LiveAt(B, sd, l)
           w == QueueFor(B, Q, s)
           i == PlaceIn(w, s)
           e == Entries(B, w)
           E == {EntryOf(B, t) : t \in S}
<1>1. /\ sd \in Sides /\ l \in Levels /\ S \in SUBSET Resting(B)
      /\ Lists(B, S, w) /\ w \in Seq(S) /\ Len(w) \in Nat
      /\ i \in 1 .. Len(w) /\ w[i] = s
  BY HasAPlace
<1>2. \A t \in S : t # NullOrder /\ QueueFor(B, Q, t) = w
  BY DEF LiveAt, Slots, QueueFor
<1>3. e \in Seq(E) /\ Len(e) = Len(w) /\ e[i] = EntryOf(B, s)
  BY <1>1, EntriesOfAList
<1>4. n = IF i = Len(w) THEN NullOrder ELSE w[i + 1]
  <2>1. QueueIsRanked(B, sd, l)
    BY <1>1 DEF QueuesAreRankedIn
  <2> QED
    BY <1>1, <2>1, LinksFollowTheList
<1>5. s # NullOrder
  BY DEF Resting, Slots
<1>6. Spelled(B, Q, s) = SubSeq(e, i, Len(w))
  BY <1>5 DEF Spelled
<1>7. Spelled(B, Q, n) = SubSeq(e, i + 1, Len(w)) /\ n \in Resting(B) \cup {NullOrder}
  <2>1. CASE i = Len(w)
    <3>1. n = NullOrder
      BY <1>4, <2>1
    <3>2. SubSeq(e, i + 1, Len(w)) = <<>>
      BY <1>1, <2>1, SubSeqEmpty
    <3> QED
      BY <3>1, <3>2 DEF Spelled
  <2>2. CASE i # Len(w)
    <3>1. i + 1 \in 1 .. Len(w) /\ n = w[i + 1]
      BY <1>1, <1>4, <2>2
    <3>2. n \in S
      BY <1>1, <3>1
    <3>3. n \in Resting(B) /\ n # NullOrder /\ QueueFor(B, Q, n) = w
      BY <1>1, <1>2, <3>2
    <3>4. PlaceIn(w, n) = i + 1
      BY <3>1, <3>3, HasAPlace
    <3> QED
      BY <3>3, <3>4 DEF Spelled
  <2> QED
    BY <2>1, <2>2
<1> HIDE DEF n, w, i, e, E, S
<1>8. SubSeq(e, i, Len(w)) = <<EntryOf(B, s)>> \o SubSeq(e, i + 1, Len(w))
  BY <1>1, <1>3, SubSeqRecursiveFirst
<1>9. /\ Len(SubSeq(e, i, Len(w))) = Len(w) - i + 1
      /\ Len(SubSeq(e, i + 1, Len(w))) = Len(w) - i
  BY <1>1, <1>3
<1> QED
  BY <1>1, <1>6, <1>7, <1>8, <1>9 DEF n

\* The walk of the links from a resting order is what is spelled from it.
LEMMA ChainReadsTheQueue ==
  ASSUME NEW B \in Book, PlacedIn(B), QueuesAreRankedIn(B), NEW Q, FifoIs(B, Q)
  PROVE  \A s \in Resting(B) \cup {NullOrder} : Chain(B)[s] = Spelled(B, Q, s)
<1> DEFINE D == Resting(B) \cup {NullOrder}
           Walks(c) == c = [s \in D |-> IF s = NullOrder THEN <<>>
                                         ELSE <<EntryOf(B, s)>> \o c[B.pool[s].next]]
           f == [s \in D |-> Spelled(B, Q, s)]
           c == Chain(B)
<1>1. Chain(B) = CHOOSE g : Walks(g)
  BY DEF Chain, Resting, EntryOf
<1>2. \A s \in Resting(B) :
        /\ s # NullOrder /\ B.pool[s].next \in D
        /\ Spelled(B, Q, s) = <<EntryOf(B, s)>> \o Spelled(B, Q, B.pool[s].next)
        /\ Len(Spelled(B, Q, B.pool[s].next)) < Len(Spelled(B, Q, s))
        /\ Len(Spelled(B, Q, s)) \in Nat
  BY SpelledFromTheNext DEF Resting, Slots
<1>3. Spelled(B, Q, NullOrder) = <<>>
  BY DEF Spelled
<1>4. Walks(f)
  BY <1>2, <1>3
<1>5. Walks(c)
  BY <1>1, <1>4, Zenon
<1> HIDE DEF c, f
<1>6. /\ c[NullOrder] = <<>>
      /\ \A s \in Resting(B) : c[s] = <<EntryOf(B, s)>> \o c[B.pool[s].next]
  BY <1>2, <1>5
<1> DEFINE Odd == {s \in Resting(B) : c[s] # Spelled(B, Q, s)}
<1>7. Odd = {}
  <2> SUFFICES ASSUME Odd # {} PROVE FALSE
    OBVIOUS
  <2>1. PICK s \in Odd : \A t \in Odd : Len(Spelled(B, Q, s)) <= Len(Spelled(B, Q, t))
    <3> DEFINE N == {Len(Spelled(B, Q, t)) : t \in Odd}
    <3>1. N \in SUBSET Nat /\ N # {}
      BY <1>2, ZenonT(40)
    <3>2. \E m \in N : \A k \in N : m <= k
      BY <3>1, LeastExists
    <3> QED
      BY <3>2
  <2>2. ASSUME B.pool[s].next \in Odd PROVE FALSE
    <3> DEFINE n == B.pool[s].next
    <3>1. Len(Spelled(B, Q, s)) <= Len(Spelled(B, Q, n))
      BY <2>1, <2>2
    <3>2. /\ Len(Spelled(B, Q, n)) < Len(Spelled(B, Q, s))
          /\ Len(Spelled(B, Q, s)) \in Nat /\ Len(Spelled(B, Q, n)) \in Nat
      BY <1>2, <2>2
    <3> QED
      BY <3>1, <3>2
  <2>3. c[B.pool[s].next] = Spelled(B, Q, B.pool[s].next)
    BY <1>2, <1>3, <1>6, <2>2
  <2> QED
    BY <1>2, <1>6, <2>3
<1> QED
  BY <1>3, <1>6, <1>7 DEF c

\* What the links spell is the queues named by Q.
LEMMA QueuesAreRead ==
  ASSUME NEW B \in Book, PlacedIn(B), QueuesAreRankedIn(B), NEW Q, FifoIs(B, Q)
  PROVE  AbstractQueues(B) = Read(B, Q)
<1> SUFFICES ASSUME NEW sd \in Sides, NEW p \in Prices, InWindow(p)
             PROVE  Chain(B)[B.levels[sd][ToIndex(p)].head] = Entries(B, Q[sd][ToIndex(p)])
  BY DEF AbstractQueues, Read
<1> DEFINE l == ToIndex(p)
           w == Q[sd][l]
           S == LiveAt(B, sd, l)
           h == B.levels[sd][l].head
           e == Entries(B, w)
<1>1. l \in Levels
  BY InWindowIsLevel, InputAssumption
<1>2. Lists(B, S, w) /\ QueueIsRanked(B, sd, l) /\ S \in SUBSET Slots
  BY <1>1 DEF FifoIs, QueuesAreRankedIn, LiveAt
<1>3. /\ Len(w) = 0 => h = NullOrder
      /\ Len(w) # 0 => h = w[1]
  BY <1>1, <1>2, LinksFollowTheList
<1>4. w \in Seq(S) /\ Len(w) \in Nat /\ \A i \in 1 .. Len(w) : w[i] \in S
  BY <1>2, ListedOnce DEF Lists
<1>5. e \in Seq({EntryOf(B, s) : s \in S}) /\ Len(e) = Len(w)
  BY <1>4, EntriesOfAList
<1>6. CASE Len(w) = 0
  <2>1. e = <<>>
    BY <1>5, <1>6, EmptySeq
  <2>2. Chain(B)[h] = <<>>
    BY <1>3, <1>6, ChainReadsTheQueue DEF Spelled
  <2> QED
    BY <2>1, <2>2
<1>7. CASE Len(w) # 0
  <2>1. h = w[1] /\ h \in S /\ 1 \in 1 .. Len(w)
    BY <1>3, <1>4, <1>7
  <2>2. h \in Resting(B) /\ B.pool[h].side = sd /\ B.pool[h].level = l /\ h # NullOrder
    BY <2>1 DEF LiveAt, Resting, Slots
  <2>3. QueueFor(B, Q, h) = w
    BY <2>2 DEF QueueFor
  <2>4. PlaceIn(w, h) = 1
    BY <2>1, <2>2, <2>3, HasAPlace
  <2>5. Spelled(B, Q, h) = SubSeq(e, 1, Len(w))
    BY <2>2, <2>3, <2>4 DEF Spelled
  <2>6. SubSeq(e, 1, Len(w)) = e
    BY <1>5, SubSeqFull
  <2> QED
    BY <2>2, <2>5, <2>6, ChainReadsTheQueue
<1> QED
  BY <1>6, <1>7

-----------------------------------------------------------------------------
(***************************************************************************)
(* What the abstract operators find in queues that are read from a book.   *)
(***************************************************************************)
PriceOf(B, s) == WindowBase + B.pool[s].level

PricesIn(B) == \A s \in Resting(B) : PriceOf(B, s) \in Prices

Reads(B, Q) ==
  /\ PoolPartitionOf(B) /\ PlacedIn(B) /\ QueuesAreRankedIn(B)
  /\ PricesIn(B) /\ FifoIs(B, Q)

\* The slot the map names under an id rests, at a price inside the window.
LEMMA NamedIsResting ==
  ASSUME NEW B \in Book, NEW Q, Reads(B, Q), NEW id \in Ids, B.map[id] # NullOrder
  PROVE  LET s == B.map[id]
         IN /\ s \in Resting(B) /\ B.pool[s].id = id
            /\ B.pool[s].side \in Sides /\ B.pool[s].level \in Levels
            /\ PriceOf(B, s) \in Prices /\ InWindow(PriceOf(B, s))
            /\ ToIndex(PriceOf(B, s)) = B.pool[s].level
<1> DEFINE s == B.map[id]
<1>1. s \in Resting(B) /\ B.pool[s].id = id
  BY DEF Reads, PoolPartitionOf, Resting, Live, Book, SlotsOrNull
<1>2. B.pool[s].side \in Sides /\ B.pool[s].level \in Levels
  BY <1>1, OrderFields DEF Reads, PlacedIn, Resting
<1>3. PriceOf(B, s) \in Prices
  BY <1>1 DEF Reads, PricesIn
<1>4. InWindow(PriceOf(B, s)) /\ ToIndex(PriceOf(B, s)) = B.pool[s].level
  BY <1>2, WindowAssumption DEF PriceOf, InWindow, ToIndex, Levels
<1> QED
  BY <1>1, <1>2, <1>3, <1>4

\* An id is found at a side and price exactly when its order rests there.
LEMMA FoundWhereItRests ==
  ASSUME NEW B \in Book, NEW Q, Reads(B, Q), NEW id \in Ids, NEW sd \in Sides, NEW p \in Prices
  PROVE  Abstract!IsAt(Read(B, Q), id, sd, p)
           <=> /\ B.map[id] # NullOrder
               /\ B.pool[B.map[id]].side = sd /\ PriceOf(B, B.map[id]) = p
<1> DEFINE s == B.map[id]
           l == ToIndex(p)
           w == Q[sd][l]
           S == LiveAt(B, sd, l)
           e == Read(B, Q)[sd][p]
<1>1. Abstract!IsAt(Read(B, Q), id, sd, p) <=> \E i \in DOMAIN e : e[i].id = id
  BY DEF Abstract!IsAt, Abstract!IdsIn
<1>2. ASSUME InWindow(p)
      PROVE  /\ l \in Levels /\ Lists(B, S, w) /\ w \in Seq(S) /\ Len(w) \in Nat
             /\ \A i \in 1 .. Len(w) : w[i] \in S
             /\ e = Entries(B, w)
  <2>1. l \in Levels
    BY <1>2, InWindowIsLevel, InputAssumption
  <2>2. Lists(B, S, w) /\ S \in SUBSET Slots
    BY <2>1 DEF Reads, FifoIs, LiveAt
  <2> QED
    BY <1>2, <2>1, <2>2, ListedOnce DEF Lists, Read
<1>3. ~InWindow(p) => e = <<>>
  BY DEF Read
<1>4. ASSUME NEW i \in DOMAIN e, e[i].id = id
      PROVE  s # NullOrder /\ B.pool[s].side = sd /\ PriceOf(B, s) = p
  <2>1. InWindow(p)
    BY <1>3, <1>4
  <2>2. i \in 1 .. Len(w) /\ e[i] = EntryOf(B, w[i]) /\ w[i] \in S
    <3>1. e = [j \in 1 .. Len(w) |-> EntryOf(B, w[j])]
      BY <1>2, <2>1 DEF Entries
    <3> HIDE DEF e, w, S
    <3> QED
      BY <1>2, <1>4, <2>1, <3>1
  <2>3. w[i] \in Slots /\ B.pool[w[i]].id = id /\ B.map[id] = w[i]
        /\ B.pool[w[i]].side = sd /\ B.pool[w[i]].level = l
    <3>1. /\ w[i] \in Slots /\ Live(B, w[i])
          /\ B.pool[w[i]].side = sd /\ B.pool[w[i]].level = l
      BY <2>2 DEF LiveAt
    <3>2. B.pool[w[i]].id = id
      <4> HIDE DEF e, w, S
      <4> QED
        BY <1>4, <2>2 DEF EntryOf
    <3> HIDE DEF e, w, S, l
    <3> QED
      BY <3>1, <3>2 DEF Live
  <2>4. WindowBase + l = p
    BY InputAssumption, WindowAssumption DEF ToIndex
  <2> QED
    BY <2>3, <2>4 DEF PriceOf, Slots
<1>5. ASSUME s # NullOrder, B.pool[s].side = sd, PriceOf(B, s) = p
      PROVE  \E i \in DOMAIN e : e[i].id = id
  <2>1. s \in Resting(B) /\ B.pool[s].id = id /\ InWindow(p) /\ l = B.pool[s].level
    BY <1>5, NamedIsResting
  <2>2. s \in S
    BY <1>5, <2>1 DEF LiveAt, Resting
  <2>3. PICK i \in 1 .. Len(w) : w[i] = s
    BY <1>2, <2>1, <2>2 DEF Lists
  <2>4. e = [j \in 1 .. Len(w) |-> EntryOf(B, w[j])]
    BY <1>2, <2>1 DEF Entries
  <2> HIDE DEF e, w
  <2>5. i \in DOMAIN e /\ e[i] = EntryOf(B, s)
    BY <2>3, <2>4
  <2> QED
    BY <2>1, <2>5 DEF EntryOf
<1> QED
  BY <1>1, <1>4, <1>5

\* The abstract index knows the ids the map names, and no others.
LEMMA KnowsTheSameIds ==
  ASSUME NEW B \in Book, NEW Q, Reads(B, Q), NEW id \in Ids
  PROVE  Abstract!Known(Read(B, Q), id) <=> B.map[id] # NullOrder
<1>1. ASSUME B.map[id] # NullOrder PROVE Abstract!Known(Read(B, Q), id)
  <2> DEFINE s == B.map[id]
  <2>1. B.pool[s].side \in Sides /\ PriceOf(B, s) \in Prices
    BY <1>1, NamedIsResting
  <2>2. Abstract!IsAt(Read(B, Q), id, B.pool[s].side, PriceOf(B, s))
    BY <1>1, <2>1, FoundWhereItRests
  <2> QED
    BY <2>1, <2>2 DEF Abstract!Known, Abstract!Sides, Sides
<1>2. ASSUME Abstract!Known(Read(B, Q), id) PROVE B.map[id] # NullOrder
  <2>1. PICK sd \in Sides, p \in Prices : Abstract!IsAt(Read(B, Q), id, sd, p)
    BY <1>2 DEF Abstract!Known, Abstract!Sides, Sides
  <2> QED
    BY <2>1, FoundWhereItRests
<1> QED
  BY <1>1, <1>2

\* It finds a resting order in the queue of its level, at its place.
LEMMA FindsTheOrder ==
  ASSUME NEW B \in Book, NEW Q, Reads(B, Q), NEW id \in Ids, B.map[id] # NullOrder
  PROVE  LET s == B.map[id]
             w == QueueFor(B, Q, s)
             q == Read(B, Q)
         IN /\ Abstract!Where(q, id) = <<B.pool[s].side, PriceOf(B, s)>>
            /\ q[B.pool[s].side][PriceOf(B, s)] = Entries(B, w)
            /\ Abstract!Queue(q, id) = Entries(B, w)
            /\ Abstract!Place(q, id) = PlaceIn(w, s)
            /\ Abstract!EntryOf(q, id) = EntryOf(B, s)
<1> DEFINE s == B.map[id]
           sd == B.pool[s].side
           p == PriceOf(B, s)
           w == QueueFor(B, Q, s)
           S == LiveAt(B, sd, B.pool[s].level)
           q == Read(B, Q)
<1>1. /\ s \in Resting(B) /\ B.pool[s].id = id /\ sd \in Sides /\ p \in Prices
      /\ InWindow(p) /\ ToIndex(p) = B.pool[s].level
  BY NamedIsResting
<1>2. Abstract!Where(q, id) = <<sd, p>>
  <2>1. \A k \in Sides, r \in Prices : Abstract!IsAt(q, id, k, r) <=> k = sd /\ r = p
    BY FoundWhereItRests
  <2> HIDE DEF q, sd, p
  <2>2. \A v \in Sides \X Prices : Abstract!IsAt(q, id, v[1], v[2]) <=> v = <<sd, p>>
    BY <2>1
  <2>3. <<sd, p>> \in Sides \X Prices
    BY <1>1
  <2> QED
    BY <2>2, <2>3 DEF Abstract!Where, Abstract!Sides, Sides
<1>3. q[sd][p] = Entries(B, w)
  BY <1>1 DEF Read, QueueFor
<1>4. Abstract!Queue(q, id) = Entries(B, w)
  BY <1>2, <1>3 DEF Abstract!Queue
<1>5. /\ w \in Seq(S) /\ Len(w) \in Nat /\ PlaceIn(w, s) \in 1 .. Len(w)
      /\ w[PlaceIn(w, s)] = s /\ \A i \in 1 .. Len(w) : w[i] = s => i = PlaceIn(w, s)
  BY <1>1, HasAPlace DEF Reads
<1>6. \A i \in 1 .. Len(w) : EntryOf(B, w[i]).id = id => w[i] = s
  <2>1. \A i \in 1 .. Len(w) : w[i] \in S
    BY <1>5
  <2> QED
    BY <2>1 DEF EntryOf, LiveAt, Live
<1>7. EntryOf(B, s).id = id
  BY <1>1 DEF EntryOf
<1> DEFINE e == Entries(B, w)
<1>8. DOMAIN e = 1 .. Len(w) /\ \A i \in 1 .. Len(w) : e[i] = EntryOf(B, w[i])
  BY DEF Entries
<1> HIDE DEF e, w, s, q
<1>9. \A i \in DOMAIN e : e[i].id = id <=> i = PlaceIn(w, s)
  BY <1>5, <1>6, <1>7, <1>8
<1>10. PlaceIn(w, s) \in DOMAIN e
  BY <1>5, <1>8
<1>11. Abstract!Place(q, id) = CHOOSE i \in DOMAIN e : e[i].id = id
  BY <1>4 DEF Abstract!Place, e
<1>12. Abstract!Place(q, id) = PlaceIn(w, s)
  BY <1>9, <1>10, <1>11
<1>13. Abstract!EntryOf(q, id) = EntryOf(B, s)
  BY <1>4, <1>5, <1>8, <1>12 DEF Abstract!EntryOf, e
<1> QED
  BY <1>2, <1>3, <1>4, <1>12, <1>13 DEF s, q, w

\* The occupied prices are those of the levels whose bit is set.
LEMMA OccupiedPrices ==
  ASSUME NEW B \in Book, NEW Q, Reads(B, Q), TouchIsExactIn(B), NEW sd \in Sides
  PROVE  /\ \A p \in Abstract!Occupied(Read(B, Q), sd) :
              InWindow(p) /\ p \in Prices /\ ToIndex(p) \in B.bits[sd]
         /\ \A l \in B.bits[sd] : WindowBase + l \in Abstract!Occupied(Read(B, Q), sd)
<1>1. B.bits[sd] = {l \in Levels : LiveAt(B, sd, l) # {}}
  BY DEF TouchIsExactIn
<1>2. ASSUME NEW l \in Levels
      PROVE  LET w == Q[sd][l] IN Entries(B, w) # <<>> <=> LiveAt(B, sd, l) # {}
  <2> DEFINE w == Q[sd][l]
             S == LiveAt(B, sd, l)
  <2>1. Lists(B, S, w)
    BY DEF Reads, FifoIs
  <2> HIDE DEF w, S
  <2>2. w \in Seq(S) /\ \A s \in S : \E i \in 1 .. Len(w) : w[i] = s
    BY <2>1 DEF Lists
  <2>3. Len(w) \in Nat /\ \A i \in 1 .. Len(w) : w[i] \in S
    BY <2>2
  <2>4. Len(Entries(B, w)) = Len(w) /\ Entries(B, w) \in Seq({EntryOf(B, s) : s \in S})
    BY <2>2, EntriesOfAList
  <2>5. Entries(B, w) # <<>> <=> Len(w) # 0
    BY <2>4, EmptySeq
  <2>6. Len(w) # 0 => 1 \in 1 .. Len(w)
    BY <2>3
  <2>7. Len(w) = 0 => S = {}
    BY <2>2
  <2> QED
    BY <2>3, <2>5, <2>6, <2>7 DEF w, S
<1>3. ASSUME NEW p \in Abstract!Occupied(Read(B, Q), sd)
      PROVE  InWindow(p) /\ p \in Prices /\ ToIndex(p) \in B.bits[sd]
  <2>1. p \in Prices /\ Read(B, Q)[sd][p] # <<>>
    BY DEF Abstract!Occupied
  <2>2. InWindow(p) /\ Entries(B, Q[sd][ToIndex(p)]) # <<>>
    BY <2>1 DEF Read
  <2>3. ToIndex(p) \in Levels
    BY <2>1, <2>2, InWindowIsLevel, InputAssumption
  <2> QED
    BY <1>1, <1>2, <2>1, <2>2, <2>3
<1>4. ASSUME NEW l \in B.bits[sd] PROVE WindowBase + l \in Abstract!Occupied(Read(B, Q), sd)
  <2>1. PICK s \in LiveAt(B, sd, l) : l \in Levels
    BY <1>1
  <2>2. WindowBase + l \in Prices
    BY <2>1 DEF Reads, PricesIn, PriceOf, LiveAt, Resting
  <2>3. InWindow(WindowBase + l) /\ ToIndex(WindowBase + l) = l
    BY <2>1, WindowAssumption DEF InWindow, ToIndex, Levels
  <2>4. Entries(B, Q[sd][l]) # <<>>
    BY <1>2, <2>1
  <2>5. Read(B, Q)[sd][WindowBase + l] = Entries(B, Q[sd][l])
    BY <2>2, <2>3 DEF Read
  <2> QED
    BY <2>2, <2>4, <2>5 DEF Abstract!Occupied
<1> QED
  BY <1>3, <1>4

\* The abstract touch is the cached one.
LEMMA SameTouch ==
  ASSUME NEW B \in Book, NEW Q, Reads(B, Q), TouchIsExactIn(B), NEW sd \in Sides
  PROVE  /\ Abstract!HasBest(Read(B, Q), sd) <=> HasBest(B, sd)
         /\ HasBest(B, sd) => Abstract!Best(Read(B, Q), sd) = BestPrice(B, sd)
<1> DEFINE O == Abstract!Occupied(Read(B, Q), sd)
           S == B.bits[sd]
           b == B.best[sd]
<1>1. /\ \A p \in O : p \in Int /\ p - WindowBase \in S
      /\ \A l \in S : WindowBase + l \in O
      /\ S \in SUBSET Levels
  BY OccupiedPrices, InputAssumption DEF ToIndex, Book
<1>2. IsTouch(sd, S, b)
  BY DEF TouchIsExactIn
<1>3. HasBest(B, sd) <=> b # -1
  BY DEF HasBest
<1>4. \A l \in S : l \in Nat
  BY <1>1, WindowAssumption DEF Levels
<1> HIDE DEF O, S, b
<1>5. (S = {} <=> O = {}) /\ (S = {} <=> b = -1)
  BY <1>1, <1>2, <1>4 DEF IsTouch, IsHighest, IsLowest
<1>6. Abstract!HasBest(Read(B, Q), sd) <=> O # {}
  BY DEF Abstract!HasBest, O
<1>7. ASSUME b # -1 PROVE Abstract!Best(Read(B, Q), sd) = WindowBase + b
  <2> DEFINE Nearest(p) == \A r \in O : IF sd = "Bid" THEN r <= p ELSE r >= p
  <2>1. b \in S /\ WindowBase + b \in O
    BY <1>1, <1>2, <1>7 DEF IsTouch, IsHighest, IsLowest
  <2>2. \A l \in S : IF sd = "Bid" THEN l <= b ELSE l >= b
    BY <1>2, <1>7 DEF IsTouch, IsHighest, IsLowest
  <2>3. Nearest(WindowBase + b)
    BY <1>1, <1>4, <2>1, <2>2, WindowAssumption
  <2>4. \A p \in O : Nearest(p) => p = WindowBase + b
    BY <1>1, <1>4, <2>1, <2>3, WindowAssumption
  <2>5. Abstract!Best(Read(B, Q), sd) = CHOOSE p \in O : Nearest(p)
    BY <1>5, <1>6, <1>7 DEF Abstract!Best, O
  <2> HIDE DEF Nearest
  <2> QED
    BY <2>1, <2>3, <2>4, <2>5
<1>8. b # -1 => BestPrice(B, sd) = WindowBase + b
  BY DEF BestPrice, ToPrice, b
<1> QED
  BY <1>3, <1>5, <1>6, <1>7, <1>8

\* A price crosses the abstract book when it crosses the book.
LEMMA SameCrossing ==
  ASSUME NEW B \in Book, NEW Q, Reads(B, Q), TouchIsExactIn(B), NEW sd \in Sides, NEW price
  PROVE  Abstract!Crosses(Read(B, Q), sd, price) <=> Crosses(B, sd, price)
<1>1. "Bid" \in Sides /\ "Ask" \in Sides /\ (sd = "Bid" \/ sd = "Ask")
  BY DEF Sides
<1>2. \A k \in Sides :
        /\ Abstract!HasBest(Read(B, Q), k) <=> HasBest(B, k)
        /\ HasBest(B, k) => Abstract!Best(Read(B, Q), k) = BestPrice(B, k)
  BY SameTouch
<1> QED
  BY <1>1, <1>2 DEF Abstract!Crosses, Crosses, Abstract!Opposite, Opposite

\* The queues count their orders with the same Cardinality as the book.
LEMMA SameCardinality == ASSUME NEW S PROVE Abstract!Cardinality(S) = Cardinality(S)
BY Zenon DEF Abstract!Cardinality, Cardinality

\* The abstract book is full when the pool has no free slot.
LEMMA FullWhenNoSlotIsFree ==
  ASSUME NEW B \in Book, NEW Q, Reads(B, Q)
  PROVE  Abstract!Full(Read(B, Q)) <=> B.free = <<>>
<1> DEFINE L == {id \in Ids : B.map[id] # NullOrder}
           D == Resting(B)
           f == [id \in L |-> B.map[id]]
<1>1. Abstract!LiveOrders(Read(B, Q)) = L
  BY KnowsTheSameIds DEF Abstract!LiveOrders
<1>2. f \in Bijection(L, D)
  <2>1. \A id \in L : B.map[id] \in D /\ B.pool[B.map[id]].id = id
    BY NamedIsResting
  <2>2. \A s \in D : B.pool[s].id \in L /\ B.map[B.pool[s].id] = s
    BY DEF Resting, Live, Slots
  <2> HIDE DEF L, D
  <2>3. f \in [L -> D]
    BY <2>1
  <2>4. \A x, y \in L : f[x] = f[y] => x = y
    BY <2>1
  <2>5. \A s \in D : \E id \in L : f[id] = s
    BY <2>2
  <2>6. DOMAIN f = L
    OBVIOUS
  <2> HIDE DEF f
  <2> QED
    BY <2>3, <2>4, <2>5, <2>6 DEF Bijection, Injection, Surjection, IsInjective
<1>3. D \in SUBSET Slots
  BY DEF Resting
<1>4. IsFiniteSet(Slots) /\ Cardinality(Slots) = MaxOrders
  <2>1. /\ IsFiniteSet(0 .. MaxOrders - 1)
        /\ Cardinality(0 .. MaxOrders - 1) = IF 0 > MaxOrders - 1 THEN 0 ELSE MaxOrders - 1 - 0 + 1
    BY MaxOrdersAssumption, FS_Interval
  <2> QED
    BY <2>1, MaxOrdersAssumption DEF Slots
<1>5. /\ IsFiniteSet(D) /\ Cardinality(D) <= MaxOrders /\ Cardinality(D) \in Nat
      /\ Cardinality(D) = MaxOrders <=> D = Slots
  BY <1>3, <1>4, FS_Subset, FS_CardinalityType
<1>6. Cardinality(L) = Cardinality(D)
  <2> HIDE DEF L, D, f
  <2>1. ExistsBijection(D, L)
    BY <1>2, Fun_ExistsBijSymmetric DEF ExistsBijection
  <2> QED
    BY <1>5, <2>1, FS_Bijection
<1>7. D = Slots <=> B.free = <<>>
  <2>1. /\ B.free \in Seq(Slots)
        /\ \A i \in DOMAIN B.free : ~Live(B, B.free[i])
        /\ \A s \in Slots : Live(B, s) \/ \E i \in DOMAIN B.free : B.free[i] = s
    BY DEF Reads, PoolPartitionOf, Book
  <2>2. ASSUME B.free = <<>> PROVE D = Slots
    <3>1. DOMAIN B.free = {}
      BY <2>2
    <3> QED
      BY <2>1, <3>1 DEF Resting
  <2>3. ASSUME B.free # <<>> PROVE D # Slots
    <3>1. 1 \in DOMAIN B.free /\ B.free[1] \in Slots
      BY <2>1, <2>3
    <3> QED
      BY <2>1, <3>1 DEF Resting
  <2> QED
    BY <2>2, <2>3
<1>8. Abstract!Full(Read(B, Q)) <=> Cardinality(L) >= MaxOrders
  BY <1>1, SameCardinality DEF Abstract!Full
<1> QED
  BY <1>5, <1>6, <1>7, <1>8, MaxOrdersAssumption

-----------------------------------------------------------------------------
(***************************************************************************)
(* The operations on the queues that are read.                             *)
(***************************************************************************)
AreQueues(q) == q = [sd \in Sides |-> [p \in Prices |-> q[sd][p]]]

\* What is read from a book has a sequence for every side and price.
LEMMA ReadsQueues == ASSUME NEW B, NEW Q PROVE AreQueues(Read(B, Q))
BY DEF AreQueues, Read

\* One queue of q becomes u.
BecomesAt(q, r, sd, price, u) == r = [q EXCEPT ![sd][price] = u]

\* Queues that differ at one side and price only.
LEMMA OneQueueChanges ==
  ASSUME NEW q, NEW r, AreQueues(q), AreQueues(r), NEW sd \in Sides, NEW price \in Prices, NEW u,
         \A k \in Sides, p \in Prices :
           r[k][p] = IF k = sd /\ p = price THEN u ELSE q[k][p]
  PROVE  BecomesAt(q, r, sd, price, u)
<1> DEFINE t == [q EXCEPT ![sd][price] = u]
<1>1. q = [k \in Sides |-> [p \in Prices |-> q[k][p]]]
  BY DEF AreQueues
<1>2. DOMAIN q = Sides /\ \A k \in Sides : DOMAIN q[k] = Prices
  BY <1>1
<1>3. t = [k \in Sides |-> IF k = sd THEN [q[sd] EXCEPT ![price] = u] ELSE q[k]]
  BY <1>2
<1>4. [q[sd] EXCEPT ![price] = u] = [p \in Prices |-> IF p = price THEN u ELSE q[sd][p]]
  BY <1>2
<1>5. \A k \in Sides : q[k] = [p \in Prices |-> q[k][p]]
  BY <1>1
<1> HIDE DEF t
<1>6. \A k \in Sides : t[k] = [p \in Prices |-> r[k][p]]
  <2> SUFFICES ASSUME NEW k \in Sides PROVE t[k] = [p \in Prices |-> r[k][p]]
    OBVIOUS
  <2>1. CASE k = sd
    <3>1. t[k] = [p \in Prices |-> IF p = price THEN u ELSE q[sd][p]]
      BY <1>3, <1>4, <2>1
    <3> QED
      BY <2>1, <3>1
  <2>2. CASE k # sd
    <3>1. t[k] = [p \in Prices |-> q[k][p]]
      BY <1>3, <1>5, <2>2
    <3> QED
      BY <2>2, <3>1
  <2> QED
    BY <2>1, <2>2
<1>7. t = [k \in Sides |-> t[k]]
  BY <1>3
<1>8. r = [k \in Sides |-> [p \in Prices |-> r[k][p]]]
  BY DEF AreQueues
<1>9. t = r
  BY <1>6, <1>7, <1>8, Zenon
<1> QED
  BY <1>9, Zenon DEF t, BecomesAt

\* The entries of every level but that of a price stay.
SameElsewhere(B, Q, C, R, sd, price) ==
  \A k \in Sides, m \in Levels :
    k # sd \/ m # ToIndex(price) => Entries(C, R[k][m]) = Entries(B, Q[k][m])

\* When the entries of one level change, one abstract queue changes.
LEMMA OneLevelChanges ==
  ASSUME NEW B, NEW Q, NEW C, NEW R, NEW sd \in Sides, NEW price \in Prices, InWindow(price),
         SameElsewhere(B, Q, C, R, sd, price)
  PROVE  BecomesAt(Read(B, Q), Read(C, R), sd, price, Entries(C, R[sd][ToIndex(price)]))
<1>1. ASSUME NEW k \in Sides, NEW p \in Prices
      PROVE  Read(C, R)[k][p] = IF k = sd /\ p = price THEN Entries(C, R[sd][ToIndex(price)])
                                ELSE Read(B, Q)[k][p]
  <2>1. CASE ~InWindow(p)
    BY <2>1 DEF Read
  <2>2. CASE InWindow(p)
    <3>1. ToIndex(p) \in Levels /\ (ToIndex(p) = ToIndex(price) => p = price)
      BY <2>2, InWindowIsLevel, InputAssumption, WindowAssumption DEF ToIndex
    <3>2. /\ Read(C, R)[k][p] = Entries(C, R[k][ToIndex(p)])
          /\ Read(B, Q)[k][p] = Entries(B, Q[k][ToIndex(p)])
      BY <2>2 DEF Read
    <3> QED
      BY <3>1, <3>2 DEF SameElsewhere
  <2> QED
    BY <2>1, <2>2
<1> DEFINE q == Read(B, Q)
           r == Read(C, R)
           u == Entries(C, R[sd][ToIndex(price)])
<1>2. AreQueues(q) /\ AreQueues(r)
  BY ReadsQueues
<1> HIDE DEF q, r, u
<1> QED
  BY <1>1, <1>2, OneQueueChanges DEF q, r, u

\* Lists and entries depend on the ranks and entries of their slots alone.
LEMMA ListUnchanged ==
  ASSUME NEW B, NEW C, NEW S, NEW w, Lists(B, S, w),
         \A t \in S : C.pool[t].level_seq = B.pool[t].level_seq
  PROVE  Lists(C, S, w)
<1>1. \A i \in 1 .. Len(w) : w[i] \in S
  BY DEF Lists
<1> QED
  BY <1>1 DEF Lists

\* Orders that keep their entries read the same.
LEMMA EntriesUnchanged ==
  ASSUME NEW B, NEW C, NEW S, NEW w \in Seq(S), \A t \in S : EntryOf(C, t) = EntryOf(B, t)
  PROVE  Entries(C, w) = Entries(B, w)
<1>1. \A i \in 1 .. Len(w) : w[i] \in S
  OBVIOUS
<1> QED
  BY <1>1 DEF Entries

\* A slot that ranks behind all of S goes to the end of the list.
LEMMA ListJoined ==
  ASSUME NEW B, NEW C, NEW S, NEW w, Lists(B, S, w), NEW s,
         \A t \in S : /\ C.pool[t].level_seq = B.pool[t].level_seq
                      /\ B.pool[t].level_seq < C.pool[s].level_seq
  PROVE  Lists(C, S \cup {s}, Append(w, s))
<1> DEFINE v == Append(w, s)
<1>1. /\ w \in Seq(S) /\ Len(w) \in Nat /\ \A i \in 1 .. Len(w) : w[i] \in S
      /\ \A t \in S : \E i \in 1 .. Len(w) : w[i] = t
      /\ \A i, j \in 1 .. Len(w) : i < j => B.pool[w[i]].level_seq < B.pool[w[j]].level_seq
  <2>1. w \in Seq(S)
    BY DEF Lists
  <2>2. Len(w) \in Nat /\ \A i \in 1 .. Len(w) : w[i] \in S
    BY <2>1
  <2> QED
    BY <2>1, <2>2, Zenon DEF Lists
<1>2. w \in Seq(S \cup {s})
  BY <1>1, SeqMonotonic
<1>3. /\ v \in Seq(S \cup {s}) /\ Len(v) = Len(w) + 1 /\ v[Len(w) + 1] = s
      /\ \A i \in 1 .. Len(w) : v[i] = w[i]
  BY <1>2, AppendProperties
<1> HIDE DEF v
<1>4. \A t \in S \cup {s} : \E i \in 1 .. Len(v) : v[i] = t
  BY <1>1, <1>3, SMTT(30)
<1>5. ASSUME NEW i \in 1 .. Len(v), NEW j \in 1 .. Len(v), i < j
      PROVE  C.pool[v[i]].level_seq < C.pool[v[j]].level_seq
  <2>1. i \in 1 .. Len(w) /\ v[i] = w[i] /\ w[i] \in S
    BY <1>1, <1>3, <1>5, SMTT(30)
  <2>2. CASE j = Len(w) + 1
    BY <1>3, <2>1, <2>2
  <2>3. CASE j # Len(w) + 1
    <3>1. j \in 1 .. Len(w) /\ v[j] = w[j] /\ w[j] \in S
      BY <1>1, <1>3, <2>3, SMTT(30)
    <3> QED
      BY <1>1, <1>5, <2>1, <3>1
  <2> QED
    BY <2>2, <2>3
<1> QED
  BY <1>3, <1>4, <1>5 DEF Lists, v

\* The orders of S have the same entries in two books.
SameEntries(B, C, S) == \A t \in S : EntryOf(C, t) = EntryOf(B, t)

\* An order at the end of a list is an entry at the end of what it reads.
LEMMA EntriesJoined ==
  ASSUME NEW B, NEW C, NEW S, NEW w, w \in Seq(S), NEW s, SameEntries(B, C, S)
  PROVE  Entries(C, Append(w, s)) = Append(Entries(B, w), EntryOf(C, s))
<1> DEFINE v == Append(w, s)
           E == {EntryOf(B, t) : t \in S} \cup {EntryOf(C, s)}
           e == Entries(B, w)
           f == Entries(C, v)
           g == Append(e, EntryOf(C, s))
<1>1. Len(w) \in Nat /\ \A i \in 1 .. Len(w) : w[i] \in S
  OBVIOUS
<1>2. w \in Seq(S \cup {s})
  BY SeqMonotonic
<1>3. /\ v \in Seq(S \cup {s}) /\ Len(v) = Len(w) + 1 /\ v[Len(w) + 1] = s
      /\ \A i \in 1 .. Len(w) : v[i] = w[i]
  BY <1>2, AppendProperties
<1>4. /\ e \in Seq({EntryOf(B, t) : t \in S}) /\ Len(e) = Len(w)
      /\ \A i \in 1 .. Len(w) : e[i] = EntryOf(B, w[i])
  BY EntriesOfAList
<1>5. e \in Seq(E) /\ EntryOf(C, s) \in E
  BY <1>4, SeqMonotonic
<1> HIDE DEF e, E
<1>6. /\ g \in Seq(E) /\ Len(g) = Len(w) + 1 /\ g[Len(w) + 1] = EntryOf(C, s)
      /\ \A i \in 1 .. Len(w) : g[i] = e[i]
  BY <1>4, <1>5, AppendProperties
<1>7. f = [i \in 1 .. Len(w) + 1 |-> EntryOf(C, v[i])]
  BY <1>3 DEF Entries
<1>8. g = [i \in 1 .. Len(w) + 1 |-> g[i]]
  BY <1>6, LenProperties
<1> HIDE DEF f, g, v
<1>9. \A i \in 1 .. Len(w) + 1 : EntryOf(C, v[i]) = g[i]
  <2> SUFFICES ASSUME NEW i \in 1 .. Len(w) + 1 PROVE EntryOf(C, v[i]) = g[i]
    OBVIOUS
  <2>1. CASE i = Len(w) + 1
    BY <1>3, <1>6, <2>1
  <2>2. CASE i # Len(w) + 1
    <3>1. i \in 1 .. Len(w) /\ w[i] \in S
      BY <1>1, <2>2
    <3> QED
      BY <1>3, <1>4, <1>6, <3>1 DEF SameEntries
  <2> QED
    BY <2>1, <2>2
<1> QED
  BY <1>7, <1>8, <1>9 DEF e, f, g, v

\* What removing the item at i leaves.
LEMMA WithoutTheItem ==
  ASSUME NEW V, NEW u \in Seq(V), NEW i \in 1 .. Len(u)
  PROVE  LET v == Abstract!SX!RemoveAt(u, i)
         IN /\ v \in Seq(V) /\ Len(v) = Len(u) - 1
            /\ \A j \in 1 .. Len(u) - 1 : v[j] = IF j < i THEN u[j] ELSE u[j + 1]
<1> DEFINE a == SubSeq(u, 1, i - 1)
           b == SubSeq(u, i + 1, Len(u))
<1>1. Len(u) \in Nat /\ \A j \in 1 .. Len(u) : u[j] \in V
  OBVIOUS
<1>2. a \in Seq(V) /\ Len(a) = i - 1 /\ \A j \in 1 .. i - 1 : a[j] = u[j]
  BY <1>1
<1>3. /\ b \in Seq(V) /\ Len(b) = Len(u) - i
      /\ \A j \in 1 .. Len(u) - i : b[j] = u[i + j]
  BY <1>1
<1> HIDE DEF a, b
<1>4. /\ a \o b \in Seq(V) /\ Len(a \o b) = Len(u) - 1
      /\ \A j \in 1 .. Len(u) - 1 : (a \o b)[j] = IF j <= i - 1 THEN a[j] ELSE b[j - (i - 1)]
  <2>1. /\ a \o b \in Seq(V) /\ Len(a \o b) = Len(a) + Len(b)
        /\ \A j \in 1 .. Len(a) + Len(b) :
             (a \o b)[j] = IF j <= Len(a) THEN a[j] ELSE b[j - Len(a)]
    BY <1>2, <1>3, ConcatProperties, Zenon
  <2>2. Len(a) + Len(b) = Len(u) - 1
    BY <1>1, <1>2, <1>3
  <2> QED
    BY <1>2, <2>1, <2>2
<1>5. ASSUME NEW j \in 1 .. Len(u) - 1
      PROVE  (a \o b)[j] = IF j < i THEN u[j] ELSE u[j + 1]
  <2>1. CASE j < i
    <3>1. j \in 1 .. i - 1 /\ j <= i - 1
      BY <1>1, <2>1
    <3> QED
      BY <1>2, <1>4, <2>1, <3>1
  <2>2. CASE ~(j < i)
    <3>1. j - (i - 1) \in 1 .. Len(u) - i /\ ~(j <= i - 1) /\ i + (j - (i - 1)) = j + 1
      BY <1>1, <2>2
    <3> QED
      BY <1>3, <1>4, <2>2, <3>1
  <2> QED
    BY <2>1, <2>2
<1> QED
  BY <1>4, <1>5 DEF Abstract!SX!RemoveAt, a, b

\* A list without one of its slots lists the others.
LEMMA ListLeft ==
  ASSUME NEW B \in Book, NEW C, NEW S \in SUBSET Slots, NEW w, Lists(B, S, w),
         NEW i \in 1 .. Len(w),
         \A t \in S \ {w[i]} : C.pool[t].level_seq = B.pool[t].level_seq
  PROVE  Lists(C, S \ {w[i]}, Abstract!SX!RemoveAt(w, i))
<1> DEFINE v == Abstract!SX!RemoveAt(w, i)
           s == w[i]
<1>1. /\ w \in Seq(S) /\ Len(w) \in Nat /\ \A j \in 1 .. Len(w) : w[j] \in S
      /\ \A j, k \in 1 .. Len(w) : w[j] = w[k] => j = k
  <2>1. w \in Seq(S)
    BY DEF Lists
  <2> QED
    BY <2>1, ListedOnce
<1>2. /\ \A t \in S : \E j \in 1 .. Len(w) : w[j] = t
      /\ \A j, k \in 1 .. Len(w) : j < k => B.pool[w[j]].level_seq < B.pool[w[k]].level_seq
  BY DEF Lists
<1>3. /\ v \in Seq(S) /\ Len(v) = Len(w) - 1
      /\ \A j \in 1 .. Len(w) - 1 : v[j] = IF j < i THEN w[j] ELSE w[j + 1]
  BY <1>1, WithoutTheItem
<1> DEFINE at(j) == IF j < i THEN j ELSE j + 1
<1>4. \A j \in 1 .. Len(v) : at(j) \in 1 .. Len(w) /\ at(j) # i /\ v[j] = w[at(j)]
  BY <1>1, <1>3
<1>5. \A j, k \in 1 .. Len(v) : j < k => at(j) < at(k)
  BY <1>1, <1>3
<1>6. \A k \in 1 .. Len(w) : k # i => \E j \in 1 .. Len(v) : at(j) = k
  <2> SUFFICES ASSUME NEW k \in 1 .. Len(w), k # i PROVE \E j \in 1 .. Len(v) : at(j) = k
    OBVIOUS
  <2>1. CASE k < i
    <3>1. k \in 1 .. Len(v) /\ at(k) = k
      BY <1>1, <1>3, <2>1
    <3> QED
      BY <3>1
  <2>2. CASE ~(k < i)
    <3>1. k - 1 \in 1 .. Len(v) /\ at(k - 1) = k
      BY <1>1, <1>3, <2>2
    <3> QED
      BY <3>1
  <2> QED
    BY <2>1, <2>2
<1> HIDE DEF v, at
<1>7. \A j \in 1 .. Len(v) : v[j] \in S \ {s}
  BY <1>1, <1>4
<1>8. v \in Seq(S \ {s})
  BY <1>3, <1>7, SeqDef
<1>9. \A t \in S \ {s} : \E j \in 1 .. Len(v) : v[j] = t
  <2> SUFFICES ASSUME NEW t \in S \ {s} PROVE \E j \in 1 .. Len(v) : v[j] = t
    OBVIOUS
  <2>1. PICK k \in 1 .. Len(w) : w[k] = t
    BY <1>2
  <2>2. k # i
    BY <2>1
  <2> QED
    BY <1>4, <1>6, <2>1, <2>2
<1>10. ASSUME NEW j \in 1 .. Len(v), NEW k \in 1 .. Len(v), j < k
       PROVE  C.pool[v[j]].level_seq < C.pool[v[k]].level_seq
  <2>1. B.pool[w[at(j)]].level_seq < B.pool[w[at(k)]].level_seq
    BY <1>2, <1>4, <1>5, <1>10
  <2> QED
    BY <1>4, <1>7, <2>1
<1> QED
  BY <1>8, <1>9, <1>10 DEF Lists, v

\* Its entries are the other entries.
LEMMA EntriesLeft ==
  ASSUME NEW B, NEW C, NEW S, NEW w \in Seq(S), NEW i \in 1 .. Len(w),
         \A j \in 1 .. Len(w) : j # i => EntryOf(C, w[j]) = EntryOf(B, w[j])
  PROVE  Entries(C, Abstract!SX!RemoveAt(w, i)) = Abstract!SX!RemoveAt(Entries(B, w), i)
<1> DEFINE v == Abstract!SX!RemoveAt(w, i)
           e == Entries(B, w)
           E == {EntryOf(B, t) : t \in S}
           f == Entries(C, v)
           g == Abstract!SX!RemoveAt(e, i)
<1>1. Len(w) \in Nat
  OBVIOUS
<1>2. /\ e \in Seq(E) /\ Len(e) = Len(w)
      /\ \A j \in 1 .. Len(w) : e[j] = EntryOf(B, w[j])
  BY EntriesOfAList
<1>3. /\ Len(v) = Len(w) - 1
      /\ \A j \in 1 .. Len(w) - 1 : v[j] = IF j < i THEN w[j] ELSE w[j + 1]
  BY WithoutTheItem
<1> HIDE DEF e, E
<1>4. /\ g \in Seq(E) /\ Len(g) = Len(w) - 1
      /\ \A j \in 1 .. Len(w) - 1 : g[j] = IF j < i THEN e[j] ELSE e[j + 1]
  <2>1. i \in 1 .. Len(e)
    BY <1>2
  <2>2. /\ g \in Seq(E) /\ Len(g) = Len(e) - 1
        /\ \A j \in 1 .. Len(e) - 1 : g[j] = IF j < i THEN e[j] ELSE e[j + 1]
    BY <1>2, <2>1, WithoutTheItem
  <2> QED
    BY <1>2, <2>2
<1>5. f = [j \in 1 .. Len(w) - 1 |-> EntryOf(C, v[j])]
  BY <1>3 DEF Entries
<1>6. g = [j \in 1 .. Len(w) - 1 |-> g[j]]
  BY <1>4, LenProperties
<1> HIDE DEF f, g, v
<1>7. \A j \in 1 .. Len(w) - 1 : EntryOf(C, v[j]) = g[j]
  <2> SUFFICES ASSUME NEW j \in 1 .. Len(w) - 1 PROVE EntryOf(C, v[j]) = g[j]
    OBVIOUS
  <2>1. CASE j < i
    <3>1. j \in 1 .. Len(w) /\ j # i /\ v[j] = w[j] /\ g[j] = e[j]
      BY <1>1, <1>3, <1>4, <2>1
    <3> QED
      BY <1>2, <3>1
  <2>2. CASE ~(j < i)
    <3>1. j + 1 \in 1 .. Len(w) /\ j + 1 # i /\ v[j] = w[j + 1] /\ g[j] = e[j + 1]
      BY <1>1, <1>3, <1>4, <2>2
    <3> QED
      BY <1>2, <3>1
  <2> QED
    BY <2>1, <2>2
<1> QED
  BY <1>5, <1>6, <1>7 DEF e, f, g, v

\* One item of the list e becomes x.
PutAt(e, f, i, x) == f = [e EXCEPT ![i] = x]

\* When the entry of one slot changes, one entry of its list does.
LEMMA EntriesChanged ==
  ASSUME NEW B, NEW C, NEW S, NEW w \in Seq(S), NEW i \in 1 .. Len(w), NEW x,
         \A j \in 1 .. Len(w) : j # i => EntryOf(C, w[j]) = EntryOf(B, w[j]),
         EntryOf(C, w[i]) = x
  PROVE  PutAt(Entries(B, w), Entries(C, w), i, x)
<1> DEFINE e == Entries(B, w)
<1>1. /\ e = [j \in 1 .. Len(w) |-> e[j]]
      /\ \A j \in 1 .. Len(w) : e[j] = EntryOf(B, w[j])
  BY DEF Entries
<1> HIDE DEF e
<1>2. [e EXCEPT ![i] = x] = [j \in 1 .. Len(w) |-> IF j = i THEN x ELSE e[j]]
  BY <1>1
<1>3. \A j \in 1 .. Len(w) : EntryOf(C, w[j]) = IF j = i THEN x ELSE e[j]
  BY <1>1
<1>4. Entries(C, w) = [j \in 1 .. Len(w) |-> EntryOf(C, w[j])]
  BY DEF Entries
<1> QED
  BY <1>2, <1>3, <1>4 DEF e, PutAt

\* Changing the queue of one level.
LEMMA OneQueueOf ==
  ASSUME NEW Q \in [Sides -> [Levels -> Seq(Slots)]], NEW sd \in Sides, NEW l \in Levels,
         NEW v \in Seq(Slots)
  PROVE  LET R == [Q EXCEPT ![sd][l] = v]
         IN /\ R \in [Sides -> [Levels -> Seq(Slots)]]
            /\ R[sd][l] = v
            /\ \A k \in Sides, m \in Levels : k # sd \/ m # l => R[k][m] = Q[k][m]
OBVIOUS

\* An order that joins its level joins the back of its queue.
LEMMA JoinReads ==
  ASSUME NEW B \in Book, NEW C \in Book, NEW Q, Reads(B, Q), NEW s, NEW id \in Ids,
         NEW sd \in Sides, NEW price \in Prices, InWindow(price), NEW qty \in Int,
         NEW mine \in BOOLEAN, Joins(B, C, s, id, sd, ToIndex(price), qty, mine)
  PROVE  \E R : /\ FifoIs(C, R) /\ PricesIn(C)
               /\ Read(C, R) = Abstract!JoinQueue(Read(B, Q), id, sd, price, qty, mine)
<1> DEFINE l == ToIndex(price)
           w == Q[sd][l]
           v == Append(w, s)
           S == LiveAt(B, sd, l)
           R == [Q EXCEPT ![sd][l] = v]
           new == [id |-> id, qty |-> qty, mine |-> mine]
<1>1. l \in Levels /\ WindowBase + l = price
  <2>1. l \in Levels
    BY InWindowIsLevel, InputAssumption
  <2> QED
    BY <2>1, InputAssumption, WindowAssumption DEF ToIndex
<1>2. /\ Q \in [Sides -> [Levels -> Seq(Slots)]]
      /\ \A k \in Sides, m \in Levels : Lists(B, LiveAt(B, k, m), Q[k][m])
  BY DEF Reads, FifoIs
<1>3. /\ s \in Slots /\ ~Live(B, s)
      /\ \A t \in Slots : t # s => /\ C.pool[t].level_seq = B.pool[t].level_seq
                                 /\ EntryOf(C, t) = EntryOf(B, t)
      /\ C.pool[s].level_seq = B.levels[sd][l].next_seq
      /\ EntryOf(C, s) = new
  BY DEF Joins, EntryOf
<1>4. \A k \in Sides, m \in Levels :
        /\ LiveAt(C, k, m) = IF k = sd /\ m = l THEN LiveAt(B, k, m) \cup {s}
                             ELSE LiveAt(B, k, m)
        /\ \A t \in LiveAt(B, k, m) : t \in Slots /\ t # s
  <2>1. \A k \in Sides, m \in Levels : \A t \in LiveAt(B, k, m) : t \in Slots /\ t # s
    BY <1>3 DEF LiveAt
  <2> QED
    BY <2>1, JoinedLevel
<1>5. \A t \in S : /\ C.pool[t].level_seq = B.pool[t].level_seq
                  /\ B.pool[t].level_seq < C.pool[s].level_seq
  <2>1. \A t \in S : B.pool[t].level_seq < B.levels[sd][l].next_seq
    BY <1>1 DEF Reads, QueuesAreRankedIn, QueueIsRanked
  <2> QED
    BY <1>1, <1>3, <1>4, <2>1
<1>6. w \in Seq(Slots) /\ v \in Seq(Slots)
  <2>1. w \in Seq(Slots)
    BY <1>1, <1>2
  <2> QED
    BY <1>3, <2>1, AppendProperties
<1> HIDE DEF l, v, new
<1>7. /\ R \in [Sides -> [Levels -> Seq(Slots)]] /\ R[sd][l] = v
      /\ \A k \in Sides, m \in Levels : k # sd \/ m # l => R[k][m] = Q[k][m]
  BY <1>1, <1>2, <1>6, OneQueueOf
<1> HIDE DEF R
<1>8. FifoIs(C, R)
  <2> SUFFICES ASSUME NEW k \in Sides, NEW m \in Levels
               PROVE  Lists(C, LiveAt(C, k, m), R[k][m])
    BY <1>7 DEF FifoIs
  <2>1. CASE k = sd /\ m = l
    <3>1. Lists(B, S, w)
      BY <1>1, <1>2
    <3> HIDE DEF S, w
    <3>2. Lists(C, S \cup {s}, v)
      BY <1>5, <3>1, ListJoined DEF v
    <3> QED
      BY <1>1, <1>4, <1>7, <2>1, <3>2 DEF S
  <2>2. CASE k # sd \/ m # l
    <3>1. Lists(B, LiveAt(B, k, m), Q[k][m])
      BY <1>2
    <3>2. \A t \in LiveAt(B, k, m) : C.pool[t].level_seq = B.pool[t].level_seq
      BY <1>3, <1>4
    <3>3. Lists(C, LiveAt(B, k, m), Q[k][m])
      BY <3>1, <3>2, ListUnchanged
    <3>4. LiveAt(C, k, m) = LiveAt(B, k, m) /\ R[k][m] = Q[k][m]
      BY <1>4, <1>7, <2>2
    <3> QED
      BY <3>3, <3>4
  <2> QED
    BY <2>1, <2>2
<1>9. PricesIn(C)
  <2>1. \A t \in Resting(B) : PriceOf(B, t) \in Prices
    BY DEF Reads, PricesIn
  <2>2. \A t \in Resting(C) :
          (t = s /\ PriceOf(C, t) = price) \/ (t \in Resting(B) /\ PriceOf(C, t) = PriceOf(B, t))
    BY <1>1 DEF Joins, Resting, PriceOf, l
  <2> QED
    BY <2>1, <2>2 DEF PricesIn
<1>10. \A k \in Sides, m \in Levels :
         k # sd \/ m # l => Entries(C, R[k][m]) = Entries(B, Q[k][m])
  <2> SUFFICES ASSUME NEW k \in Sides, NEW m \in Levels, k # sd \/ m # l
               PROVE  Entries(C, Q[k][m]) = Entries(B, Q[k][m])
    BY <1>7
  <2>1. Q[k][m] \in Seq(LiveAt(B, k, m))
    BY <1>2 DEF Lists
  <2>2. \A t \in LiveAt(B, k, m) : EntryOf(C, t) = EntryOf(B, t)
    BY <1>3, <1>4
  <2> QED
    BY <2>1, <2>2, EntriesUnchanged
<1>11. Entries(C, R[sd][l]) = Append(Entries(B, w), new)
  <2>1. w \in Seq(S)
    BY <1>1, <1>2 DEF Lists
  <2>2. SameEntries(B, C, S)
    BY <1>1, <1>3, <1>4 DEF SameEntries
  <2> HIDE DEF w, S
  <2>3. Entries(C, Append(w, s)) = Append(Entries(B, w), EntryOf(C, s))
    BY ONLY <2>1, <2>2, EntriesJoined
  <2>4. Entries(C, v) = Append(Entries(B, w), EntryOf(C, s))
    BY <2>3, Zenon DEF v
  <2> QED
    BY <1>3, <1>7, <2>4
<1>12. Read(B, Q)[sd][price] = Entries(B, w)
  BY DEF Read, l
<1>13. BecomesAt(Read(B, Q), Read(C, R), sd, price, Entries(C, R[sd][l]))
  <2>1. SameElsewhere(B, Q, C, R, sd, price)
    BY <1>10 DEF SameElsewhere, l
  <2> QED
    BY <2>1, OneLevelChanges DEF l
<1>14. Read(C, R) = Abstract!JoinQueue(Read(B, Q), id, sd, price, qty, mine)
  <2> DEFINE q == Read(B, Q)
             r == Read(C, R)
  <2>1. BecomesAt(q, r, sd, price, Append(q[sd][price], new))
    BY <1>11, <1>12, <1>13
  <2> HIDE DEF q, r
  <2>2. r = Abstract!JoinQueue(q, id, sd, price, qty, mine)
    BY <2>1, Zenon DEF BecomesAt, Abstract!JoinQueue, new
  <2> QED
    BY <2>2 DEF q, r
<1> QED
  BY <1>8, <1>9, <1>14

\* What the abstract operators name when they change the queue of an order.
LEMMA QueueOfTheOrder ==
  ASSUME NEW B \in Book, NEW Q, Reads(B, Q), NEW id \in Ids, B.map[id] # NullOrder,
         NEW r, NEW u, BecomesAt(Read(B, Q), r, B.pool[B.map[id]].side, PriceOf(B, B.map[id]), u)
  PROVE  r = Abstract!WithQueue(Read(B, Q), id, u)
<1> DEFINE q == Read(B, Q)
           sd == B.pool[B.map[id]].side
           p == PriceOf(B, B.map[id])
<1>1. Abstract!Where(q, id) = <<sd, p>>
  BY FindsTheOrder
<1>2. BecomesAt(q, r, sd, p, u)
  OBVIOUS
<1> HIDE DEF q, sd, p
<1>3. Abstract!Where(q, id)[1] = sd /\ Abstract!Where(q, id)[2] = p
  BY <1>1
<1>4. r = Abstract!WithQueue(q, id, u)
  BY <1>2, <1>3, Zenon DEF BecomesAt, Abstract!WithQueue
<1> QED
  BY <1>4 DEF q

\* An order that leaves its level leaves its place in the queue.
LEMMA LeaveReads ==
  ASSUME NEW B \in Book, NEW C \in Book, NEW Q, Reads(B, Q), NEW id \in Ids,
         B.map[id] # NullOrder, Leaves(B, C, B.map[id])
  PROVE  LET q == Read(B, Q)
         IN \E R : /\ FifoIs(C, R) /\ PricesIn(C)
                  /\ Read(C, R) = Abstract!WithQueue(q, id,
                       Abstract!SX!RemoveAt(Abstract!Queue(q, id), Abstract!Place(q, id)))
<1> DEFINE s == B.map[id]
           q == Read(B, Q)
           sd == B.pool[s].side
           l == B.pool[s].level
           p == PriceOf(B, s)
           w == QueueFor(B, Q, s)
           i == PlaceIn(w, s)
           v == Abstract!SX!RemoveAt(w, i)
           S == LiveAt(B, sd, l)
           R == [Q EXCEPT ![sd][l] = v]
<1>1. /\ s \in Resting(B) /\ sd \in Sides /\ l \in Levels
      /\ p \in Prices /\ InWindow(p) /\ ToIndex(p) = l
  BY NamedIsResting
<1>2. /\ Q \in [Sides -> [Levels -> Seq(Slots)]] /\ w = Q[sd][l]
      /\ \A k \in Sides, m \in Levels : Lists(B, LiveAt(B, k, m), Q[k][m])
  BY DEF Reads, FifoIs, QueueFor
<1>3. /\ S \in SUBSET Slots /\ Lists(B, S, w) /\ w \in Seq(S) /\ Len(w) \in Nat
      /\ i \in 1 .. Len(w) /\ w[i] = s /\ \A j \in 1 .. Len(w) : w[j] = s => j = i
  BY <1>1, HasAPlace DEF Reads
<1>4. \A t \in Slots : t # s => /\ C.pool[t].level_seq = B.pool[t].level_seq
                            /\ EntryOf(C, t) = EntryOf(B, t)
  BY DEF Leaves, EntryOf
<1>5. \A k \in Sides, m \in Levels :
        /\ LiveAt(C, k, m) = LiveAt(B, k, m) \ {s}
        /\ LiveAt(B, k, m) \in SUBSET Slots
        /\ k # sd \/ m # l => s \notin LiveAt(B, k, m)
  <2>1. \A k \in Sides, m \in Levels :
          LiveAt(B, k, m) \in SUBSET Slots /\ (k # sd \/ m # l => s \notin LiveAt(B, k, m))
    BY DEF LiveAt
  <2> QED
    BY <2>1, LeftLevel
<1>6. w \in Seq(Slots) /\ v \in Seq(Slots)
  <2>1. w \in Seq(Slots)
    BY <1>1, <1>2, ZenonT(40)
  <2> QED
    BY <1>3, <2>1, WithoutTheItem
<1>7. /\ Abstract!Queue(q, id) = Entries(B, w) /\ Abstract!Place(q, id) = i
      /\ Leaves(B, C, s) /\ p = PriceOf(B, s)
  BY FindsTheOrder
<1> HIDE DEF w, i, v, S, s, sd, l, p
<1>8. /\ R \in [Sides -> [Levels -> Seq(Slots)]] /\ R[sd][l] = v
      /\ \A k \in Sides, m \in Levels : k # sd \/ m # l => R[k][m] = Q[k][m]
  BY <1>1, <1>2, <1>6, OneQueueOf
<1> HIDE DEF R
<1>9. FifoIs(C, R)
  <2> SUFFICES ASSUME NEW k \in Sides, NEW m \in Levels
               PROVE  Lists(C, LiveAt(C, k, m), R[k][m])
    BY <1>8 DEF FifoIs
  <2>1. CASE k = sd /\ m = l
    <3>1. \A t \in S \ {w[i]} : C.pool[t].level_seq = B.pool[t].level_seq
      BY <1>3, <1>4
    <3>2. Lists(C, S \ {w[i]}, v)
      BY <1>3, <3>1, ListLeft DEF v
    <3>3. LiveAt(C, k, m) = S \ {s} /\ R[k][m] = v
      BY <1>5, <1>8, <2>1 DEF S
    <3> QED
      BY <1>3, <3>2, <3>3
  <2>2. CASE k # sd \/ m # l
    <3>1. Lists(B, LiveAt(B, k, m), Q[k][m])
      BY <1>2
    <3>2. \A t \in LiveAt(B, k, m) : C.pool[t].level_seq = B.pool[t].level_seq
      BY <1>4, <1>5, <2>2
    <3>3. Lists(C, LiveAt(B, k, m), Q[k][m])
      BY <3>1, <3>2, ListUnchanged
    <3>4. LiveAt(C, k, m) = LiveAt(B, k, m)
      BY <1>5, <2>2
    <3>5. R[k][m] = Q[k][m]
      BY <1>8, <2>2
    <3> QED
      BY <3>3, <3>4, <3>5
  <2> QED
    BY <2>1, <2>2
<1>10. PricesIn(C)
  <2>1. \A t \in Resting(B) : PriceOf(B, t) \in Prices
    BY DEF Reads, PricesIn
  <2>2. \A t \in Resting(C) : t \in Resting(B) /\ PriceOf(C, t) = PriceOf(B, t)
    BY <1>7, ZenonT(40) DEF Leaves, Resting, PriceOf
  <2> QED
    BY <2>1, <2>2 DEF PricesIn
<1>11. SameElsewhere(B, Q, C, R, sd, p)
  <2> SUFFICES ASSUME NEW k \in Sides, NEW m \in Levels, k # sd \/ m # l
               PROVE  Entries(C, Q[k][m]) = Entries(B, Q[k][m])
    BY <1>1, <1>8 DEF SameElsewhere
  <2>1. Q[k][m] \in Seq(LiveAt(B, k, m))
    BY <1>2 DEF Lists
  <2>2. \A t \in LiveAt(B, k, m) : EntryOf(C, t) = EntryOf(B, t)
    BY <1>4, <1>5
  <2> QED
    BY <2>1, <2>2, EntriesUnchanged
<1>12. Entries(C, v) = Abstract!SX!RemoveAt(Entries(B, w), i)
  <2>1. \A j \in 1 .. Len(w) : j # i => EntryOf(C, w[j]) = EntryOf(B, w[j])
    BY <1>3, <1>4
  <2> QED
    BY <1>3, <2>1, EntriesLeft DEF v
<1> DEFINE u == Abstract!SX!RemoveAt(Abstract!Queue(q, id), Abstract!Place(q, id))
<1>13. Entries(C, R[sd][ToIndex(p)]) = u
  BY <1>1, <1>7, <1>8, <1>12
<1>14. BecomesAt(q, Read(C, R), sd, p, Entries(C, R[sd][ToIndex(p)]))
  BY <1>1, <1>11, OneLevelChanges
<1>15. BecomesAt(q, Read(C, R), sd, p, u)
  BY <1>13, <1>14
<1> HIDE DEF u
<1>16. Read(C, R) = Abstract!WithQueue(q, id, u)
  BY <1>15, QueueOfTheOrder DEF p, sd, s
<1> QED
  BY <1>9, <1>10, <1>16 DEF u

\* An order that shrinks keeps its place in the queue.
LEMMA ShrinkReads ==
  ASSUME NEW B \in Book, NEW C \in Book, NEW Q, Reads(B, Q), NEW id \in Ids,
         B.map[id] # NullOrder, NEW by \in Int, Shrinks(B, C, B.map[id], by)
  PROVE  LET q == Read(B, Q)
         IN /\ FifoIs(C, Q) /\ PricesIn(C)
            /\ Read(C, Q) = Abstract!WithQueue(q, id,
                              [Abstract!Queue(q, id) EXCEPT ![Abstract!Place(q, id)].qty = @ - by])
<1> DEFINE s == B.map[id]
           q == Read(B, Q)
           sd == B.pool[s].side
           l == B.pool[s].level
           p == PriceOf(B, s)
           w == QueueFor(B, Q, s)
           i == PlaceIn(w, s)
           S == LiveAt(B, sd, l)
<1>1. /\ s \in Resting(B) /\ sd \in Sides /\ l \in Levels
      /\ p \in Prices /\ InWindow(p) /\ ToIndex(p) = l
  BY NamedIsResting
<1>2. /\ Q \in [Sides -> [Levels -> Seq(Slots)]] /\ w = Q[sd][l]
      /\ \A k \in Sides, m \in Levels : Lists(B, LiveAt(B, k, m), Q[k][m])
  BY DEF Reads, FifoIs, QueueFor
<1>3. /\ S \in SUBSET Slots /\ Lists(B, S, w) /\ w \in Seq(S) /\ Len(w) \in Nat
      /\ i \in 1 .. Len(w) /\ w[i] = s /\ \A j \in 1 .. Len(w) : w[j] = s => j = i
  BY <1>1, HasAPlace DEF Reads
<1>4. /\ \A t \in Slots : C.pool[t].level_seq = B.pool[t].level_seq
      /\ \A t \in Slots : t # s => EntryOf(C, t) = EntryOf(B, t)
      /\ EntryOf(C, s) = [EntryOf(B, s) EXCEPT !.qty = @ - by]
  <2> HIDE DEF s
  <2>1. s \in Slots /\ Shrinks(B, C, s, by)
    BY <1>1 DEF Resting, s
  <2>2. \A t \in Slots :
          /\ C.pool[t].id = B.pool[t].id /\ C.pool[t].mine = B.pool[t].mine
          /\ C.pool[t].level_seq = B.pool[t].level_seq
          /\ C.pool[t].qty = IF t = s THEN B.pool[t].qty - by ELSE B.pool[t].qty
    BY <2>1 DEF Shrinks
  <2>3. EntryOf(C, s) = [id |-> B.pool[s].id, qty |-> B.pool[s].qty - by, mine |-> B.pool[s].mine]
    BY <2>1, <2>2, Zenon DEF EntryOf
  <2> QED
    BY <2>2, <2>3 DEF EntryOf
<1>5. \A k \in Sides, m \in Levels :
        /\ LiveAt(C, k, m) = LiveAt(B, k, m)
        /\ LiveAt(B, k, m) \in SUBSET Slots
        /\ k # sd \/ m # l => s \notin LiveAt(B, k, m)
  <2>1. \A t \in Slots : /\ Live(C, t) <=> Live(B, t)
                        /\ C.pool[t].side = B.pool[t].side /\ C.pool[t].level = B.pool[t].level
    BY DEF Shrinks
  <2> QED
    BY <2>1 DEF LiveAt
<1>6. /\ Abstract!Queue(q, id) = Entries(B, w) /\ Abstract!Place(q, id) = i
      /\ Shrinks(B, C, s, by) /\ p = PriceOf(B, s)
  BY FindsTheOrder
<1> HIDE DEF w, i, S, s, sd, l, p
<1>7. FifoIs(C, Q)
  <2> SUFFICES ASSUME NEW k \in Sides, NEW m \in Levels
               PROVE  Lists(C, LiveAt(C, k, m), Q[k][m])
    BY <1>2 DEF FifoIs
  <2>1. Lists(B, LiveAt(B, k, m), Q[k][m])
    BY <1>2
  <2>2. \A t \in LiveAt(B, k, m) : C.pool[t].level_seq = B.pool[t].level_seq
    BY <1>4, <1>5
  <2>3. Lists(C, LiveAt(B, k, m), Q[k][m])
    BY <2>1, <2>2, ListUnchanged
  <2> QED
    BY <1>5, <2>3
<1>8. PricesIn(C)
  <2>1. \A t \in Resting(B) : PriceOf(B, t) \in Prices
    BY DEF Reads, PricesIn
  <2>2. \A t \in Resting(C) : t \in Resting(B) /\ PriceOf(C, t) = PriceOf(B, t)
    BY <1>6 DEF Shrinks, Resting, PriceOf
  <2> QED
    BY <2>1, <2>2 DEF PricesIn
<1>9. SameElsewhere(B, Q, C, Q, sd, p)
  <2> SUFFICES ASSUME NEW k \in Sides, NEW m \in Levels, k # sd \/ m # l
               PROVE  Entries(C, Q[k][m]) = Entries(B, Q[k][m])
    BY <1>1 DEF SameElsewhere
  <2>1. Q[k][m] \in Seq(LiveAt(B, k, m))
    BY <1>2 DEF Lists
  <2>2. \A t \in LiveAt(B, k, m) : EntryOf(C, t) = EntryOf(B, t)
    BY <1>4, <1>5
  <2> QED
    BY <2>1, <2>2, EntriesUnchanged
<1>10. Entries(C, w) = [Entries(B, w) EXCEPT ![i].qty = @ - by]
  <2> DEFINE e == Entries(B, w)
             f == Entries(C, w)
             x == [e[i] EXCEPT !.qty = @ - by]
  <2>1. \A j \in 1 .. Len(w) : j # i => EntryOf(C, w[j]) = EntryOf(B, w[j])
    BY <1>3, <1>4
  <2>2. e[i] = EntryOf(B, s)
    BY <1>3, EntriesOfAList
  <2>3. EntryOf(C, w[i]) = x
    BY <1>3, <1>4, <2>2
  <2> HIDE DEF x
  <2>4. PutAt(e, f, i, x)
    BY <1>3, <2>1, <2>3, EntriesChanged
  <2> HIDE DEF e, f
  <2>5. f = [e EXCEPT ![i].qty = @ - by]
    BY <2>4, Zenon DEF PutAt, x
  <2> QED
    BY <2>5 DEF e, f
<1> DEFINE u == [Abstract!Queue(q, id) EXCEPT ![Abstract!Place(q, id)].qty = @ - by]
<1>11. Entries(C, Q[sd][ToIndex(p)]) = u
  BY <1>1, <1>2, <1>6, <1>10
<1>12. BecomesAt(q, Read(C, Q), sd, p, Entries(C, Q[sd][ToIndex(p)]))
  BY <1>1, <1>9, OneLevelChanges
<1>13. BecomesAt(q, Read(C, Q), sd, p, u)
  BY <1>11, <1>12
<1> HIDE DEF u
<1>14. Read(C, Q) = Abstract!WithQueue(q, id, u)
  BY <1>13, QueueOfTheOrder DEF p, sd, s
<1> QED
  BY <1>7, <1>8, <1>14 DEF u

-----------------------------------------------------------------------------
(***************************************************************************)
(* Every operation does to the queues what the abstract operation does,    *)
(* and returns what it returns.                                            *)
(***************************************************************************)
Readable(B) == IsSound(B) /\ PricesIn(B) /\ \E Q : FifoIs(B, Q)

Implements(r, x) ==
  Readable(r.book) /\ AbstractQueues(r.book) = x.book /\ r.err = x.err

\* A readable book is read by some Q.
LEMMA ReadableIsRead ==
  ASSUME NEW B \in Book, Readable(B)
  PROVE  \E Q : Reads(B, Q) /\ AbstractQueues(B) = Read(B, Q)
<1>1. PICK a : Sound(B, a)
  BY DEF Readable, IsSound
<1>2. PICK Q : FifoIs(B, Q)
  BY DEF Readable
<1>3. Reads(B, Q)
  BY <1>1, <1>2 DEF Sound, Reads, Readable
<1>4. AbstractQueues(B) = Read(B, Q)
  BY <1>3, QueuesAreRead DEF Reads
<1> QED
  BY <1>3, <1>4

\* What an operation leaves is readable when some R lists its queues.
LEMMA ReadAfter ==
  ASSUME NEW C \in Book, IsSound(C), PricesIn(C), NEW R, FifoIs(C, R), NEW e, NEW q,
         Read(C, R) = q
  PROVE  Implements(Result(C, e), Abstract!Result(q, e))
<1>1. Readable(C)
  BY DEF Readable
<1>2. PICK a : Sound(C, a)
  BY DEF IsSound
<1>3. AbstractQueues(C) = q
  BY <1>2, QueuesAreRead DEF Sound
<1> QED
  BY <1>1, <1>3 DEF Implements, Result, Abstract!Result

\* A refused operation leaves the book, and the queues, as they were.
LEMMA RefusedAlike ==
  ASSUME NEW B, Readable(B), NEW e
  PROVE  Implements(Result(B, e), Abstract!Result(AbstractQueues(B), e))
BY DEF Implements, Result, Abstract!Result

\* What the checks of add see is what the abstract checks see.
LEMMA SameChecks ==
  ASSUME NEW B \in Book, Readable(B)
  PROVE  LET q == AbstractQueues(B)
         IN /\ Abstract!Full(q) <=> B.free = <<>>
            /\ \A id \in Ids : Abstract!Known(q, id) <=> B.map[id] # NullOrder
            /\ \A sd \in Sides, price \in Prices :
                 Abstract!Crosses(q, sd, price) <=> Crosses(B, sd, price)
<1>1. PICK Q : Reads(B, Q) /\ AbstractQueues(B) = Read(B, Q)
  BY ReadableIsRead
<1>2. PICK a : Sound(B, a)
  BY DEF Readable, IsSound
<1>3. TouchIsExactIn(B)
  BY <1>2 DEF Sound
<1>4. Abstract!Full(Read(B, Q)) <=> B.free = <<>>
  BY <1>1, FullWhenNoSlotIsFree
<1>5. \A id \in Ids : Abstract!Known(Read(B, Q), id) <=> B.map[id] # NullOrder
  BY <1>1, KnowsTheSameIds
<1>6. \A sd \in Sides, price \in Prices :
        Abstract!Crosses(Read(B, Q), sd, price) <=> Crosses(B, sd, price)
  BY <1>1, <1>3, SameCrossing
<1> QED
  BY <1>1, <1>4, <1>5, <1>6

\* add: accepted or refused alike, and what is accepted joins the same queue.
LEMMA AddImplements ==
  ASSUME NEW B \in Book, Readable(B), NEW id \in Ids, NEW sd \in Sides,
         NEW price \in Prices, NEW qty \in Int, NEW mine \in BOOLEAN
  PROVE  Implements(Add(B, id, sd, price, qty, mine),
                    Abstract!Add(AbstractQueues(B), id, sd, price, qty, mine))
<1> DEFINE q == AbstractQueues(B)
           window == {p \in Prices : InWindow(p)}
           C == Enqueue(B, id, sd, ToIndex(price), qty, mine)
           t == Abstract!JoinQueue(q, id, sd, price, qty, mine)
<1>1. /\ Abstract!Full(q) <=> B.free = <<>>
      /\ Abstract!Known(q, id) <=> B.map[id] # NullOrder
      /\ Abstract!Crosses(q, sd, price) <=> Crosses(B, sd, price)
      /\ price \in window <=> InWindow(price)
  BY SameChecks
<1>2. Abstract!Add(q, id, sd, price, qty, mine) =
        IF qty <= 0 THEN Abstract!Result(q, "BadQuantity")
        ELSE IF price \notin window THEN Abstract!Result(q, "PriceOutOfWindow")
        ELSE IF Abstract!Full(q) THEN Abstract!Result(q, "PoolExhausted")
        ELSE IF Abstract!Crosses(q, sd, price) THEN Abstract!Result(q, "CrossedBook")
        ELSE IF Abstract!Known(q, id) THEN Abstract!Result(q, "DuplicateOrder")
        ELSE Abstract!Result(t, "Ok")
  BY Zenon DEF Abstract!Add
<1>3. Add(B, id, sd, price, qty, mine) =
        IF qty <= 0 THEN Result(B, "BadQuantity")
        ELSE IF ~InWindow(price) THEN Result(B, "PriceOutOfWindow")
        ELSE IF B.free = <<>> THEN Result(B, "PoolExhausted")
        ELSE IF Crosses(B, sd, price) THEN Result(B, "CrossedBook")
        ELSE IF B.map[id] # NullOrder THEN Result(B, "DuplicateOrder")
        ELSE Result(C, "Ok")
  BY Zenon DEF Add
<1>4. \A e : Implements(Result(B, e), Abstract!Result(q, e))
  BY RefusedAlike
<1>5. ASSUME ~(qty <= 0), InWindow(price), B.free # <<>>, ~Crosses(B, sd, price),
             B.map[id] = NullOrder
      PROVE  Implements(Result(C, "Ok"), Abstract!Result(t, "Ok"))
  <2>1. Add(B, id, sd, price, qty, mine) = Result(C, "Ok")
    BY <1>3, <1>5
  <2>2. C \in Book /\ IsSound(C)
    <3>1. price \in Int
      BY InputAssumption
    <3>2. IsSound(B)
      BY DEF Readable
    <3>3. IsResult(Add(B, id, sd, price, qty, mine))
      BY <3>1, AddType
    <3>4. IsSound(Add(B, id, sd, price, qty, mine).book)
      BY <3>1, <3>2, AddIsSound
    <3>5. Result(C, "Ok").book = C
      BY DEF Result
    <3> HIDE DEF C
    <3> QED
      BY <2>1, <3>3, <3>4, <3>5 DEF IsResult
  <2>3. PICK Q : Reads(B, Q) /\ q = Read(B, Q)
    BY ReadableIsRead
  <2>4. Joins(B, C, NextSlot(B), id, sd, ToIndex(price), qty, mine)
    <3>1. PoolPartitionOf(B)
      BY <2>3 DEF Reads
    <3>2. ToIndex(price) \in Levels
      BY <1>5, InWindowIsLevel, InputAssumption
    <3> QED
      BY <1>5, <3>1, <3>2, EnqueueJoins
  <2> HIDE DEF C
  <2>5. PICK R : /\ FifoIs(C, R) /\ PricesIn(C)
                 /\ Read(C, R) = Abstract!JoinQueue(Read(B, Q), id, sd, price, qty, mine)
    BY <1>5, <2>2, <2>3, <2>4, JoinReads
  <2>6. Read(C, R) = t
    BY <2>3, <2>5
  <2> HIDE DEF t
  <2> QED
    BY <2>2, <2>5, <2>6, ReadAfter
<1> HIDE DEF q, t, C, window
<1> QED
  BY <1>1, <1>2, <1>3, <1>4, <1>5 DEF q

\* remove: the same order leaves the same place.
LEMMA RemoveImplements ==
  ASSUME NEW B \in Book, Readable(B), NEW id \in Ids
  PROVE  Implements(Remove(B, id), Abstract!Remove(AbstractQueues(B), id))
<1> DEFINE q == AbstractQueues(B)
           C == Unlink(B, B.map[id])
           t == Abstract!WithQueue(q, id,
                  Abstract!SX!RemoveAt(Abstract!Queue(q, id), Abstract!Place(q, id)))
<1>1. Abstract!Known(q, id) <=> B.map[id] # NullOrder
  BY SameChecks
<1>2. Abstract!Remove(q, id) = IF ~Abstract!Known(q, id) THEN Abstract!Result(q, "UnknownOrder")
                               ELSE Abstract!Result(t, "Ok")
  BY Zenon DEF Abstract!Remove
<1>3. Remove(B, id) = IF B.map[id] = NullOrder THEN Result(B, "UnknownOrder") ELSE Result(C, "Ok")
  BY Zenon DEF Remove
<1>4. \A e : Implements(Result(B, e), Abstract!Result(q, e))
  BY RefusedAlike
<1>5. ASSUME B.map[id] # NullOrder PROVE Implements(Result(C, "Ok"), Abstract!Result(t, "Ok"))
  <2>1. Remove(B, id) = Result(C, "Ok")
    BY <1>3, <1>5
  <2>2. C \in Book /\ IsSound(C)
    <3>1. IsResult(Remove(B, id))
      BY RemoveType
    <3>2. IsSound(Remove(B, id).book)
      BY RemoveIsSound DEF Readable
    <3>3. Result(C, "Ok").book = C
      BY DEF Result
    <3> HIDE DEF C
    <3> QED
      BY <2>1, <3>1, <3>2, <3>3 DEF IsResult
  <2>3. PICK Q : Reads(B, Q) /\ q = Read(B, Q)
    BY ReadableIsRead
  <2>4. Leaves(B, C, B.map[id])
    BY <1>5, <2>3, NamedIsResting, UnlinkLeaves DEF Reads
  <2> HIDE DEF C
  <2> DEFINE r == Read(B, Q)
  <2>5. PICK R : /\ FifoIs(C, R) /\ PricesIn(C)
                 /\ Read(C, R) = Abstract!WithQueue(r, id,
                      Abstract!SX!RemoveAt(Abstract!Queue(r, id), Abstract!Place(r, id)))
    BY <1>5, <2>2, <2>3, <2>4, LeaveReads
  <2>6. Read(C, R) = t
    BY <2>3, <2>5
  <2> HIDE DEF t
  <2> QED
    BY <2>2, <2>5, <2>6, ReadAfter
<1> HIDE DEF q, t, C
<1> QED
  BY <1>1, <1>2, <1>3, <1>4, <1>5 DEF q

\* The order the abstract operators find is the one the map names.
LEMMA SameOrder ==
  ASSUME NEW B \in Book, Readable(B), NEW id \in Ids, B.map[id] # NullOrder
  PROVE  LET q == AbstractQueues(B)
             o == B.pool[B.map[id]]
         IN /\ Abstract!EntryOf(q, id).qty = o.qty /\ Abstract!EntryOf(q, id).mine = o.mine
            /\ Abstract!Where(q, id)[1] = o.side
            /\ B.map[id] \in Resting(B) /\ B.map[id] \in Slots
            /\ o.qty \in Int /\ o.side \in Sides /\ o.mine \in BOOLEAN
<1>1. PICK Q : Reads(B, Q) /\ AbstractQueues(B) = Read(B, Q)
  BY ReadableIsRead
<1> DEFINE q == Read(B, Q)
           s == B.map[id]
<1>2. Abstract!EntryOf(q, id) = EntryOf(B, s) /\ Abstract!Where(q, id)[1] = B.pool[s].side
  BY <1>1, FindsTheOrder
<1>3. s \in Resting(B) /\ s \in Slots
  BY <1>1, NamedIsResting DEF Resting
<1>4. B.pool[s].qty \in Int /\ B.pool[s].side \in Sides /\ B.pool[s].mine \in BOOLEAN
  BY <1>3, OrderFields
<1> HIDE DEF q, s
<1>5. Abstract!EntryOf(q, id).qty = B.pool[s].qty /\ Abstract!EntryOf(q, id).mine = B.pool[s].mine
  BY <1>2 DEF EntryOf
<1> QED
  BY <1>1, <1>2, <1>3, <1>4, <1>5 DEF q, s

\* reduce and execute: the same order shrinks, or leaves.
LEMMA ReduceImplements ==
  ASSUME NEW B \in Book, Readable(B), NEW id \in Ids, NEW by \in Int
  PROVE  Implements(Reduce(B, id, by), Abstract!Reduce(AbstractQueues(B), id, by))
<1> DEFINE q == AbstractQueues(B)
           o == B.pool[B.map[id]]
           C == Shrink(B, B.map[id], by)
           t == Abstract!WithQueue(q, id,
                  [Abstract!Queue(q, id) EXCEPT ![Abstract!Place(q, id)].qty = @ - by])
<1>1. Abstract!Known(q, id) <=> B.map[id] # NullOrder
  BY SameChecks
<1>2. Abstract!Reduce(q, id, by) =
        IF ~Abstract!Known(q, id) THEN Abstract!Result(q, "UnknownOrder")
        ELSE IF by <= 0 \/ by > Abstract!EntryOf(q, id).qty THEN Abstract!Result(q, "BadQuantity")
        ELSE IF by = Abstract!EntryOf(q, id).qty THEN Abstract!Remove(q, id)
        ELSE Abstract!Result(t, "Ok")
  BY Zenon DEF Abstract!Reduce
<1>3. Reduce(B, id, by) =
        IF B.map[id] = NullOrder THEN Result(B, "UnknownOrder")
        ELSE IF by <= 0 \/ by > o.qty THEN Result(B, "BadQuantity")
        ELSE IF by = o.qty THEN Remove(B, id)
        ELSE Result(C, "Ok")
  BY Zenon DEF Reduce
<1>4. \A e : Implements(Result(B, e), Abstract!Result(q, e))
  BY RefusedAlike
<1>5. Implements(Remove(B, id), Abstract!Remove(q, id))
  BY RemoveImplements
<1>6. B.map[id] # NullOrder => Abstract!EntryOf(q, id).qty = o.qty /\ o.qty \in Int
  BY SameOrder
<1>7. ASSUME B.map[id] # NullOrder, ~(by <= 0), ~(by > o.qty), by # o.qty
      PROVE  Implements(Result(C, "Ok"), Abstract!Result(t, "Ok"))
  <2>1. Reduce(B, id, by) = Result(C, "Ok")
    BY <1>3, <1>7
  <2>2. C \in Book /\ IsSound(C)
    <3>1. IsResult(Reduce(B, id, by))
      BY ReduceType
    <3>2. IsSound(Reduce(B, id, by).book)
      BY ReduceIsSound DEF Readable
    <3>3. Result(C, "Ok").book = C
      BY DEF Result
    <3> HIDE DEF C
    <3> QED
      BY <2>1, <3>1, <3>2, <3>3 DEF IsResult
  <2>3. PICK Q : Reads(B, Q) /\ q = Read(B, Q)
    BY ReadableIsRead
  <2>4. Shrinks(B, C, B.map[id], by)
    <3>1. B.map[id] \in Resting(B) /\ PlacedIn(B)
      BY <1>7, <2>3, NamedIsResting DEF Reads
    <3> QED
      BY <3>1, ShrinkShrinks
  <2> HIDE DEF C
  <2> DEFINE r == Read(B, Q)
  <2>5. /\ FifoIs(C, Q) /\ PricesIn(C)
        /\ Read(C, Q) = Abstract!WithQueue(r, id,
             [Abstract!Queue(r, id) EXCEPT ![Abstract!Place(r, id)].qty = @ - by])
    BY <1>7, <2>2, <2>3, <2>4, ShrinkReads
  <2>6. q = r
    BY <2>3
  <2> HIDE DEF q, r
  <2>7. Read(C, Q) = t
    BY <2>5, <2>6
  <2> HIDE DEF t
  <2> QED
    BY <2>2, <2>5, <2>7, ReadAfter
<1> HIDE DEF q, t, C
<1> QED
  BY <1>1, <1>2, <1>3, <1>4, <1>5, <1>6, <1>7 DEF q

\* replace: the old order is gone even when the new one is refused.
LEMMA ReplaceImplements ==
  ASSUME NEW B \in Book, Readable(B), NEW old \in Ids, NEW new \in Ids,
         NEW price \in Prices, NEW qty \in Int
  PROVE  Implements(Replace(B, old, new, price, qty),
                    Abstract!Replace(AbstractQueues(B), old, new, price, qty))
<1> DEFINE q == AbstractQueues(B)
           o == B.pool[B.map[old]]
           C == Remove(B, old).book
           t == Abstract!Remove(q, old).book
<1>1. Abstract!Known(q, old) <=> B.map[old] # NullOrder
  BY SameChecks
<1>2. Abstract!Replace(q, old, new, price, qty) =
        IF ~Abstract!Known(q, old) THEN Abstract!Result(q, "UnknownOrder")
        ELSE Abstract!Add(t, new, Abstract!Where(q, old)[1], price, qty,
                          Abstract!EntryOf(q, old).mine)
  BY Zenon DEF Abstract!Replace
<1>3. Replace(B, old, new, price, qty) =
        IF B.map[old] = NullOrder THEN Result(B, "UnknownOrder")
        ELSE Add(C, new, o.side, price, qty, o.mine)
  BY Zenon DEF Replace
<1>4. Implements(Result(B, "UnknownOrder"), Abstract!Result(q, "UnknownOrder"))
  BY RefusedAlike
<1>5. ASSUME B.map[old] # NullOrder
      PROVE  Implements(Add(C, new, o.side, price, qty, o.mine),
                        Abstract!Add(t, new, Abstract!Where(q, old)[1], price, qty,
                                     Abstract!EntryOf(q, old).mine))
  <2>1. /\ Abstract!EntryOf(q, old).mine = o.mine /\ Abstract!Where(q, old)[1] = o.side
        /\ o.side \in Sides /\ o.mine \in BOOLEAN
    BY <1>5, SameOrder
  <2>2. C \in Book
    BY RemoveType DEF IsResult
  <2>3. Readable(C) /\ AbstractQueues(C) = t
    BY RemoveImplements DEF Implements
  <2> HIDE DEF C, t, o, q
  <2>4. Implements(Add(C, new, o.side, price, qty, o.mine),
                   Abstract!Add(AbstractQueues(C), new, o.side, price, qty, o.mine))
    BY <2>1, <2>2, <2>3, AddImplements
  <2> QED
    BY <2>1, <2>3, <2>4
<1> HIDE DEF q, t, C, o
<1> QED
  BY <1>1, <1>2, <1>3, <1>4, <1>5 DEF q

\* A book whose map names no slot has empty queues.
LEMMA NothingToRead ==
  ASSUME NEW C \in Book, IsSound(C), \A id \in Ids : C.map[id] = NullOrder
  PROVE  Implements(Result(C, "Ok"), Abstract!Result(Abstract!RefEmpty, "Ok"))
<1> DEFINE R == [sd \in Sides |-> [l \in Levels |-> <<>>]]
<1>1. \A s \in Slots : ~Live(C, s)
  BY DEF Live, Slots
<1>2. Resting(C) = {} /\ \A sd \in Sides, l \in Levels : LiveAt(C, sd, l) = {}
  BY <1>1 DEF Resting, LiveAt
<1>3. PricesIn(C)
  BY <1>2 DEF PricesIn
<1>4. <<>> \in Seq(Slots) /\ <<>> \in Seq({}) /\ Len(<<>>) = 0
  OBVIOUS
<1>5. R \in [Sides -> [Levels -> Seq(Slots)]] /\ \A sd \in Sides, l \in Levels : R[sd][l] = <<>>
  BY <1>4
<1> HIDE DEF R
<1>6. FifoIs(C, R)
  <2>1. Lists(C, {}, <<>>)
    BY <1>4 DEF Lists
  <2> QED
    BY <1>2, <1>5, <2>1 DEF FifoIs
<1>7. Read(C, R) = Abstract!RefEmpty
  <2>1. Entries(C, <<>>) = <<>>
    BY <1>4 DEF Entries
  <2>2. ASSUME NEW sd \in Sides, NEW p \in Prices, InWindow(p)
        PROVE  Entries(C, R[sd][ToIndex(p)]) = <<>>
    <3>1. ToIndex(p) \in Levels
      BY <2>2, InWindowIsLevel, InputAssumption
    <3> QED
      BY <1>5, <2>1, <3>1
  <2> QED
    BY <2>2 DEF Read, Abstract!RefEmpty, Abstract!Sides, Sides
<1> QED
  BY <1>3, <1>6, <1>7, ReadAfter

-----------------------------------------------------------------------------
(***************************************************************************)
(* The book implements the queues.                                         *)
(***************************************************************************)
BookIsReadable == TypeOK /\ Readable(book)

\* The empty book reads as no orders at all.
LEMMA ReadableInitially == Init => BookIsReadable /\ Abstract!Init
<1> SUFFICES ASSUME Init PROVE BookIsReadable /\ Abstract!Init
  OBVIOUS
<1>1. \A id \in Ids : EmptyBook.map[id] = NullOrder
  BY DEF EmptyBook
<1>2. Implements(Result(EmptyBook, "Ok"), Abstract!Result(Abstract!RefEmpty, "Ok"))
  BY <1>1, EmptyBookType, EmptyBookIsSound, NothingToRead
<1>3. Readable(EmptyBook) /\ AbstractQueues(EmptyBook) = Abstract!RefEmpty
  BY <1>2 DEF Implements, Result, Abstract!Result
<1> QED
  BY <1>3, EmptyBookType DEF Init, Abstract!Init, BookIsReadable, TypeOK, Errors

\* Every step is a step of the abstract book, or leaves the queues alone.
LEMMA StepImplements ==
  BookIsReadable /\ [Next]_vars
    => Readable(book') /\ [Abstract!Next]_<<AbstractQueues(book), err>>
<1> DEFINE q == AbstractQueues(book)
           Goal == Readable(book') /\ [Abstract!Next]_<<AbstractQueues(book), err>>
<1> SUFFICES ASSUME BookIsReadable, [Next]_vars PROVE Goal
  OBVIOUS
<1>1. book \in Book /\ Readable(book)
  BY DEF BookIsReadable, TypeOK
<1>2. ASSUME NEW r, NEW x, Becomes(r), Implements(r, x)
      PROVE  Readable(book') /\ Abstract!Becomes(x)
  BY <1>2 DEF Becomes, Implements, Abstract!Becomes
<1>3. \A price \in Prices : price \in Int
  BY InputAssumption
<1>4. \A qty \in Qtys : qty \in Int
  BY InputAssumption
<1>5. ASSUME NEW id \in Ids, NEW sd \in Sides, NEW price \in Prices, NEW qty \in Qtys,
             NEW mine \in BOOLEAN, DoAdd(id, sd, price, qty, mine)
      PROVE  Goal
  <2>1. Readable(book') /\ Abstract!Becomes(Abstract!Add(q, id, sd, price, qty, mine))
    BY <1>1, <1>2, <1>4, <1>5, AddImplements DEF DoAdd
  <2> QED
    BY <2>1 DEF Abstract!Next, Abstract!Sides, Sides
<1>6. ASSUME NEW id \in Ids, NEW by \in Qtys, Becomes(Reduce(book, id, by))
      PROVE  Goal
  <2>1. Readable(book') /\ Abstract!Becomes(Abstract!Reduce(q, id, by))
    BY <1>1, <1>2, <1>4, <1>6, ReduceImplements
  <2> QED
    BY <2>1 DEF Abstract!Next
<1>7. ASSUME NEW id \in Ids, DoRemove(id) PROVE Goal
  <2>1. Readable(book') /\ Abstract!Becomes(Abstract!Remove(q, id))
    BY <1>1, <1>2, <1>7, RemoveImplements DEF DoRemove
  <2> QED
    BY <2>1 DEF Abstract!Next
<1>8. ASSUME NEW old \in Ids, NEW new \in Ids, NEW price \in Prices, NEW qty \in Qtys,
             DoReplace(old, new, price, qty)
      PROVE  Goal
  <2>1. Readable(book') /\ Abstract!Becomes(Abstract!Replace(q, old, new, price, qty))
    BY <1>1, <1>2, <1>4, <1>8, ReplaceImplements DEF DoReplace
  <2> QED
    BY <2>1 DEF Abstract!Next
<1>9. CASE DoClear
  <2>1. Clear(book) \in Book /\ IsSound(Clear(book))
    BY <1>1, ClearType, ClearIsSound
  <2>2. \A id \in Ids : Clear(book).map[id] = NullOrder
    BY DEF Clear, EmptyBook
  <2>3. Implements(Result(Clear(book), "Ok"), Abstract!Result(Abstract!RefEmpty, "Ok"))
    BY <2>1, <2>2, NothingToRead
  <2>4. Readable(book') /\ Abstract!Becomes(Abstract!Result(Abstract!RefEmpty, "Ok"))
    BY <1>2, <1>9, <2>3 DEF DoClear
  <2> QED
    BY <2>4 DEF Abstract!Next
<1>10. CASE UNCHANGED vars
  BY <1>1, <1>10 DEF vars
<1>11. CASE Next
  <2> HIDE DEF Goal
  <2> QED
    BY <1>5, <1>6, <1>7, <1>8, <1>9, <1>11 DEF Next, DoReduce, DoExecute, Execute
<1> QED
  BY <1>10, <1>11

\* In every reachable state the links spell out the queues.
LEMMA BookStaysReadable == Spec => []BookIsReadable
<1>1. Init => BookIsReadable
  BY ReadableInitially
<1>2. BookIsReadable /\ TypeOK' /\ [Next]_vars => BookIsReadable'
  BY StepImplements DEF BookIsReadable
<1> QED
  BY <1>1, <1>2, TypeCorrect, PTL DEF Spec

(***************************************************************************)
(* Whatever the pool, the window and the calls, the book is the abstract   *)
(* one: each call returns the error the price-time queues return, and      *)
(* leaves, read from the links, the queues they leave.                     *)
(***************************************************************************)
THEOREM BookImplementsQueues == Spec => ImplementsPriceTimeBook
<1>1. Init => Abstract!Init
  BY ReadableInitially
<1>2. BookIsReadable /\ [Next]_vars => [Abstract!Next]_<<AbstractQueues(book), err>>
  BY StepImplements
<1> QED
  BY <1>1, <1>2, BookStaysReadable, PTL DEF Spec, ImplementsPriceTimeBook, Abstract!Spec

-----------------------------------------------------------------------------
(***************************************************************************)
(* The oracle of the differential test.                                    *)
(***************************************************************************)
\* Inside the window, and while the pool has room, add answers as the naive
\* book does.
LEMMA AddAgrees ==
  ASSUME NEW B \in Book, Readable(B), B.free # <<>>, NEW id \in Ids, NEW sd \in Sides,
         NEW price \in Prices, InWindow(price), NEW qty \in Int, NEW mine \in BOOLEAN
  PROVE  SameAnswer(Add(B, id, sd, price, qty, mine),
                    Abstract!RefAdd(AbstractQueues(B), id, sd, price, qty, mine))
<1> DEFINE q == AbstractQueues(B)
           window == {p \in Prices : InWindow(p)}
           t == Abstract!JoinQueue(q, id, sd, price, qty, mine)
           r == Add(B, id, sd, price, qty, mine)
           x == Abstract!Add(q, id, sd, price, qty, mine)
           y == Abstract!RefAdd(q, id, sd, price, qty, mine)
           crossed == Abstract!Crosses(q, sd, price)
           known == Abstract!Known(q, id)
<1>1. ~Abstract!Full(q) /\ price \in window
  BY SameChecks
<1>2. AbstractQueues(r.book) = x.book /\ r.err = x.err
  BY AddImplements DEF Implements
<1>3. x = IF qty <= 0 THEN Abstract!Result(q, "BadQuantity")
          ELSE IF price \notin window THEN Abstract!Result(q, "PriceOutOfWindow")
          ELSE IF Abstract!Full(q) THEN Abstract!Result(q, "PoolExhausted")
          ELSE IF crossed THEN Abstract!Result(q, "CrossedBook")
          ELSE IF known THEN Abstract!Result(q, "DuplicateOrder")
          ELSE Abstract!Result(t, "Ok")
  BY Zenon DEF Abstract!Add
<1>4. y = IF qty <= 0 THEN Abstract!Result(q, "BadQuantity")
          ELSE IF known THEN Abstract!Result(q, "DuplicateOrder")
          ELSE IF crossed THEN Abstract!Result(q, "CrossedBook")
          ELSE Abstract!Result(t, "Ok")
  BY Zenon DEF Abstract!RefAdd
<1> HIDE DEF q, window, t, r, x, y, crossed, known
<1>5. x.book = y.book /\ (x.err # y.err => x.err = "CrossedBook" /\ y.err = "DuplicateOrder")
  BY <1>1, <1>3, <1>4 DEF Abstract!Result
<1>6. SameAnswer(r, y)
  BY <1>2, <1>5 DEF SameAnswer
<1> QED
  BY <1>6 DEF q, r, y

\* replace answers as the naive book does even when the pool was full: the
\* order it replaces has just given its slot back.
LEMMA ReplaceAgrees ==
  ASSUME NEW B \in Book, Readable(B), NEW old \in Ids, NEW new \in Ids,
         NEW price \in Prices, InWindow(price), NEW qty \in Int
  PROVE  SameAnswer(Replace(B, old, new, price, qty),
                    Abstract!RefReplace(AbstractQueues(B), old, new, price, qty))
<1> DEFINE q == AbstractQueues(B)
           o == B.pool[B.map[old]]
           C == Remove(B, old).book
           t == Abstract!Remove(q, old).book
<1>1. Abstract!Known(q, old) <=> B.map[old] # NullOrder
  BY SameChecks
<1>2. Abstract!RefReplace(q, old, new, price, qty) =
        IF ~Abstract!Known(q, old) THEN Abstract!Result(q, "UnknownOrder")
        ELSE Abstract!RefAdd(t, new, Abstract!Where(q, old)[1], price, qty,
                             Abstract!EntryOf(q, old).mine)
  BY Zenon DEF Abstract!RefReplace
<1>3. Replace(B, old, new, price, qty) =
        IF B.map[old] = NullOrder THEN Result(B, "UnknownOrder")
        ELSE Add(C, new, o.side, price, qty, o.mine)
  BY Zenon DEF Replace
<1>4. SameAnswer(Result(B, "UnknownOrder"), Abstract!Result(q, "UnknownOrder"))
  BY DEF SameAnswer, Result, Abstract!Result
<1>5. ASSUME B.map[old] # NullOrder
      PROVE  SameAnswer(Add(C, new, o.side, price, qty, o.mine),
                        Abstract!RefAdd(t, new, Abstract!Where(q, old)[1], price, qty,
                                        Abstract!EntryOf(q, old).mine))
  <2>1. /\ Abstract!EntryOf(q, old).mine = o.mine /\ Abstract!Where(q, old)[1] = o.side
        /\ o.side \in Sides /\ o.mine \in BOOLEAN /\ B.map[old] \in Slots
    BY <1>5, SameOrder
  <2>2. C \in Book
    BY RemoveType DEF IsResult
  <2>3. Readable(C) /\ AbstractQueues(C) = t
    BY RemoveImplements DEF Implements
  <2>4. C.free # <<>>
    <3>1. C = Unlink(B, B.map[old])
      BY <1>5 DEF Remove, Result
    <3> DEFINE s == B.map[old]
               U == Unlink(B, s)
    <3> HIDE DEF C, s
    <3>2. U.free = Append(B.free, s)
      BY DEF Unlink
    <3>3. C = U /\ s \in Slots /\ B.free \in Seq(Slots)
      BY <2>1, <3>1 DEF Book, s
    <3> HIDE DEF U
    <3>4. Len(U.free) = Len(B.free) + 1 /\ Len(B.free) \in Nat /\ U.free \in Seq(Slots)
      BY <3>2, <3>3, AppendProperties
    <3> QED
      BY <3>3, <3>4, EmptySeq
  <2> HIDE DEF C, t, o, q
  <2>5. SameAnswer(Add(C, new, o.side, price, qty, o.mine),
                   Abstract!RefAdd(AbstractQueues(C), new, o.side, price, qty, o.mine))
    BY <2>1, <2>2, <2>3, <2>4, AddAgrees
  <2> QED
    BY <2>1, <2>3, <2>5
<1> HIDE DEF q, t, C, o
<1> QED
  BY <1>1, <1>2, <1>3, <1>4, <1>5 DEF q

(***************************************************************************)
(* The oracle is sound for every stream of calls inside the window: it     *)
(* refuses what the book refuses and holds the queues the book holds, and  *)
(* the one difference is which of two reasons to refuse is named.          *)
(***************************************************************************)
THEOREM OracleAgrees == Spec => []ReferenceAgrees
<1>1. BookIsReadable => ReferenceAgrees
  <2> SUFFICES ASSUME BookIsReadable PROVE ReferenceAgrees
    OBVIOUS
  <2>1. book \in Book /\ Readable(book)
    BY DEF BookIsReadable, TypeOK
  <2>2. \A qty \in Qtys : qty \in Int
    BY InputAssumption
  <2>3. ~Abstract!Full(AbstractQueues(book)) => book.free # <<>>
    BY <2>1, SameChecks
  <2>4. ASSUME ~Abstract!Full(AbstractQueues(book)), NEW id \in Ids, NEW sd \in Sides,
               NEW price \in {p \in Prices : InWindow(p)}, NEW qty \in Qtys, NEW mine \in BOOLEAN
        PROVE  SameAnswer(Add(book, id, sd, price, qty, mine),
                          Abstract!RefAdd(AbstractQueues(book), id, sd, price, qty, mine))
    BY <2>1, <2>2, <2>3, <2>4, AddAgrees
  <2>5. ASSUME NEW old \in Ids, NEW new \in Ids, NEW price \in {p \in Prices : InWindow(p)},
               NEW qty \in Qtys
        PROVE  SameAnswer(Replace(book, old, new, price, qty),
                          Abstract!RefReplace(AbstractQueues(book), old, new, price, qty))
    BY <2>1, <2>2, ReplaceAgrees
  <2> QED
    BY <2>4, <2>5, Zenon DEF ReferenceAgrees
<1> QED
  BY <1>1, BookStaysReadable, PTL

-----------------------------------------------------------------------------
(***************************************************************************)
(* The sums of the abstract queues.  QtySum folds a queue from its front,  *)
(* by recursion over sets of indices; a running total of the queue is what *)
(* the recursion must find, by the least index at which it would not.      *)
(***************************************************************************)
Highest(S) == Abstract!SX!Max(S)

\* g sums the quantities of e over every set of indices up to k.
SumsUpTo(e, n, g, k) ==
  /\ g = [s \in SUBSET (1 .. n) |-> g[s]]
  /\ \A s \in SUBSET (1 .. k) :
       g[s] = IF s = {} THEN 0 ELSE g[s \ {Highest(s)}] + e[Highest(s)].qty

\* The highest of some indices up to n.
LEMMA HighestIndex ==
  ASSUME NEW n \in Nat, NEW s \in SUBSET (1 .. n), s # {}
  PROVE  /\ Highest(s) \in s /\ \A y \in s : y <= Highest(s)
         /\ n \in s => Highest(s) = n
<1>1. s \in SUBSET (0 .. (n + 1) - 1) /\ n + 1 \in Nat
  OBVIOUS
<1>2. \E x \in s : \A y \in s : x >= y
  BY <1>1, GreatestExists
<1>3. Highest(s) \in s /\ \A y \in s : Highest(s) >= y
  <2> DEFINE Top(x) == \A y \in s : x >= y
  <2>1. \E x \in s : Top(x)
    BY <1>2
  <2>2. Highest(s) = CHOOSE x \in s : Top(x)
    BY DEF Highest, Abstract!SX!Max
  <2> HIDE DEF Top
  <2>3. Highest(s) \in s /\ Top(Highest(s))
    BY <2>1, <2>2
  <2> QED
    BY <2>3 DEF Top
<1>4. \A y \in s : y \in 1 .. n
  OBVIOUS
<1>5. Highest(s) \in 1 .. n /\ \A y \in s : y <= Highest(s)
  BY <1>3, <1>4
<1> QED
  BY <1>3, <1>5

\* Such a sum exists: if not, take the least k up to which it does not.
LEMMA SumsExist ==
  ASSUME NEW e, NEW n \in Nat
  PROVE  \E g : SumsUpTo(e, n, g, n)
<1> DEFINE Bad == {k \in 0 .. n : ~\E g : SumsUpTo(e, n, g, k)}
<1> SUFFICES ASSUME Bad # {} PROVE FALSE
  OBVIOUS
<1>1. PICK m \in Bad : \A k \in Bad : m <= k
  <2>1. Bad \in SUBSET Nat
    OBVIOUS
  <2> QED
    BY <2>1, LeastExists
<1>2. m # 0
  <2> DEFINE g == [s \in SUBSET (1 .. n) |-> 0]
  <2>1. \A s \in SUBSET (1 .. 0) : s = {} /\ s \in SUBSET (1 .. n)
    OBVIOUS
  <2>2. g = [s \in SUBSET (1 .. n) |-> g[s]] /\ g[{}] = 0
    OBVIOUS
  <2> HIDE DEF g
  <2>3. SumsUpTo(e, n, g, 0)
    BY <2>1, <2>2 DEF SumsUpTo
  <2> QED
    BY <1>1, <2>3
<1>3. m \in 1 .. n /\ m - 1 \in 0 .. n /\ m - 1 \notin Bad
  BY <1>1, <1>2
<1>4. PICK g : SumsUpTo(e, n, g, m - 1)
  BY <1>3
<1> DEFINE h == [s \in SUBSET (1 .. n) |-> IF m \in s THEN g[s \ {m}] + e[m].qty ELSE g[s]]
<1>5. ASSUME NEW s \in SUBSET (1 .. m)
      PROVE  h[s] = IF s = {} THEN 0 ELSE h[s \ {Highest(s)}] + e[Highest(s)].qty
  <2>1. s \in SUBSET (1 .. n) /\ s \ {Highest(s)} \in SUBSET (1 .. n) /\ m \in Nat
    <3>1. \A y \in 1 .. m : y \in 1 .. n
      BY <1>3
    <3>2. m \in Nat
      BY <1>3
    <3> QED
      BY <3>1, <3>2
  <2>2. CASE m \in s
    <3>1. Highest(s) = m /\ m \notin s \ {m}
      BY <2>1, <2>2, HighestIndex
    <3> QED
      BY <2>1, <2>2, <3>1
  <2>3. CASE m \notin s
    <3>1. s \in SUBSET (1 .. m - 1)
      BY <1>3, <2>3
    <3>2. h[s] = g[s] /\ h[s \ {Highest(s)}] = g[s \ {Highest(s)}]
      BY <2>1, <2>3
    <3> HIDE DEF h
    <3> QED
      BY <1>4, <3>1, <3>2 DEF SumsUpTo
  <2> QED
    BY <2>2, <2>3
<1>6. SumsUpTo(e, n, h, m)
  <2>1. h = [s \in SUBSET (1 .. n) |-> h[s]]
    OBVIOUS
  <2> HIDE DEF h
  <2> QED
    BY <1>5, <2>1 DEF SumsUpTo
<1> QED
  BY <1>1, <1>6

\* Adding the quantities of a queue gives the last of its running totals.
LEMMA QtySumIsTheTotal ==
  ASSUME NEW e, NEW n \in Nat, DOMAIN e = 1 .. n, NEW p, p[0] = 0,
         \A k \in 1 .. n : p[k] = p[k - 1] + e[k].qty
  PROVE  Abstract!QtySum(e) = p[n]
<1> DEFINE Sums(g) == g = [s \in SUBSET (1 .. n) |->
                       IF s = {} THEN 0 ELSE g[s \ {Highest(s)}] + e[Highest(s)].qty]
           f == CHOOSE g : Sums(g)
<1>1. Abstract!QtySum(e) = f[1 .. n]
  BY Zenon DEF Abstract!QtySum, Abstract!SX!FoldLeft, Abstract!SX!MapThenFoldSet, Highest
<1>2. \E g : Sums(g)
  <2>1. PICK g : SumsUpTo(e, n, g, n)
    BY SumsExist
  <2>2. Sums(g)
    BY <2>1 DEF SumsUpTo
  <2> QED
    BY <2>2
<1>3. Sums(f)
  BY <1>2, Zenon
<1> HIDE DEF f
<1>4. \A s \in SUBSET (1 .. n) :
        f[s] = IF s = {} THEN 0 ELSE f[s \ {Highest(s)}] + e[Highest(s)].qty
  BY <1>3
<1> DEFINE Odd == {k \in 0 .. n : f[1 .. k] # p[k]}
<1>5. Odd = {}
  <2> SUFFICES ASSUME Odd # {} PROVE FALSE
    OBVIOUS
  <2>1. PICK m \in Odd : \A k \in Odd : m <= k
    <3>1. Odd \in SUBSET Nat
      OBVIOUS
    <3> QED
      BY <3>1, LeastExists
  <2>2. 1 .. 0 = {} /\ (1 .. 0) \in SUBSET (1 .. n)
    OBVIOUS
  <2>3. m # 0
    BY <1>4, <2>2
  <2>4. m \in 1 .. n /\ m - 1 \in 0 .. n /\ m - 1 \notin Odd
    BY <2>1, <2>3
  <2>5. /\ 1 .. m # {} /\ (1 .. m) \in SUBSET (1 .. n) /\ Highest(1 .. m) = m
        /\ (1 .. m) \ {m} = 1 .. (m - 1)
    <3>1. m \in 1 .. m /\ (1 .. m) \in SUBSET (1 .. n) /\ (1 .. m) \ {m} = 1 .. (m - 1)
      BY <2>4
    <3>2. m \in Nat
      BY <2>4
    <3> DEFINE s == 1 .. m
    <3>3. s # {} /\ s \in SUBSET (1 .. m) /\ m \in s
      BY <3>1, <3>2
    <3> HIDE DEF s
    <3>4. Highest(s) = m
      BY <3>2, <3>3, HighestIndex
    <3> QED
      BY <3>1, <3>2, <3>4 DEF s
  <2>6. f[1 .. m] = f[1 .. (m - 1)] + e[m].qty
    BY <1>4, <2>5
  <2> QED
    BY <2>4, <2>6
<1> QED
  BY <1>1, <1>5

\* The links lead back from each item of the list to the one before it.
LEMMA LinksLeadBack ==
  ASSUME NEW B \in Book, NEW sd \in Sides, NEW l \in Levels, QueueIsRanked(B, sd, l),
         NEW w, Lists(B, LiveAt(B, sd, l), w)
  PROVE  /\ \A i \in 1 .. Len(w) :
              B.pool[w[i]].prev = IF i = 1 THEN NullOrder ELSE w[i - 1]
         /\ B.levels[sd][l].tail = IF Len(w) = 0 THEN NullOrder ELSE w[Len(w)]
<1> DEFINE S == LiveAt(B, sd, l)
           q == B.levels[sd][l]
           R(s) == B.pool[s].level_seq
<1>1. /\ Len(w) \in Nat /\ \A i \in 1 .. Len(w) : w[i] \in S
      /\ S \in SUBSET Slots
      /\ \A i, j \in 1 .. Len(w) : w[i] = w[j] => i = j
  <2>1. S \in SUBSET Slots
    BY DEF LiveAt
  <2> QED
    BY <2>1, ListedOnce
<1>2. \A s \in S : R(s) \in Nat
  BY <1>1, OrderFields
<1>3. /\ S = {} => q.tail = NullOrder
      /\ \A s, t \in S : R(s) = R(t) => s = t
      /\ \A s \in S : /\ s = q.tail <=> B.pool[s].next = NullOrder
                      /\ s = q.head <=> B.pool[s].prev = NullOrder
                      /\ s # q.head => Adjacent(B, S, B.pool[s].prev, s)
                      /\ s # q.tail => Adjacent(B, S, s, B.pool[s].next)
  BY DEF QueueIsRanked
<1>4. /\ Len(w) # 0 => q.head = w[1]
      /\ \A i \in 1 .. Len(w) :
           B.pool[w[i]].next = IF i = Len(w) THEN NullOrder ELSE w[i + 1]
  BY LinksFollowTheList
<1>5. \A s \in S : \E i \in 1 .. Len(w) : w[i] = s
  BY DEF Lists
<1> HIDE DEF S, q
<1>6. q.tail = IF Len(w) = 0 THEN NullOrder ELSE w[Len(w)]
  <2>1. CASE Len(w) = 0
    BY <1>3, <1>5, <2>1
  <2>2. CASE Len(w) # 0
    <3>1. Len(w) \in 1 .. Len(w) /\ w[Len(w)] \in S
      BY <1>1, <2>2
    <3> QED
      BY <1>3, <1>4, <2>2, <3>1
  <2> QED
    BY <2>1, <2>2
<1>7. ASSUME NEW i \in 1 .. Len(w)
      PROVE  B.pool[w[i]].prev = IF i = 1 THEN NullOrder ELSE w[i - 1]
  <2>1. w[i] \in S /\ 1 \in 1 .. Len(w)
    BY <1>1
  <2>2. CASE i = 1
    BY <1>1, <1>3, <1>4, <2>1, <2>2
  <2>3. CASE i # 1
    <3> DEFINE p == B.pool[w[i]].prev
               o == w[i - 1]
    <3>1. i - 1 \in 1 .. Len(w) /\ i - 1 # Len(w) /\ (i - 1) + 1 = i
      BY <1>1, <2>3
    <3>2. o \in S /\ B.pool[o].next = w[i]
      BY <1>1, <1>4, <3>1
    <3>3. w[i] # q.head
      BY <1>1, <1>4, <2>1, <2>3
    <3>4. o # q.tail
      <4>1. w[i] # NullOrder
        BY <1>1, <2>1 DEF Slots
      <4> QED
        BY <1>3, <3>2, <4>1
    <3>5. Adjacent(B, S, p, w[i]) /\ Adjacent(B, S, o, w[i])
      BY <1>3, <2>1, <3>2, <3>3, <3>4
    <3> HIDE DEF p, o
    <3>6. p \in S /\ R(p) = R(o)
      BY <1>2, <3>2, <3>5 DEF Adjacent
    <3>7. p = o
      BY <1>3, <3>2, <3>6
    <3> QED
      BY <2>3, <3>7 DEF p, o
  <2> QED
    BY <2>2, <2>3
<1> QED
  BY <1>6, <1>7 DEF q

\* The quantity ahead of an order, and the total of its level, are sums of the
\* queue that is read.
LEMMA SumsOfTheQueue ==
  ASSUME NEW B \in Book, NEW a, PlacedIn(B), QueuesAreRankedIn(B), SumsAhead(B, a),
         TotalsAre(B, a), NEW sd \in Sides, NEW l \in Levels,
         NEW w, Lists(B, LiveAt(B, sd, l), w)
  PROVE  /\ Abstract!QtySum(Entries(B, w)) = B.levels[sd][l].total_qty
         /\ \A i \in 1 .. Len(w) :
              Abstract!QtySum(SubSeq(Entries(B, w), 1, i - 1)) = a[w[i]]
<1> DEFINE S == LiveAt(B, sd, l)
           e == Entries(B, w)
           n == Len(w)
           p == [k \in 0 .. n |-> IF k = 0 THEN 0 ELSE a[w[k]] + B.pool[w[k]].qty]
<1>1. /\ S \in SUBSET Resting(B) /\ S \in SUBSET Slots /\ QueueIsRanked(B, sd, l)
  BY DEF LiveAt, Resting, QueuesAreRankedIn
<1>2. n \in Nat /\ \A i \in 1 .. n : w[i] \in S /\ w[i] \in Resting(B) /\ w[i] # NullOrder
  <2>1. n \in Nat /\ \A i \in 1 .. n : w[i] \in S
    BY <1>1, ListedOnce
  <2> QED
    BY <1>1, <2>1 DEF Slots
<1>3. /\ \A i \in 1 .. n : B.pool[w[i]].prev = IF i = 1 THEN NullOrder ELSE w[i - 1]
      /\ B.levels[sd][l].tail = IF n = 0 THEN NullOrder ELSE w[n]
  BY <1>1, LinksLeadBack
<1>4. \A s \in Resting(B) :
        a[s] = IF B.pool[s].prev = NullOrder THEN 0
               ELSE a[B.pool[s].prev] + B.pool[B.pool[s].prev].qty
  BY Zenon DEF SumsAhead
<1>5. B.levels[sd][l].total_qty =
        IF B.levels[sd][l].tail = NullOrder THEN 0
        ELSE a[B.levels[sd][l].tail] + B.pool[B.levels[sd][l].tail].qty
  BY Zenon DEF TotalsAre
<1>6. w \in Seq(S)
  BY DEF Lists
<1>7. /\ e \in Seq({EntryOf(B, s) : s \in S}) /\ Len(e) = n
      /\ \A i \in 1 .. n : e[i] = EntryOf(B, w[i])
  BY <1>6, EntriesOfAList
<1>8. p[0] = 0 /\ \A k \in 1 .. n : p[k] = a[w[k]] + B.pool[w[k]].qty
  BY <1>2
<1> HIDE DEF p, e, n, S
<1>9. \A i \in 1 .. n : a[w[i]] = p[i - 1]
  <2> SUFFICES ASSUME NEW i \in 1 .. n PROVE a[w[i]] = p[i - 1]
    OBVIOUS
  <2>1. CASE i = 1
    BY <1>2, <1>3, <1>4, <1>8, <2>1
  <2>2. CASE i # 1
    <3>1. i - 1 \in 1 .. n
      BY <1>2, <2>2
    <3>2. B.pool[w[i]].prev = w[i - 1] /\ w[i - 1] # NullOrder
      BY <1>2, <1>3, <2>2, <3>1
    <3> QED
      BY <1>2, <1>4, <1>8, <3>1, <3>2
  <2> QED
    BY <2>1, <2>2
<1>10. p[n] = B.levels[sd][l].total_qty
  <2>1. CASE n = 0
    BY <1>3, <1>5, <1>8, <2>1
  <2>2. CASE n # 0
    <3>1. n \in 1 .. n
      BY <1>2, <2>2
    <3> QED
      BY <1>2, <1>3, <1>5, <1>8, <2>2, <3>1
  <2> QED
    BY <2>1, <2>2
<1>11. \A k \in 1 .. n : p[k] = p[k - 1] + e[k].qty
  <2>1. \A k \in 1 .. n : e[k].qty = B.pool[w[k]].qty
    BY <1>7 DEF EntryOf
  <2> QED
    BY <1>8, <1>9, <2>1
<1>12. Abstract!QtySum(e) = p[n]
  <2>1. DOMAIN e = 1 .. n
    BY <1>7
  <2> QED
    BY <1>2, <1>8, <1>11, <2>1, QtySumIsTheTotal
<1>13. ASSUME NEW i \in 1 .. n PROVE Abstract!QtySum(SubSeq(e, 1, i - 1)) = a[w[i]]
  <2> DEFINE m == i - 1
             d == SubSeq(e, 1, m)
  <2>1. m \in Nat /\ m <= n /\ \A k \in 1 .. m : k \in 1 .. n
    BY <1>2
  <2>2. DOMAIN d = 1 .. m /\ \A k \in 1 .. m : d[k] = e[k]
    BY <1>2, <1>7, <2>1
  <2>3. \A k \in 1 .. m : p[k] = p[k - 1] + d[k].qty
    BY <1>11, <2>1, <2>2
  <2> HIDE DEF m, d
  <2>4. Abstract!QtySum(d) = p[m]
    BY <1>8, <2>1, <2>2, <2>3, QtySumIsTheTotal
  <2> QED
    BY <1>9, <2>4 DEF m, d
<1> QED
  BY <1>10, <1>12, <1>13 DEF e, n

-----------------------------------------------------------------------------
(***************************************************************************)
(* The number of orders a level reports.                                   *)
(***************************************************************************)
CountsAre(B) ==
  \A sd \in Sides, l \in Levels :
    B.levels[sd][l].count = Cardinality(LiveAt(B, sd, l))

\* A level holds finitely many orders: the pool is finite.
LEMMA LevelsAreFinite ==
  ASSUME NEW B, NEW sd, NEW l
  PROVE  IsFiniteSet(LiveAt(B, sd, l)) /\ Cardinality(LiveAt(B, sd, l)) \in Nat
<1>1. IsFiniteSet(Slots)
  BY MaxOrdersAssumption, FS_Interval DEF Slots
<1>2. LiveAt(B, sd, l) \in SUBSET Slots
  BY DEF LiveAt
<1> HIDE DEF LiveAt
<1> QED
  BY <1>1, <1>2, FS_Subset, FS_CardinalityType

\* An order more.
LEMMA EnqueueCounts ==
  ASSUME NEW B \in Book, PoolPartitionOf(B), CountsAre(B), NEW id \in Ids, NEW sd \in Sides,
         NEW l \in Levels, NEW qty \in Int, NEW mine \in BOOLEAN,
         B.free # <<>>, B.map[id] = NullOrder
  PROVE  CountsAre(Enqueue(B, id, sd, l, qty, mine))
<1> DEFINE C == Enqueue(B, id, sd, l, qty, mine)
           s == NextSlot(B)
<1>1. Joins(B, C, s, id, sd, l, qty, mine)
  BY EnqueueJoins
<1>2. \A k \in Sides, m \in Levels :
        /\ k = sd /\ m = l => C.levels[k][m].count = B.levels[k][m].count + 1
        /\ k # sd \/ m # l => C.levels[k][m].count = B.levels[k][m].count
  <2> DEFINE new == [total_qty |-> B.levels[sd][l].total_qty + qty,
                     head      |-> IF B.levels[sd][l].tail # NullOrder
                                     THEN B.levels[sd][l].head ELSE s,
                     tail      |-> s,
                     count     |-> B.levels[sd][l].count + 1,
                     next_seq  |-> B.levels[sd][l].next_seq + 1]
  <2>1. C.levels = [B.levels EXCEPT ![sd][l] = new]
    BY DEF Enqueue
  <2>2. B.levels \in [Sides -> [Levels -> Level]]
    BY DEF Book
  <2>3. new.count = B.levels[sd][l].count + 1
    OBVIOUS
  <2> HIDE DEF C, new
  <2> QED
    BY <2>1, <2>2, <2>3
<1> HIDE DEF C, s
<1>3. \A k \in Sides, m \in Levels :
        LiveAt(C, k, m) = IF k = sd /\ m = l THEN LiveAt(B, k, m) \cup {s} ELSE LiveAt(B, k, m)
  BY <1>1, JoinedLevel
<1> SUFFICES ASSUME NEW k \in Sides, NEW m \in Levels
             PROVE  C.levels[k][m].count = Cardinality(LiveAt(C, k, m))
  BY DEF CountsAre, C
<1>4. B.levels[k][m].count = Cardinality(LiveAt(B, k, m))
  BY DEF CountsAre
<1>5. CASE k = sd /\ m = l
  <2>1. s \notin LiveAt(B, k, m)
    BY <1>1 DEF Joins, LiveAt
  <2>2. Cardinality(LiveAt(B, k, m) \cup {s}) = Cardinality(LiveAt(B, k, m)) + 1
    BY <2>1, LevelsAreFinite, FS_AddElement
  <2> QED
    BY <1>2, <1>3, <1>4, <1>5, <2>2
<1>6. CASE k # sd \/ m # l
  <2>1. LiveAt(C, k, m) = LiveAt(B, k, m)
    BY <1>3, <1>6
  <2> QED
    BY <1>2, <1>4, <1>6, <2>1
<1> QED
  BY <1>5, <1>6

\* An order less; the level that empties is reset.
LEMMA UnlinkCounts ==
  ASSUME NEW B \in Book, IsSound(B), CountsAre(B), NEW s \in Resting(B),
         Unlink(B, s) \in Book
  PROVE  CountsAre(Unlink(B, s))
<1> DEFINE C == Unlink(B, s)
           sd == B.pool[s].side
           l == B.pool[s].level
           total == B.levels[sd][l].total_qty - B.pool[s].qty
<1>1. PICK a : /\ PlacedIn(B) /\ QueuesAreRankedIn(B) /\ SumsAhead(B, a) /\ TotalsAre(B, a)
  BY DEF IsSound, Sound
<1>2. Leaves(B, C, s) /\ sd \in Sides /\ l \in Levels /\ s \in LiveAt(B, sd, l)
  BY <1>1, UnlinkLeaves, LinkedInLevel
<1>3. total = 0 <=> LiveAt(B, sd, l) = {s}
  BY <1>1, TotalTellsTheLast
<1>4. \A k \in Sides, m \in Levels :
        /\ k = sd /\ m = l =>
             C.levels[k][m].count = IF total = 0 THEN 0 ELSE B.levels[k][m].count - 1
        /\ k # sd \/ m # l => C.levels[k][m].count = B.levels[k][m].count
  <2> DEFINE new == UnlinkLevel(B, s)
  <2>1. C.levels = [B.levels EXCEPT ![sd][l] = new]
    BY DEF Unlink
  <2>2. B.levels \in [Sides -> [Levels -> Level]]
    BY DEF Book
  <2>3. new.count = IF total = 0 THEN 0 ELSE B.levels[sd][l].count - 1
    BY DEF UnlinkLevel
  <2> HIDE DEF C, new, total, sd, l
  <2> QED
    BY <1>2, <2>1, <2>2, <2>3
<1> HIDE DEF C, total, sd, l
<1>5. \A k \in Sides, m \in Levels : LiveAt(C, k, m) = LiveAt(B, k, m) \ {s}
  BY <1>2, LeftLevel DEF C
<1> SUFFICES ASSUME NEW k \in Sides, NEW m \in Levels
             PROVE  C.levels[k][m].count = Cardinality(LiveAt(C, k, m))
  BY DEF CountsAre, C
<1>6. /\ B.levels[k][m].count = Cardinality(LiveAt(B, k, m))
      /\ IsFiniteSet(LiveAt(B, k, m)) /\ Cardinality(LiveAt(B, k, m)) \in Nat
  BY LevelsAreFinite DEF CountsAre
<1>7. CASE k = sd /\ m = l
  <2>1. Cardinality(LiveAt(C, k, m)) = Cardinality(LiveAt(B, k, m)) - 1
    BY <1>2, <1>5, <1>6, <1>7, FS_RemoveElement
  <2>2. LiveAt(B, k, m) = {s} => Cardinality(LiveAt(C, k, m)) = 0
    BY <1>5, FS_EmptySet
  <2> QED
    BY <1>3, <1>4, <1>6, <1>7, <2>1, <2>2
<1>8. CASE k # sd \/ m # l
  <2>1. s \notin LiveAt(B, k, m)
    BY <1>8 DEF LiveAt, sd, l
  <2>2. LiveAt(C, k, m) = LiveAt(B, k, m)
    BY <1>5, <2>1
  <2> QED
    BY <1>4, <1>6, <1>8, <2>2
<1> QED
  BY <1>7, <1>8

\* Setting one level's total leaves the rest of that level as it was.
LEMMA TotalSetAt ==
  ASSUME NEW S, NEW T, NEW V, NEW x \in [S -> [T -> V]], NEW a \in S, NEW b \in T, NEW n
  PROVE  [x EXCEPT ![a][b].total_qty = @ - n][a][b]
           = [x[a][b] EXCEPT !.total_qty = x[a][b].total_qty - n]
OBVIOUS

\* An order that shrinks stays.
LEMMA ShrinkCounts ==
  ASSUME NEW B \in Book, PlacedIn(B), CountsAre(B), NEW s \in Resting(B), NEW by \in Int
  PROVE  CountsAre(Shrink(B, s, by))
<1> DEFINE C == Shrink(B, s, by)
<1>1. Shrinks(B, C, s, by)
  BY ShrinkShrinks
<1>2. \A k \in Sides, m \in Levels : LiveAt(C, k, m) = LiveAt(B, k, m)
  <2>1. \A t \in Slots : /\ Live(C, t) <=> Live(B, t)
                        /\ C.pool[t].side = B.pool[t].side /\ C.pool[t].level = B.pool[t].level
    BY <1>1 DEF Shrinks
  <2> HIDE DEF C
  <2> QED
    BY <2>1 DEF LiveAt
<1>3. \A k \in Sides, m \in Levels : C.levels[k][m].count = B.levels[k][m].count
  <2>1. B.levels \in [Sides -> [Levels -> Level]]
    BY DEF Book
  <2>2. C.levels = [B.levels EXCEPT ![B.pool[s].side][B.pool[s].level].total_qty = @ - by]
    BY DEF Shrink
  <2> DEFINE sd == B.pool[s].side
             l == B.pool[s].level
  <2>3. ASSUME NEW k \in Sides, NEW m \in Levels
        PROVE  C.levels[k][m].count = B.levels[k][m].count
    <3>1. B.levels[k] \in [Levels -> Level] /\ B.levels[k][m] \in Level
      BY <2>1
    <3>2. C.levels[k][m] = B.levels[k][m]
            \/ \E n : C.levels[k][m] = [B.levels[k][m] EXCEPT !.total_qty = n]
      <4> HIDE DEF C, sd, l
      <4>1. CASE k = sd /\ m = l
        <5>1. C.levels[k][m] = [B.levels[k][m] EXCEPT !.total_qty = B.levels[k][m].total_qty - by]
          <6>1. sd \in Sides /\ l \in Levels
            BY <4>1
          <6>2. [B.levels EXCEPT ![sd][l].total_qty = @ - by][sd][l]
                  = [B.levels[sd][l] EXCEPT !.total_qty = B.levels[sd][l].total_qty - by]
            BY <2>1, <6>1, TotalSetAt
          <6>3. C.levels = [B.levels EXCEPT ![sd][l].total_qty = @ - by]
            BY <2>2 DEF sd, l
          <6> QED
            BY ONLY <4>1, <6>2, <6>3
        <5> QED
          BY <5>1
      <4>2. CASE k # sd
        BY <2>1, <2>2, <3>1, <4>2 DEF sd, l
      <4>3. CASE k = sd /\ m # l
        BY <2>1, <2>2, <3>1, <4>3 DEF sd, l
      <4> QED
        BY <4>1, <4>2, <4>3
    <3> HIDE DEF C
    <3> QED
      BY <3>1, <3>2 DEF Level
  <2> QED
    BY <2>3
<1> HIDE DEF C
<1>4. CountsAre(C)
  BY <1>2, <1>3 DEF CountsAre
<1> QED
  BY <1>4 DEF C

\* add keeps every level's count right.
LEMMA AddCounts ==
  ASSUME NEW B \in Book, IsSound(B), CountsAre(B), NEW id \in Ids, NEW sd \in Sides,
         NEW price \in Int, NEW qty \in Int, NEW mine \in BOOLEAN
  PROVE  CountsAre(Add(B, id, sd, price, qty, mine).book)
<1>1. PoolPartitionOf(B)
  BY DEF IsSound, Sound
<1>2. ASSUME InWindow(price), B.free # <<>>, B.map[id] = NullOrder
      PROVE  CountsAre(Enqueue(B, id, sd, ToIndex(price), qty, mine))
  BY <1>1, <1>2, InWindowIsLevel, EnqueueCounts
<1> QED
  BY <1>2 DEF Add, Result

\* remove keeps every level's count right.
LEMMA RemoveCounts ==
  ASSUME NEW B \in Book, IsSound(B), CountsAre(B), NEW id \in Ids
  PROVE  CountsAre(Remove(B, id).book)
<1>1. CASE B.map[id] = NullOrder
  BY <1>1 DEF Remove, Result
<1>2. CASE B.map[id] # NullOrder
  <2> DEFINE s == B.map[id]
  <2>1. s \in Resting(B)
    BY <1>2 DEF IsSound, Sound, PoolPartitionOf, Resting, Live, Book, SlotsOrNull
  <2>2. Remove(B, id) = Result(Unlink(B, s), "Ok")
    BY <1>2 DEF Remove
  <2> HIDE DEF s
  <2>3. Result(Unlink(B, s), "Ok").book = Unlink(B, s)
    BY DEF Result
  <2>4. Unlink(B, s) \in Book
    BY <2>2, <2>3, RemoveType DEF IsResult
  <2> QED
    BY <2>1, <2>2, <2>3, <2>4, UnlinkCounts
<1> QED
  BY <1>1, <1>2

\* reduce keeps every level's count right: it unlinks the order or leaves it.
LEMMA ReduceCounts ==
  ASSUME NEW B \in Book, IsSound(B), CountsAre(B), NEW id \in Ids, NEW by \in Int
  PROVE  CountsAre(Reduce(B, id, by).book)
<1>1. ASSUME B.map[id] # NullOrder PROVE CountsAre(Shrink(B, B.map[id], by))
  <2>1. B.map[id] \in Resting(B) /\ PlacedIn(B)
    BY <1>1 DEF IsSound, Sound, PoolPartitionOf, Resting, Live, Book, SlotsOrNull
  <2> QED
    BY <2>1, ShrinkCounts
<1> QED
  BY <1>1, RemoveCounts DEF Reduce, Result

\* replace keeps every level's count right, removal and entry together.
LEMMA ReplaceCounts ==
  ASSUME NEW B \in Book, Readable(B), CountsAre(B), NEW old \in Ids, NEW new \in Ids,
         NEW price \in Int, NEW qty \in Int
  PROVE  CountsAre(Replace(B, old, new, price, qty).book)
<1>1. CASE B.map[old] = NullOrder
  BY <1>1 DEF Replace, Result
<1>2. CASE B.map[old] # NullOrder
  <2> DEFINE C == Remove(B, old).book
             o == B.pool[B.map[old]]
  <2>1. C \in Book /\ IsSound(C) /\ CountsAre(C)
    BY RemoveType, RemoveIsSound, RemoveCounts DEF IsResult, Readable
  <2>2. o.side \in Sides /\ o.mine \in BOOLEAN
    BY <1>2, SameOrder
  <2> HIDE DEF C, o
  <2>3. CountsAre(Add(C, new, o.side, price, qty, o.mine).book)
    BY <2>1, <2>2, AddCounts
  <2>4. Replace(B, old, new, price, qty) = Add(C, new, o.side, price, qty, o.mine)
    BY <1>2, Zenon DEF Replace, C, o
  <2> QED
    BY <2>3, <2>4
<1> QED
  BY <1>1, <1>2

\* An empty book has no orders at any level and counts none.
LEMMA EmptyCounts ==
  ASSUME NEW C, C.map = EmptyBook.map, C.levels = EmptyBook.levels
  PROVE  CountsAre(C)
<1>1. \A sd \in Sides, l \in Levels : LiveAt(C, sd, l) = {} /\ C.levels[sd][l].count = 0
  BY DEF LiveAt, Live, EmptyBook, NoQueue, Slots
<1> QED
  BY <1>1, FS_EmptySet DEF CountsAre

\* In every reachable state a level's count is the number of its orders.
LEMMA CountsStay == Spec => []CountsAre(book)
<1>1. Init => CountsAre(book)
  BY EmptyCounts DEF Init
<1>2. BookIsReadable /\ CountsAre(book) /\ [Next]_vars => CountsAre(book)'
  <2> SUFFICES ASSUME BookIsReadable, CountsAre(book), [Next]_vars PROVE CountsAre(book')
    OBVIOUS
  <2>1. book \in Book /\ Readable(book) /\ IsSound(book)
    BY DEF BookIsReadable, TypeOK, Readable
  <2> USE InputAssumption DEF Becomes
  <2>2. ASSUME NEW id \in Ids, NEW sd \in Sides, NEW price \in Prices, NEW qty \in Qtys,
               NEW mine \in BOOLEAN, DoAdd(id, sd, price, qty, mine)
        PROVE  CountsAre(book')
    BY <2>1, <2>2, AddCounts DEF DoAdd
  <2>3. ASSUME NEW id \in Ids, NEW by \in Qtys, Becomes(Reduce(book, id, by))
        PROVE  CountsAre(book')
    BY <2>1, <2>3, ReduceCounts
  <2>4. ASSUME NEW id \in Ids, DoRemove(id) PROVE CountsAre(book')
    BY <2>1, <2>4, RemoveCounts DEF DoRemove
  <2>5. ASSUME NEW old \in Ids, NEW new \in Ids, NEW price \in Prices, NEW qty \in Qtys,
               DoReplace(old, new, price, qty)
        PROVE  CountsAre(book')
    BY <2>1, <2>5, ReplaceCounts DEF DoReplace
  <2>6. CASE DoClear
    <3>1. Clear(book).map = EmptyBook.map /\ Clear(book).levels = EmptyBook.levels
      BY DEF Clear, EmptyBook
    <3>2. CountsAre(Clear(book))
      BY <3>1, EmptyCounts
    <3> QED
      BY <2>6, <3>2 DEF DoClear, Result
  <2>7. CASE UNCHANGED vars
    BY <2>7 DEF vars
  <2>8. CASE Next
    BY <2>2, <2>3, <2>4, <2>5, <2>6, <2>8 DEF Next, DoReduce, DoExecute, Execute
  <2> QED
    BY <2>7, <2>8
<1> QED
  BY <1>1, <1>2, BookStaysReadable, PTL DEF Spec

-----------------------------------------------------------------------------
(***************************************************************************)
(* The queries.                                                            *)
(***************************************************************************)
\* A set is as large as any list of its members in the order of their ranks.
LEMMA ListIsCounted ==
  ASSUME NEW B \in Book, NEW S \in SUBSET Slots, NEW w, Lists(B, S, w)
  PROVE  Cardinality(S) = Len(w)
<1>1. /\ Len(w) \in Nat /\ \A i \in 1 .. Len(w) : w[i] \in S
      /\ \A i, j \in 1 .. Len(w) : w[i] = w[j] => i = j
  BY ListedOnce
<1>2. \A s \in S : \E i \in 1 .. Len(w) : w[i] = s
  BY DEF Lists
<1> DEFINE n == Len(w)
           f == [i \in 1 .. n |-> w[i]]
<1>3. f \in [1 .. n -> S] /\ \A i \in 1 .. n : f[i] = w[i]
  BY <1>1
<1> HIDE DEF f
<1>4. f \in Bijection(1 .. n, S)
  BY <1>1, <1>2, <1>3 DEF Bijection, Injection, Surjection, IsInjective
<1>5. ExistsBijection(1 .. n, S)
  BY <1>4 DEF ExistsBijection
<1>6. n \in Nat
  BY <1>1
<1> HIDE DEF n
<1>7. IsFiniteSet(1 .. n) /\ Cardinality(1 .. n) = n
  <2>1. 1 \in Int /\ n \in Int
    BY <1>6
  <2>2. Cardinality(1 .. n) = IF 1 > n THEN 0 ELSE n - 1 + 1
    BY <2>1, FS_Interval
  <2> QED
    BY <1>6, <2>1, <2>2, FS_Interval
<1>8. Cardinality(S) = n
  BY <1>5, <1>7, FS_Bijection
<1> QED
  BY <1>8 DEF n

\* Quantity and number of orders at a price.
LEMMA LevelQueriesAgree ==
  ASSUME NEW B \in Book, Readable(B), CountsAre(B), NEW sd \in Sides, NEW p \in Prices
  PROVE  LET q == AbstractQueues(B)
         IN /\ QtyAt(B, sd, p) = Abstract!QtyAt(q, sd, p)
            /\ OrdersAt(B, sd, p) = Abstract!OrdersAt(q, sd, p)
<1>1. PICK Q : Reads(B, Q) /\ AbstractQueues(B) = Read(B, Q)
  BY ReadableIsRead
<1>2. PICK a : /\ PlacedIn(B) /\ QueuesAreRankedIn(B) /\ SumsAhead(B, a) /\ TotalsAre(B, a)
  BY DEF Readable, IsSound, Sound
<1> DEFINE e == Read(B, Q)[sd][p]
<1>3. CASE ~InWindow(p)
  <2>1. e = <<>>
    BY <1>3 DEF Read
  <2>2. Abstract!QtySum(<<>>) = 0
    <3> DEFINE z == [k \in {0} |-> 0]
    <3>1. z[0] = 0 /\ DOMAIN <<>> = 1 .. 0 /\ \A k \in 1 .. 0 : z[k] = z[k - 1] + <<>>[k].qty
      OBVIOUS
    <3> HIDE DEF z
    <3> QED
      BY <3>1, QtySumIsTheTotal
  <2> QED
    BY <1>1, <1>3, <2>1, <2>2 DEF QtyAt, OrdersAt, Abstract!QtyAt, Abstract!OrdersAt
<1>4. CASE InWindow(p)
  <2> DEFINE l == ToIndex(p)
             w == Q[sd][l]
             S == LiveAt(B, sd, l)
  <2>1. l \in Levels /\ e = Entries(B, w)
    BY <1>4, InWindowIsLevel, InputAssumption DEF Read
  <2>2. Lists(B, S, w) /\ S \in SUBSET Slots
    BY <1>1, <2>1 DEF Reads, FifoIs, LiveAt
  <2>3. Abstract!QtySum(e) = B.levels[sd][l].total_qty
    BY <1>2, <2>1, <2>2, SumsOfTheQueue
  <2>4. Len(e) = Len(w)
    <3>1. w \in Seq(S)
      BY <2>2 DEF Lists
    <3> HIDE DEF w, S, e
    <3>2. Len(Entries(B, w)) = Len(w)
      BY <3>1, EntriesOfAList
    <3> QED
      BY <2>1, <3>2
  <2>5. Cardinality(S) = Len(w)
    <3> HIDE DEF w, S
    <3> QED
      BY <2>2, ListIsCounted
  <2>6. B.levels[sd][l].count = Len(e)
    BY <2>1, <2>4, <2>5 DEF CountsAre
  <2> HIDE DEF e
  <2> QED
    BY <1>1, <1>4, <2>3, <2>6 DEF QtyAt, OrdersAt, Abstract!QtyAt, Abstract!OrdersAt, e
<1> QED
  BY <1>3, <1>4

\* Quantity, ownership and queue position of an order.
LEMMA OrderQueriesAgree ==
  ASSUME NEW B \in Book, Readable(B), NEW id \in Ids
  PROVE  LET q == AbstractQueues(B)
         IN /\ QtyOf(B, id) = Abstract!QtyOf(q, id)
            /\ IsMine(B, id) <=> Abstract!IsMine(q, id)
            /\ QueueAhead(B, id) = IF IsMine(B, id) THEN Abstract!QueueAhead(q, id) ELSE -1
<1> DEFINE q == AbstractQueues(B)
           s == B.map[id]
<1>1. Abstract!Known(q, id) <=> s # NullOrder
  BY SameChecks
<1>2. s # NullOrder => /\ Abstract!EntryOf(q, id).qty = B.pool[s].qty
                       /\ Abstract!EntryOf(q, id).mine = B.pool[s].mine
  BY SameOrder
<1>3. QtyOf(B, id) = Abstract!QtyOf(q, id)
  BY <1>1, <1>2 DEF QtyOf, Abstract!QtyOf
<1>4. IsMine(B, id) <=> Abstract!IsMine(q, id)
  BY <1>1, <1>2 DEF IsMine, Abstract!IsMine
<1>5. PICK a : Sound(B, a)
  BY DEF Readable, IsSound
<1>6. ASSUME ~IsMine(B, id) PROVE QueueAhead(B, id) = -1
  <2>1. \A o \in B.own : o.id # id
    <3>1. ASSUME NEW o \in B.own, o.id = id PROVE FALSE
      <4>1. B.map[o.id] # NullOrder /\ B.pool[B.map[o.id]].mine
        BY <1>5, PositionIsResting DEF Sound, Resting, Slots
      <4> QED
        BY <1>6, <3>1, <4>1, Zenon DEF IsMine
    <3> QED
      BY <3>1
  <2> QED
    BY <2>1 DEF QueueAhead
<1>7. ASSUME IsMine(B, id) PROVE QueueAhead(B, id) = Abstract!QueueAhead(q, id)
  <2>1. s # NullOrder /\ B.pool[s].mine
    BY <1>7 DEF IsMine
  <2>2. PICK Q : Reads(B, Q) /\ q = Read(B, Q)
    BY ReadableIsRead
  <2>3. s \in Resting(B) /\ B.pool[s].id = id
    BY <2>1, <2>2, NamedIsResting
  <2>4. QueueAhead(B, id) = a[s]
    <3>1. \E o \in B.own : o.id = id
      BY <1>5, <2>1, <2>3 DEF Sound, PositionsAre
    <3>2. \A o \in B.own : o.id = id => o.qty_ahead = a[s]
      BY <1>5 DEF Sound, PositionsAre
    <3>3. (CHOOSE o \in B.own : o.id = id) \in B.own /\ (CHOOSE o \in B.own : o.id = id).id = id
      BY <3>1, Zenon
    <3> QED
      BY <3>1, <3>2, <3>3, Zenon DEF QueueAhead
  <2> DEFINE w == QueueFor(B, Q, s)
             i == PlaceIn(w, s)
  <2>5. Abstract!Queue(q, id) = Entries(B, w) /\ Abstract!Place(q, id) = i
    BY <2>1, <2>2, FindsTheOrder
  <2>6. Abstract!QueueAhead(q, id) = Abstract!QtySum(SubSeq(Entries(B, w), 1, i - 1))
    BY <1>1, <2>1, <2>5 DEF Abstract!QueueAhead
  <2>7. /\ B.pool[s].side \in Sides /\ B.pool[s].level \in Levels
        /\ Lists(B, LiveAt(B, B.pool[s].side, B.pool[s].level), w)
        /\ i \in 1 .. Len(w) /\ w[i] = s
    BY <2>2, <2>3, HasAPlace DEF Reads
  <2> HIDE DEF w, i
  <2>8. Abstract!QtySum(SubSeq(Entries(B, w), 1, i - 1)) = a[w[i]]
    BY <1>5, <2>7, SumsOfTheQueue DEF Sound
  <2> QED
    BY <2>4, <2>6, <2>7, <2>8
<1> QED
  BY <1>3, <1>4, <1>6, <1>7

(***************************************************************************)
(* What the book answers from totals, counts, cached touch and positions   *)
(* is what a walk of the price-time queues would find.                     *)
(***************************************************************************)
THEOREM QueriesAlwaysAgree == Spec => []QueriesAgree
<1>1. BookIsReadable /\ CountsAre(book) => QueriesAgree
  <2> SUFFICES ASSUME BookIsReadable, CountsAre(book) PROVE QueriesAgree
    OBVIOUS
  <2>1. book \in Book /\ Readable(book)
    BY DEF BookIsReadable, TypeOK
  <2>2. \A sd \in Sides, p \in Prices :
          /\ QtyAt(book, sd, p) = Abstract!QtyAt(AbstractQueues(book), sd, p)
          /\ OrdersAt(book, sd, p) = Abstract!OrdersAt(AbstractQueues(book), sd, p)
    BY <2>1, LevelQueriesAgree
  <2>3. \A sd \in Sides :
          HasBest(book, sd) => BestPrice(book, sd) = Abstract!Best(AbstractQueues(book), sd)
    <3>1. PICK Q : Reads(book, Q) /\ AbstractQueues(book) = Read(book, Q)
      BY <2>1, ReadableIsRead
    <3>2. TouchIsExactIn(book)
      BY <2>1 DEF Readable, IsSound, Sound
    <3> QED
      BY <2>1, <3>1, <3>2, SameTouch
  <2>4. \A id \in Ids :
          /\ QtyOf(book, id) = Abstract!QtyOf(AbstractQueues(book), id)
          /\ IsMine(book, id) <=> Abstract!IsMine(AbstractQueues(book), id)
          /\ QueueAhead(book, id) = IF IsMine(book, id)
                                    THEN Abstract!QueueAhead(AbstractQueues(book), id) ELSE -1
    BY <2>1, OrderQueriesAgree
  <2>5. \A id \in Ids : IsMine(book, id) = Abstract!IsMine(AbstractQueues(book), id)
    BY <2>4, Zenon DEF IsMine, Abstract!IsMine
  <2> QED
    BY <2>2, <2>3, <2>4, <2>5, Zenon DEF QueriesAgree
<1> QED
  BY <1>1, BookStaysReadable, CountsStay, PTL
=============================================================================
