-------------------------- MODULE OrderBookProofs --------------------------
(***************************************************************************)
(* Theorems about OrderBook, for every pool size, window and set of ids:   *)
(* types, the pool, and the inductive invariant that every operation       *)
(* keeps, of queues, totals, touch, sides and our own positions.           *)
(*                                                                         *)
(* A level's total and our queue positions are sums along the links.  No   *)
(* induction over the links is needed: the invariant carries a function a  *)
(* that names the quantity ahead of each resting order, every operation    *)
(* says how a changes, and the walk of the links is shown to be a.         *)
(***************************************************************************)
EXTENDS OrderBook, SequenceTheorems, WellFoundedInduction, TLAPS

USE DEF NullOrder, NoLevel, NoId

\* A nonempty set of naturals has a least element.
LEMMA LeastExists ==
  ASSUME NEW S \in SUBSET Nat, S # {}
  PROVE  \E n \in S : \A m \in S : n <= m
<1>1. PICK n \in S : \A m \in S : ~(<<m, n>> \in OpToRel(<, Nat))
  BY WFMin, NatLessThanWellFounded
<1> SUFFICES ASSUME NEW m \in S PROVE n <= m
  BY <1>1
<1>2. <<m, n>> \notin OpToRel(<, Nat)
  BY <1>1
<1>3. ~(m < n)
  BY <1>2 DEF OpToRel
<1> QED
  BY <1>3

\* A nonempty set of naturals with an upper bound has a greatest element.
LEMMA GreatestExists ==
  ASSUME NEW n \in Nat, NEW S \in SUBSET (0 .. n - 1), S # {}
  PROVE  \E x \in S : \A y \in S : y <= x
<1> DEFINE T == {k \in Nat : n - k \in S}
<1>1. T # {}
  <2>1. PICK x \in S : TRUE
    OBVIOUS
  <2>2. n - x \in Nat /\ n - (n - x) = x
    OBVIOUS
  <2> QED
    BY <2>1, <2>2
<1>2. PICK k \in T : \A j \in T : k <= j
  BY <1>1, LeastExists
<1>3. \A y \in S : n - y \in T
  OBVIOUS
<1> QED
  BY <1>2, <1>3

\* next_slot takes the slot at the end of the free list.
LEMMA NextSlotIsFree ==
  ASSUME NEW B \in Book, B.free # <<>>
  PROVE  /\ Len(B.free) \in Nat \ {0}
         /\ NextSlot(B) \in Slots
         /\ PopSlot(B) \in Seq(Slots)
         /\ Len(PopSlot(B)) = Len(B.free) - 1
         /\ \A i \in 1 .. Len(B.free) - 1 : PopSlot(B)[i] = B.free[i]
<1>1. B.free \in Seq(Slots)
  BY DEF Book
<1>2. Len(B.free) \in Nat \ {0}
  BY <1>1, EmptySeq
<1>3. NextSlot(B) \in Slots
  BY <1>1, <1>2, ElementOfSeq DEF NextSlot
<1>4. /\ PopSlot(B) \in Seq(Slots)
      /\ Len(PopSlot(B)) = Len(B.free) - 1
      /\ \A i \in 1 .. Len(B.free) - 1 : PopSlot(B)[i] = B.free[i]
  BY <1>1, <1>2, SubSeqProperties DEF PopSlot
<1> QED
  BY <1>2, <1>3, <1>4

\* The mutating half of add keeps the types.
LEMMA EnqueueType ==
  ASSUME NEW B \in Book, NEW id \in Ids, NEW sd \in Sides, NEW l \in Levels,
         NEW qty \in Int, NEW mine \in BOOLEAN, B.free # <<>>
  PROVE  Enqueue(B, id, sd, l, qty, mine) \in Book
<1> DEFINE s  == NextSlot(B)
           lv == B.levels[sd][l]
           C  == Enqueue(B, id, sd, l, qty, mine)
<1>1. s \in Slots /\ PopSlot(B) \in Seq(Slots)
  BY NextSlotIsFree
<1>2. lv \in Level
  BY DEF Book
<1>3. C.pool \in [Slots -> Order]
  <2>1. l \in Int
    BY DEF Levels
  <2>2. [id |-> id, qty |-> qty, level |-> l, side |-> sd, mine |-> mine,
         prev |-> lv.tail, next |-> NullOrder, level_seq |-> NextRank(lv)] \in Order
    BY <1>2, <2>1 DEF Order, Level, SlotsOrNull, NextRank
  <2>3. \A t \in Slots : B.pool[t] \in Order /\ [B.pool[t] EXCEPT !.next = s] \in Order
    <3>1. \A t \in Slots : B.pool[t] \in Order
      BY DEF Book
    <3>2. s \in SlotsOrNull
      BY <1>1 DEF SlotsOrNull
    <3>3. ASSUME NEW p \in Order, NEW q \in SlotsOrNull
          PROVE  [p EXCEPT !.next = q] \in Order
      BY DEF Order
    <3> HIDE DEF s
    <3> QED
      BY <3>1, <3>2, <3>3
  <2> QED
    BY <2>2, <2>3 DEF Enqueue
<1>4. C.levels \in [Sides -> [Levels -> Level]]
  BY <1>1, <1>2 DEF Enqueue, Book, Level, SlotsOrNull
<1>5. C.bits \in [Sides -> SUBSET Levels]
  BY DEF Enqueue, Book
<1>6. C.best \in [Sides -> LevelsOrNone]
  BY DEF Enqueue, Book, LevelsOrNone
<1>7. C.map \in [Ids -> SlotsOrNull]
  BY <1>1 DEF Enqueue, Book, SlotsOrNull
<1>8. C.own \in SUBSET OwnOrder
  BY <1>2 DEF Enqueue, Book, OwnOrder, Level, NextRank
<1> QED
  BY <1>1, <1>3, <1>4, <1>5, <1>6, <1>7, <1>8 DEF Enqueue, Book

-----------------------------------------------------------------------------
\* The scans find a level, or that there is none.
LEMMA TouchExists ==
  ASSUME NEW sd \in Sides, NEW S \in SUBSET Levels
  PROVE  \E l \in LevelsOrNone : IsTouch(sd, S, l)
<1>1. CASE S = {}
  BY <1>1 DEF IsTouch, LevelsOrNone
<1>2. CASE S # {}
  <2>1. S \in SUBSET Nat /\ S \in SUBSET (0 .. WindowTicks - 1) /\ WindowTicks \in Nat
    BY WindowAssumption DEF Levels
  <2>2. PICK lo \in S : \A k \in S : lo <= k
    BY <1>2, <2>1, LeastExists
  <2>3. PICK hi \in S : \A k \in S : k <= hi
    BY <1>2, <2>1, GreatestExists
  <2>4. \A k \in S : k >= lo
    BY <2>1, <2>2
  <2> QED
    BY <2>2, <2>3, <2>4 DEF IsTouch, IsHighest, IsLowest, LevelsOrNone, Sides
<1> QED
  BY <1>1, <1>2

\* A scan names a level, or none.
LEMMA ScanType ==
  ASSUME NEW B \in Book, NEW sd \in Sides, NEW from \in Int
  PROVE  ScanDown(B, sd, from) \in LevelsOrNone /\ ScanUp(B, sd, from) \in LevelsOrNone
<1>1. B.bits[sd] \in SUBSET Levels
  BY DEF Book
<1>2. \E l \in LevelsOrNone : IsTouch("Bid", {k \in B.bits[sd] : k <= from}, l)
  BY <1>1, TouchExists DEF Sides
<1>3. \E l \in LevelsOrNone : IsTouch("Ask", {k \in B.bits[sd] : k >= from}, l)
  BY <1>1, TouchExists DEF Sides
<1> QED
  BY <1>2, <1>3 DEF ScanDown, ScanUp

\* Our positions keep their type as quantity leaves a level.
LEMMA OwnType ==
  ASSUME NEW own \in SUBSET OwnOrder, NEW l, NEW sd, NEW seq, NEW qty \in Int, NEW id
  PROVE  /\ OnQtyRemovedAt(own, l, sd, seq, qty) \in SUBSET OwnOrder
         /\ DropOwn(OnQtyRemovedAt(own, l, sd, seq, qty), id) \in SUBSET OwnOrder
<1>1. ASSUME NEW o \in OwnOrder
      PROVE  [o EXCEPT !.qty_ahead = AtLeastZero(@ - qty)] \in OwnOrder
  BY DEF OwnOrder, AtLeastZero
<1>2. OnQtyRemovedAt(own, l, sd, seq, qty) \in SUBSET OwnOrder
  BY <1>1 DEF OnQtyRemovedAt
<1> QED
  BY <1>2 DEF DropOwn

\* One level of one side changes, or none when l is not one.
LEMMA LevelsType ==
  ASSUME NEW levels \in [Sides -> [Levels -> Level]], NEW sd \in Sides, NEW l, NEW lv,
         l \in Levels => lv \in Level
  PROVE  [levels EXCEPT ![sd][l] = lv] \in [Sides -> [Levels -> Level]]
<1>1. [levels[sd] EXCEPT ![l] = lv] \in [Levels -> Level]
  BY Zenon
<1> QED
  BY <1>1

\* A slot that leaves: the book it leaves is a book.
LEMMA UnlinkType ==
  ASSUME NEW B \in Book, NEW s \in Slots
  PROVE  Unlink(B, s) \in Book
<1> DEFINE o == B.pool[s]
           C == Unlink(B, s)
<1>1. o \in Order
  BY DEF Book
<1>2. C.pool \in [Slots -> Order]
  <2>1. \A t \in Slots : B.pool[t] \in Order
    BY DEF Book
  <2>2. \A t \in Slots : /\ [B.pool[t] EXCEPT !.prev = NullOrder, !.next = NullOrder] \in Order
                         /\ [B.pool[t] EXCEPT !.next = o.next] \in Order
                         /\ [B.pool[t] EXCEPT !.prev = o.prev] \in Order
    BY <1>1, <2>1 DEF Order, SlotsOrNull
  <2> QED
    BY <2>1, <2>2 DEF Unlink, UnlinkPool
<1>3. C.levels \in [Sides -> [Levels -> Level]]
  <2>1. B.levels \in [Sides -> [Levels -> Level]] /\ o.side \in Sides
    BY <1>1 DEF Book, Order
  <2>2. ASSUME o.level \in Levels PROVE UnlinkLevel(B, s) \in Level
    <3>1. B.levels[o.side][o.level] \in Level
      BY <2>1, <2>2
    <3>2. /\ B.levels[o.side][o.level].total_qty \in Int
          /\ B.levels[o.side][o.level].count \in Int
          /\ B.levels[o.side][o.level].next_seq \in Nat
          /\ B.levels[o.side][o.level].head \in SlotsOrNull
          /\ B.levels[o.side][o.level].tail \in SlotsOrNull
      BY <3>1 DEF Level
    <3>3. o.qty \in Int /\ o.prev \in SlotsOrNull /\ o.next \in SlotsOrNull
          /\ NullOrder \in SlotsOrNull
      BY <1>1 DEF Order, SlotsOrNull
    <3> DEFINE lv    == B.levels[o.side][o.level]
               total == lv.total_qty - o.qty
               head  == IF total = 0 THEN NullOrder
                        ELSE IF o.prev = NullOrder THEN o.next ELSE lv.head
               tail  == IF total = 0 THEN NullOrder
                        ELSE IF o.next = NullOrder THEN o.prev ELSE lv.tail
               count == IF total = 0 THEN 0 ELSE lv.count - 1
    <3>4. UnlinkLevel(B, s) = [total_qty |-> total, head |-> head, tail |-> tail,
                               count |-> count, next_seq |-> lv.next_seq]
      BY Zenon DEF UnlinkLevel
    <3>5. total \in Int /\ count \in Int
      <4>1. lv.total_qty \in Int /\ lv.count \in Int /\ o.qty \in Int
        BY <3>2, <3>3
      <4> HIDE DEF lv, o
      <4> QED
        BY <4>1
    <3>6. head \in {NullOrder, o.next, lv.head} /\ tail \in {NullOrder, o.prev, lv.tail}
      <4>1. ASSUME NEW a, NEW b, NEW c, NEW P, NEW Q
            PROVE  (IF P THEN a ELSE IF Q THEN b ELSE c) \in {a, b, c}
        OBVIOUS
      <4> HIDE DEF lv, total
      <4> QED
        BY <4>1
    <3>7. head \in SlotsOrNull /\ tail \in SlotsOrNull
      <4> HIDE DEF head, tail
      <4> QED
        BY <3>2, <3>3, <3>6
    <3>8. lv.next_seq \in Nat
      BY <3>2
    <3> HIDE DEF lv, total, head, tail, count
    <3> QED
      BY <3>4, <3>5, <3>7, <3>8 DEF Level
  <2>3. C.levels = [B.levels EXCEPT ![o.side][o.level] = UnlinkLevel(B, s)]
    BY DEF Unlink
  <2> QED
    BY <2>1, <2>2, <2>3, LevelsType
<1>4. C.bits \in [Sides -> SUBSET Levels]
  BY <1>1 DEF Unlink, Book, Order
<1>5. C.best \in [Sides -> LevelsOrNone]
  <2>1. o.side \in Sides /\ o.level \in Int
    BY <1>1 DEF Order
  <2>2. B.best \in [Sides -> LevelsOrNone]
    BY DEF Book
  <2>3. Rescan(B, o.side, o.level) \in LevelsOrNone
    BY <2>1, <2>2, ScanType DEF Rescan
  <2> QED
    BY <2>1, <2>2, <2>3 DEF Unlink
<1>6. C.map \in [Ids -> SlotsOrNull]
  BY DEF Unlink, Book, SlotsOrNull
<1>7. C.free \in Seq(Slots)
  BY AppendProperties DEF Unlink, Book
<1>8. C.own \in SUBSET OwnOrder
  <2>1. B.own \in SUBSET OwnOrder /\ o.qty \in Int
    BY <1>1 DEF Book, Order
  <2> QED
    BY <2>1, OwnType DEF Unlink
<1> QED
  BY <1>2, <1>3, <1>4, <1>5, <1>6, <1>7, <1>8 DEF Unlink, Book

\* Part of an order leaves.
LEMMA ShrinkType ==
  ASSUME NEW B \in Book, NEW s \in Slots, NEW by \in Int
  PROVE  Shrink(B, s, by) \in Book
<1> DEFINE o    == B.pool[s]
           lv   == [B.levels[o.side][o.level] EXCEPT !.total_qty = @ - by]
           pool == [B.pool EXCEPT ![s] = [o EXCEPT !.qty = @ - by]]
           levels == [B.levels EXCEPT ![o.side][o.level] = lv]
           own == OnQtyRemovedAt(B.own, o.level, o.side, o.level_seq, by)
<1>1. o \in Order
  BY DEF Book
<1>2. pool \in [Slots -> Order]
  <2>1. [o EXCEPT !.qty = @ - by] \in Order
    BY <1>1 DEF Order
  <2> QED
    BY <2>1 DEF Book
<1>3. levels \in [Sides -> [Levels -> Level]]
  <2>1. B.levels \in [Sides -> [Levels -> Level]] /\ o.side \in Sides
    BY <1>1 DEF Book, Order
  <2>2. o.level \in Levels => B.levels[o.side][o.level] \in Level
    BY <2>1
  <2>3. \A v \in Level : [v EXCEPT !.total_qty = @ - by] \in Level
    BY DEF Level
  <2> QED
    BY <2>1, <2>2, <2>3, LevelsType
<1>4. own \in SUBSET OwnOrder
  BY OwnType DEF Book
<1>5. Shrink(B, s, by) = [B EXCEPT !.pool = pool, !.levels = levels, !.own = own]
  BY DEF Shrink
<1> HIDE DEF pool, levels, own
<1> QED
  BY <1>2, <1>3, <1>4, <1>5 DEF Book

\* The book the constructor builds.
LEMMA EmptyBookType == EmptyBook \in Book
<1>1. FullFreeList \in Seq(Slots)
  <2>1. \A i \in 1 .. MaxOrders : MaxOrders - i \in Slots
    BY MaxOrdersAssumption DEF Slots
  <2> QED
    BY <2>1, MaxOrdersAssumption, SeqDef DEF FullFreeList
<1>2. NoOrder \in Order
  BY DEF NoOrder, Order, Sides, SlotsOrNull
<1>3. NoQueue \in Level
  BY DEF NoQueue, Level, SlotsOrNull
<1> QED
  BY <1>1, <1>2, <1>3 DEF EmptyBook, Book, LevelsOrNone, SlotsOrNull

\* clear keeps the types.
LEMMA ClearType ==
  ASSUME NEW B \in Book
  PROVE  Clear(B) \in Book
BY EmptyBookType DEF Clear, Book

-----------------------------------------------------------------------------
(***************************************************************************)
(* Every operation turns a book into a book.                               *)
(***************************************************************************)
LEMMA InWindowIsLevel ==
  ASSUME NEW price \in Int, InWindow(price)
  PROVE  ToIndex(price) \in Levels
BY WindowAssumption DEF InWindow, ToIndex, Levels

IsResult(r) == r.book \in Book /\ r.err \in Errors

\* add keeps the types.
LEMMA AddType ==
  ASSUME NEW B \in Book, NEW id \in Ids, NEW sd \in Sides, NEW price \in Int,
         NEW qty \in Int, NEW mine \in BOOLEAN
  PROVE  IsResult(Add(B, id, sd, price, qty, mine))
BY EnqueueType, InWindowIsLevel DEF IsResult, Add, Result, Errors

\* remove keeps the types.
LEMMA RemoveType ==
  ASSUME NEW B \in Book, NEW id \in Ids
  PROVE  IsResult(Remove(B, id))
<1>1. B.map[id] \in SlotsOrNull
  BY DEF Book
<1> QED
  BY <1>1, UnlinkType DEF IsResult, Remove, Result, Errors, SlotsOrNull

\* reduce keeps the types.
LEMMA ReduceType ==
  ASSUME NEW B \in Book, NEW id \in Ids, NEW by \in Int
  PROVE  IsResult(Reduce(B, id, by))
<1>1. B.map[id] \in SlotsOrNull
  BY DEF Book
<1> QED
  BY <1>1, RemoveType, ShrinkType DEF IsResult, Reduce, Result, Errors, SlotsOrNull

\* replace keeps the types.
LEMMA ReplaceType ==
  ASSUME NEW B \in Book, NEW old \in Ids, NEW new \in Ids, NEW price \in Int, NEW qty \in Int
  PROVE  IsResult(Replace(B, old, new, price, qty))
<1>1. CASE B.map[old] = NullOrder
  BY <1>1 DEF IsResult, Replace, Result, Errors
<1>2. CASE B.map[old] # NullOrder
  <2>1. B.map[old] \in Slots
    BY <1>2 DEF Book, SlotsOrNull
  <2>2. B.pool[B.map[old]] \in Order
    BY <2>1 DEF Book
  <2>3. B.pool[B.map[old]].side \in Sides /\ B.pool[B.map[old]].mine \in BOOLEAN
    BY <2>2 DEF Order
  <2>4. Remove(B, old).book \in Book
    BY RemoveType DEF IsResult
  <2> QED
    BY <1>2, <2>3, <2>4, AddType DEF Replace
<1> QED
  BY <1>1, <1>2

\* Every call the program may make leaves a well-typed book.
THEOREM TypeCorrect == Spec => []TypeOK
<1>1. Init => TypeOK
  BY EmptyBookType DEF Init, TypeOK, Errors
<1>2. TypeOK /\ [Next]_vars => TypeOK'
  <2> SUFFICES ASSUME TypeOK, [Next]_vars PROVE TypeOK'
    OBVIOUS
  <2> USE InputAssumption DEF TypeOK, IsResult, Becomes
  <2>1. ASSUME NEW id \in Ids, NEW sd \in Sides, NEW price \in Prices, NEW qty \in Qtys,
               NEW mine \in BOOLEAN, DoAdd(id, sd, price, qty, mine)
        PROVE  TypeOK'
    BY <2>1, AddType DEF DoAdd
  <2>2. ASSUME NEW id \in Ids, NEW by \in Qtys, DoReduce(id, by) PROVE TypeOK'
    BY <2>2, ReduceType DEF DoReduce
  <2>3. ASSUME NEW id \in Ids, NEW qty \in Qtys, DoExecute(id, qty) PROVE TypeOK'
    BY <2>3, ReduceType DEF DoExecute, Execute
  <2>4. ASSUME NEW id \in Ids, DoRemove(id) PROVE TypeOK'
    BY <2>4, RemoveType DEF DoRemove
  <2>5. ASSUME NEW old \in Ids, NEW new \in Ids, NEW price \in Prices, NEW qty \in Qtys,
               DoReplace(old, new, price, qty)
        PROVE  TypeOK'
    BY <2>5, ReplaceType DEF DoReplace
  <2>6. CASE DoClear
    BY <2>6, ClearType DEF DoClear, Result, Errors
  <2>7. CASE UNCHANGED vars
    BY <2>7 DEF vars
  <2> QED
    BY <2>1, <2>2, <2>3, <2>4, <2>5, <2>6, <2>7 DEF Next
<1> QED
  BY <1>1, <1>2, PTL DEF Spec

-----------------------------------------------------------------------------
(***************************************************************************)
(* No slot is leaked, handed out twice, or shared.                         *)
(***************************************************************************)
LEMMA EnqueueKeepsPartition ==
  ASSUME NEW B \in Book, PoolPartitionOf(B), NEW id \in Ids, NEW sd \in Sides,
         NEW l \in Levels, NEW qty \in Int, NEW mine \in BOOLEAN,
         B.free # <<>>, B.map[id] = NullOrder
  PROVE  PoolPartitionOf(Enqueue(B, id, sd, l, qty, mine))
<1> DEFINE s == NextSlot(B)
           C == Enqueue(B, id, sd, l, qty, mine)
           n == Len(B.free)
<1>1. /\ n \in Nat \ {0} /\ s \in Slots
      /\ C.free \in Seq(Slots) /\ DOMAIN C.free = 1 .. n - 1
      /\ \A i \in 1 .. n - 1 : C.free[i] = B.free[i]
  BY NextSlotIsFree DEF Enqueue
<1>2. /\ B.free \in Seq(Slots) /\ DOMAIN B.free = 1 .. n /\ s = B.free[n]
      /\ \A i \in 1 .. n : B.free[i] \in Slots
  BY ElementOfSeq DEF Book, NextSlot
<1>3. /\ \A i \in Ids : C.map[i] = IF i = id THEN s ELSE B.map[i]
      /\ \A i \in Ids : B.map[i] \in SlotsOrNull
  BY DEF Enqueue, Book
<1>4. \A t \in Slots : C.pool[t].id = IF t = s THEN id ELSE B.pool[t].id
  <2>1. \A t \in Slots : B.pool[t] \in Order
    BY DEF Book
  <2> QED
    BY <2>1 DEF Enqueue, Order
<1>5. s # NullOrder
  BY <1>1 DEF Slots
<1>6. ~Live(B, s)
  BY <1>1, <1>2 DEF PoolPartitionOf
<1>7. \A t \in Slots : Live(C, t) <=> t = s \/ Live(B, t)
  <2> SUFFICES ASSUME NEW t \in Slots PROVE Live(C, t) <=> t = s \/ Live(B, t)
    OBVIOUS
  <2>1. CASE t = s
    BY <2>1, <1>3, <1>4 DEF Live
  <2>2. CASE t # s
    <3>1. C.pool[t].id = B.pool[t].id
      BY <2>2, <1>4
    <3>2. CASE B.pool[t].id \in Ids
      <4>1. B.pool[t].id = id => ~Live(C, t) /\ ~Live(B, t)
        BY <2>2, <3>1, <1>3, <1>5 DEF Live, Slots
      <4>2. B.pool[t].id # id => C.map[C.pool[t].id] = B.map[B.pool[t].id]
        BY <3>1, <3>2, <1>3
      <4> QED
        BY <2>2, <3>1, <4>1, <4>2 DEF Live
    <3>3. CASE B.pool[t].id \notin Ids
      BY <2>2, <3>1, <3>3 DEF Live
    <3> QED
      BY <3>2, <3>3
  <2> QED
    BY <2>1, <2>2
<1>8. \A i \in Ids : C.map[i] # NullOrder => C.pool[C.map[i]].id = i
  <2> SUFFICES ASSUME NEW i \in Ids, C.map[i] # NullOrder PROVE C.pool[C.map[i]].id = i
    OBVIOUS
  <2>1. CASE i = id
    BY <2>1, <1>1, <1>3, <1>4
  <2>2. CASE i # id
    <3>1. B.map[i] \in Slots /\ B.pool[B.map[i]].id = i /\ C.map[i] = B.map[i]
      BY <2>2, <1>3 DEF PoolPartitionOf, SlotsOrNull
    <3>2. B.map[i] # s
      BY <3>1, <1>6 DEF Live
    <3> QED
      BY <3>1, <3>2, <1>4
  <2> QED
    BY <2>1, <2>2
<1>9. \A i \in DOMAIN C.free : ~Live(C, C.free[i])
  <2> SUFFICES ASSUME NEW i \in 1 .. n - 1 PROVE ~Live(C, C.free[i])
    BY <1>1
  <2>1. i \in 1 .. n /\ n \in 1 .. n /\ i # n
    BY <1>1
  <2>2. B.free[i] # s /\ ~Live(B, B.free[i])
    BY <2>1, <1>2 DEF PoolPartitionOf
  <2> QED
    BY <2>1, <2>2, <1>1, <1>2, <1>7
<1>10. \A i, j \in DOMAIN C.free : C.free[i] = C.free[j] => i = j
  <2>1. \A i, j \in 1 .. n : B.free[i] = B.free[j] => i = j
    BY <1>2 DEF PoolPartitionOf
  <2> SUFFICES ASSUME NEW i \in 1 .. n - 1, NEW j \in 1 .. n - 1, C.free[i] = C.free[j]
               PROVE  i = j
    BY <1>1
  <2>2. i \in 1 .. n /\ j \in 1 .. n
    BY <1>1
  <2>3. B.free[i] = B.free[j]
    BY <1>1
  <2> QED
    BY <2>1, <2>2, <2>3
<1>11. \A t \in Slots : Live(C, t) \/ \E i \in DOMAIN C.free : C.free[i] = t
  <2> SUFFICES ASSUME NEW t \in Slots, t # s, ~Live(B, t)
               PROVE  \E i \in DOMAIN C.free : C.free[i] = t
    BY <1>7
  <2>1. PICK i \in 1 .. n : B.free[i] = t
    BY <1>2 DEF PoolPartitionOf
  <2>2. i \in 1 .. n - 1
    BY <1>1, <1>2, <2>1
  <2> QED
    BY <2>1, <2>2, <1>1
<1> QED
  BY <1>8, <1>9, <1>10, <1>11 DEF PoolPartitionOf

\* The mutating half of remove frees the order's slot and no other.
LEMMA UnlinkKeepsPartition ==
  ASSUME NEW B \in Book, PoolPartitionOf(B), NEW id \in Ids, B.map[id] # NullOrder
  PROVE  PoolPartitionOf(Unlink(B, B.map[id]))
<1> DEFINE s == B.map[id]
           C == Unlink(B, s)
           n == Len(B.free)
<1>1. s \in Slots /\ B.pool[s].id = id
  BY DEF Book, SlotsOrNull, PoolPartitionOf
<1>2. /\ B.free \in Seq(Slots) /\ n \in Nat /\ DOMAIN B.free = 1 .. n
      /\ \A i \in 1 .. n : B.free[i] \in Slots
  BY ElementOfSeq DEF Book
<1>3. /\ DOMAIN C.free = 1 .. n + 1
      /\ \A i \in 1 .. n : C.free[i] = B.free[i]
      /\ C.free[n + 1] = s
  BY <1>1, <1>2, AppendProperties DEF Unlink
<1>4. \A i \in Ids : C.map[i] = IF i = id THEN NullOrder ELSE B.map[i]
  BY <1>1 DEF Unlink, Book
<1>5. \A t \in Slots : C.pool[t].id = B.pool[t].id
  <2>1. \A t \in Slots : B.pool[t] \in Order
    BY DEF Book
  <2> QED
    BY <2>1 DEF Unlink, UnlinkPool, Order
<1>6. Live(B, s)
  BY <1>1 DEF Live
<1>7. \A t \in Slots : Live(C, t) <=> t # s /\ Live(B, t)
  <2> SUFFICES ASSUME NEW t \in Slots PROVE Live(C, t) <=> t # s /\ Live(B, t)
    OBVIOUS
  <2>1. CASE B.pool[t].id = id
    <3>1. ~Live(C, t)
      BY <2>1, <1>4, <1>5 DEF Live, Slots
    <3>2. Live(B, t) => t = s
      BY <2>1 DEF Live
    <3> QED
      BY <3>1, <3>2
  <2>2. CASE B.pool[t].id # id
    BY <2>2, <1>1, <1>4, <1>5 DEF Live
  <2> QED
    BY <2>1, <2>2
<1>8. \A i \in Ids : C.map[i] # NullOrder => C.pool[C.map[i]].id = i
  <2> SUFFICES ASSUME NEW i \in Ids, C.map[i] # NullOrder PROVE C.pool[C.map[i]].id = i
    OBVIOUS
  <2>1. C.map[i] = B.map[i]
    BY <1>4
  <2>2. B.map[i] \in Slots /\ B.pool[B.map[i]].id = i
    BY <2>1 DEF Book, SlotsOrNull, PoolPartitionOf
  <2> QED
    BY <2>1, <2>2, <1>5
<1>9. \A i \in 1 .. n : B.free[i] # s /\ ~Live(B, B.free[i])
  BY <1>2, <1>6 DEF PoolPartitionOf
<1>10. \A i \in 1 .. n + 1 : i \in 1 .. n \/ i = n + 1
  BY <1>2
<1>11. \A i \in DOMAIN C.free : ~Live(C, C.free[i])
  BY <1>1, <1>2, <1>3, <1>7, <1>9, <1>10
<1>12. \A i, j \in DOMAIN C.free : C.free[i] = C.free[j] => i = j
  BY <1>2, <1>3, <1>9, <1>10 DEF PoolPartitionOf
<1>13. \A t \in Slots : Live(C, t) \/ \E i \in DOMAIN C.free : C.free[i] = t
  <2> SUFFICES ASSUME NEW t \in Slots, ~Live(C, t)
               PROVE  \E i \in 1 .. n + 1 : C.free[i] = t
    BY <1>3
  <2>1. CASE t = s
    BY <2>1, <1>2, <1>3
  <2>2. CASE t # s
    <3>1. PICK i \in 1 .. n : B.free[i] = t
      BY <2>2, <1>2, <1>7 DEF PoolPartitionOf
    <3> QED
      BY <3>1, <1>2, <1>3
  <2> QED
    BY <2>1, <2>2
<1> QED
  BY <1>8, <1>11, <1>12, <1>13 DEF PoolPartitionOf

\* An order that shrinks keeps its slot.
LEMMA ShrinkKeepsPartition ==
  ASSUME NEW B \in Book, PoolPartitionOf(B), NEW s \in Slots, NEW by \in Int
  PROVE  PoolPartitionOf(Shrink(B, s, by))
<1> DEFINE C == Shrink(B, s, by)
<1>1. C.map = B.map /\ C.free = B.free
  BY DEF Shrink, Book
<1>2. \A t \in Slots : C.pool[t].id = B.pool[t].id
  <2>1. \A t \in Slots : B.pool[t] \in Order
    BY DEF Book
  <2>2. C.pool = [B.pool EXCEPT ![s].qty = @ - by]
    BY DEF Shrink, Book
  <2> QED
    BY <2>1, <2>2 DEF Book, Order
<1>3. \A t \in Slots : Live(C, t) <=> Live(B, t)
  BY <1>1, <1>2 DEF Live
<1>4. \A i \in DOMAIN B.free : B.free[i] \in Slots
  BY ElementOfSeq DEF Book
<1>5. \A i \in Ids : B.map[i] # NullOrder => B.map[i] \in Slots
  BY DEF Book, SlotsOrNull
<1> QED
  BY <1>1, <1>2, <1>3, <1>4, <1>5 DEF PoolPartitionOf

\* Nothing rests in a book whose map is empty, whatever its slots hold; the
\* free list names every slot once.
LEMMA ClearedIsPartitioned ==
  ASSUME NEW C \in Book, C.map = [id \in Ids |-> NullOrder], C.free = FullFreeList
  PROVE  PoolPartitionOf(C)
<1>1. \A s \in Slots : ~Live(C, s)
  BY DEF Live, Slots
<1>2. DOMAIN FullFreeList = 1 .. MaxOrders /\ \A i \in 1 .. MaxOrders : FullFreeList[i] = MaxOrders - i
  BY DEF FullFreeList
<1>3. \A i \in 1 .. MaxOrders : MaxOrders - i \in Slots
  BY MaxOrdersAssumption DEF Slots
<1>4. \A i, j \in 1 .. MaxOrders : MaxOrders - i = MaxOrders - j => i = j
  BY MaxOrdersAssumption
<1>5. \A s \in Slots : MaxOrders - s \in 1 .. MaxOrders /\ MaxOrders - (MaxOrders - s) = s
  BY MaxOrdersAssumption DEF Slots
<1>6. \A s \in Slots : \E i \in DOMAIN C.free : C.free[i] = s
  BY <1>2, <1>5
<1>7. /\ \A i \in DOMAIN C.free : ~Live(C, C.free[i])
      /\ \A i, j \in DOMAIN C.free : C.free[i] = C.free[j] => i = j
  BY <1>1, <1>2, <1>3, <1>4
<1> QED
  BY <1>6, <1>7 DEF PoolPartitionOf

\* A new book has all slots free.
LEMMA EmptyBookIsPartitioned == PoolPartitionOf(EmptyBook)
BY EmptyBookType, ClearedIsPartitioned DEF EmptyBook

\* clear frees every slot.
LEMMA ClearKeepsPartition ==
  ASSUME NEW B \in Book
  PROVE  PoolPartitionOf(Clear(B))
BY ClearType, ClearedIsPartitioned DEF Clear, EmptyBook

\* The operations are compositions of the four above.
LEMMA AddKeepsPartition ==
  ASSUME NEW B \in Book, PoolPartitionOf(B), NEW id \in Ids, NEW sd \in Sides,
         NEW price \in Int, NEW qty \in Int, NEW mine \in BOOLEAN
  PROVE  PoolPartitionOf(Add(B, id, sd, price, qty, mine).book)
BY EnqueueKeepsPartition, InWindowIsLevel DEF Add, Result

\* remove keeps the partition.
LEMMA RemoveKeepsPartition ==
  ASSUME NEW B \in Book, PoolPartitionOf(B), NEW id \in Ids
  PROVE  PoolPartitionOf(Remove(B, id).book)
BY UnlinkKeepsPartition DEF Remove, Result

\* reduce keeps the partition.
LEMMA ReduceKeepsPartition ==
  ASSUME NEW B \in Book, PoolPartitionOf(B), NEW id \in Ids, NEW by \in Int
  PROVE  PoolPartitionOf(Reduce(B, id, by).book)
<1>1. B.map[id] # NullOrder => B.map[id] \in Slots
  BY DEF Book, SlotsOrNull
<1> QED
  BY <1>1, RemoveKeepsPartition, ShrinkKeepsPartition DEF Reduce, Result

\* replace keeps the partition, removal and entry together.
LEMMA ReplaceKeepsPartition ==
  ASSUME NEW B \in Book, PoolPartitionOf(B), NEW old \in Ids, NEW new \in Ids,
         NEW price \in Int, NEW qty \in Int
  PROVE  PoolPartitionOf(Replace(B, old, new, price, qty).book)
<1>1. CASE B.map[old] = NullOrder
  BY <1>1 DEF Replace, Result
<1>2. CASE B.map[old] # NullOrder
  <2>1. B.map[old] \in Slots
    BY <1>2 DEF Book, SlotsOrNull
  <2>2. B.pool[B.map[old]] \in Order
    BY <2>1 DEF Book
  <2>3. B.pool[B.map[old]].side \in Sides /\ B.pool[B.map[old]].mine \in BOOLEAN
    BY <2>2 DEF Order
  <2>4. Remove(B, old).book \in Book /\ PoolPartitionOf(Remove(B, old).book)
    BY RemoveType, RemoveKeepsPartition DEF IsResult
  <2> QED
    BY <1>2, <2>3, <2>4, AddKeepsPartition DEF Replace
<1> QED
  BY <1>1, <1>2

\* In every reachable state the free list and the map divide the pool between
\* them, for any pool size and any history of calls.
THEOREM PoolIsPartitioned == Spec => []PoolPartition
<1>1. Init => PoolPartition
  BY EmptyBookIsPartitioned DEF Init, PoolPartition
<1>2. TypeOK /\ PoolPartition /\ [Next]_vars => PoolPartition'
  <2> SUFFICES ASSUME TypeOK, PoolPartition, [Next]_vars PROVE PoolPartition'
    OBVIOUS
  <2> USE InputAssumption DEF TypeOK, PoolPartition, Becomes
  <2>1. ASSUME NEW id \in Ids, NEW sd \in Sides, NEW price \in Prices, NEW qty \in Qtys,
               NEW mine \in BOOLEAN, DoAdd(id, sd, price, qty, mine)
        PROVE  PoolPartition'
    BY <2>1, AddKeepsPartition DEF DoAdd
  <2>2. ASSUME NEW id \in Ids, NEW by \in Qtys, DoReduce(id, by) PROVE PoolPartition'
    BY <2>2, ReduceKeepsPartition DEF DoReduce
  <2>3. ASSUME NEW id \in Ids, NEW qty \in Qtys, DoExecute(id, qty) PROVE PoolPartition'
    BY <2>3, ReduceKeepsPartition DEF DoExecute, Execute
  <2>4. ASSUME NEW id \in Ids, DoRemove(id) PROVE PoolPartition'
    BY <2>4, RemoveKeepsPartition DEF DoRemove
  <2>5. ASSUME NEW old \in Ids, NEW new \in Ids, NEW price \in Prices, NEW qty \in Qtys,
               DoReplace(old, new, price, qty)
        PROVE  PoolPartition'
    BY <2>5, ReplaceKeepsPartition DEF DoReplace
  <2>6. CASE DoClear
    BY <2>6, ClearKeepsPartition DEF DoClear, Result
  <2>7. CASE UNCHANGED vars
    BY <2>7 DEF vars, PoolPartitionOf, Live
  <2> QED
    BY <2>1, <2>2, <2>3, <2>4, <2>5, <2>6, <2>7 DEF Next
<1> QED
  BY <1>1, <1>2, TypeCorrect, PTL DEF Spec

-----------------------------------------------------------------------------
(***************************************************************************)
(* The inductive invariant.                                                *)
(***************************************************************************)
Resting(B) == {t \in Slots : Live(B, t)}

\* s arrived before t at the same level.
InFront(B, s, t) ==
  /\ B.pool[s].side = B.pool[t].side /\ B.pool[s].level = B.pool[t].level
  /\ B.pool[s].level_seq < B.pool[t].level_seq

PlacedIn(B) ==
  \A s \in Resting(B) : B.pool[s].level \in Levels /\ B.pool[s].qty > 0

\* a[s] is the quantity in front of s: it follows the links, and whoever is
\* in front counts in full.
SumsAhead(B, a) ==
  /\ a \in [Resting(B) -> Nat]
  /\ \A s \in Resting(B) :
       a[s] = LET p == B.pool[s].prev IN IF p = NullOrder THEN 0 ELSE a[p] + B.pool[p].qty
  /\ \A s, t \in Resting(B) : InFront(B, s, t) => a[s] + B.pool[s].qty <= a[t]

TotalsAre(B, a) ==
  \A sd \in Sides, l \in Levels :
    LET q == B.levels[sd][l]
    IN q.total_qty = IF q.tail = NullOrder THEN 0 ELSE a[q.tail] + B.pool[q.tail].qty

PositionsAre(B, a) ==
  /\ \A o \in B.own :
       /\ B.map[o.id] # NullOrder
       /\ LET p == B.pool[B.map[o.id]]
          IN p.mine /\ p.level = o.level /\ p.side = o.side /\ p.level_seq = o.level_seq
       /\ o.qty_ahead = a[B.map[o.id]]
  /\ \A s \in Resting(B) : B.pool[s].mine => \E o \in B.own : o.id = B.pool[s].id

Sound(B, a) ==
  /\ PoolPartitionOf(B) /\ PlacedIn(B) /\ QueuesAreRankedIn(B)
  /\ SumsAhead(B, a) /\ TotalsAre(B, a)
  /\ TouchIsExactIn(B) /\ UncrossedIn(B) /\ PositionsAre(B, a)

-----------------------------------------------------------------------------
\* What a book's members are, field by field.
LEMMA OrderFields ==
  ASSUME NEW B \in Book
  PROVE  \A t \in Slots :
           /\ B.pool[t].qty \in Int /\ B.pool[t].level \in Int /\ B.pool[t].level_seq \in Nat
           /\ B.pool[t].side \in Sides /\ B.pool[t].mine \in BOOLEAN
           /\ B.pool[t].prev \in SlotsOrNull /\ B.pool[t].next \in SlotsOrNull
           /\ B.pool[t].id \in Ids \cup {NoId}
<1>1. \A t \in Slots : B.pool[t] \in Order
  BY DEF Book
<1> QED
  BY <1>1 DEF Order

\* What a level's members are, field by field.
LEMMA LevelFields ==
  ASSUME NEW B \in Book
  PROVE  \A sd \in Sides, l \in Levels :
           /\ B.levels[sd][l].total_qty \in Int /\ B.levels[sd][l].next_seq \in Nat
           /\ B.levels[sd][l].head \in SlotsOrNull /\ B.levels[sd][l].tail \in SlotsOrNull
<1>1. \A sd \in Sides, l \in Levels : B.levels[sd][l] \in Level
  BY DEF Book
<1> QED
  BY <1>1 DEF Level

\* Who is linked in front of a resting order rests in front of it.
LEMMA LinkedInFront ==
  ASSUME NEW B \in Book, PlacedIn(B), QueuesAreRankedIn(B), NEW s \in Resting(B),
         B.pool[s].prev # NullOrder
  PROVE  /\ B.pool[s].prev \in Resting(B)
         /\ InFront(B, B.pool[s].prev, s)
<1> DEFINE sd == B.pool[s].side
           l  == B.pool[s].level
           S  == LiveAt(B, sd, l)
<1>1. sd \in Sides /\ l \in Levels /\ s \in S
  BY OrderFields DEF PlacedIn, Resting, LiveAt
<1>2. QueueIsRanked(B, sd, l)
  BY <1>1, Zenon DEF QueuesAreRankedIn
<1>3. Adjacent(B, S, B.pool[s].prev, s)
  BY <1>1, <1>2, Zenon DEF QueueIsRanked
<1> QED
  BY <1>3 DEF Adjacent, LiveAt, Resting, InFront

\* The walk of the links finds the sums.
LEMMA WalkFindsTheSums ==
  ASSUME NEW B \in Book, NEW a, PlacedIn(B), QueuesAreRankedIn(B), SumsAhead(B, a)
  PROVE  AheadIn(B) = a
<1> DEFINE D == Resting(B)
           Walks(f) == f = [s \in D |-> IF B.pool[s].prev = NullOrder THEN 0
                                        ELSE f[B.pool[s].prev] + B.pool[B.pool[s].prev].qty]
<1>1. Walks(a)
  BY DEF SumsAhead
<1>2. AheadIn(B) = CHOOSE f : Walks(f)
  BY DEF AheadIn, Resting
<1>3. Walks(AheadIn(B))
  BY <1>1, <1>2, Zenon
<1> DEFINE f   == AheadIn(B)
           Odd == {s \in D : f[s] # a[s]}
<1>4. \A s \in D : f[s] = IF B.pool[s].prev = NullOrder THEN 0
                          ELSE f[B.pool[s].prev] + B.pool[B.pool[s].prev].qty
  <2> HIDE DEF f
  <2> QED
    BY <1>3 DEF f
<1>5. \A s \in D : a[s] = IF B.pool[s].prev = NullOrder THEN 0
                          ELSE a[B.pool[s].prev] + B.pool[B.pool[s].prev].qty
  BY DEF SumsAhead
<1> HIDE DEF f
<1>6. ASSUME NEW s \in D, B.pool[s].prev # NullOrder
      PROVE  B.pool[s].prev \in D /\ B.pool[B.pool[s].prev].level_seq < B.pool[s].level_seq
  BY <1>6, LinkedInFront DEF InFront
<1>7. \A s \in D : B.pool[s].level_seq \in Nat
  BY OrderFields DEF Resting
<1>8. Odd = {}
  <2> SUFFICES ASSUME Odd # {} PROVE FALSE
    OBVIOUS
  <2>1. PICK s \in Odd : \A t \in Odd : B.pool[s].level_seq <= B.pool[t].level_seq
    <3> DEFINE N == {B.pool[t].level_seq : t \in Odd}
    <3>1. N \in SUBSET Nat /\ N # {}
      BY <1>7
    <3>2. \E n \in N : \A m \in N : n <= m
      BY <3>1, LeastExists
    <3> QED
      BY <3>2
  <2>2. B.pool[s].prev # NullOrder
    BY <1>4, <1>5
  <2>3. B.pool[s].prev \in D /\ B.pool[s].prev \notin Odd
    BY <2>1, <2>2, <1>6, <1>7
  <2> QED
    BY <2>2, <2>3, <1>4, <1>5
<1>9. DOMAIN f = D /\ DOMAIN a = D /\ f = [s \in D |-> f[s]] /\ a = [s \in D |-> a[s]]
  <2>1. f = [s \in D |-> IF B.pool[s].prev = NullOrder THEN 0
                         ELSE f[B.pool[s].prev] + B.pool[B.pool[s].prev].qty]
    BY <1>3 DEF f
  <2>2. a \in [D -> Nat]
    BY DEF SumsAhead
  <2> QED
    BY <2>1, <2>2
<1> QED
  BY <1>8, <1>9 DEF f
-----------------------------------------------------------------------------
(***************************************************************************)
(* Doubly linked threads: a set S of items with ranks R, links P and N     *)
(* backward and forward, a head and a tail, and a bound above every rank.  *)
(***************************************************************************)
Beside(S, R, p, x) ==
  /\ p \in S /\ x \in S /\ R[p] < R[x]
  /\ \A y \in S : R[y] <= R[p] \/ R[y] >= R[x]

Threads(S, R, P, N, head, tail, bound) ==
  /\ \A x \in S : R[x] < bound
  /\ \A x, y \in S : R[x] = R[y] => x = y
  /\ S = {} => head = NullOrder /\ tail = NullOrder
  /\ S # {} => head \in S /\ tail \in S
  /\ \A x \in S : P[x] = NullOrder <=> x = head
  /\ \A x \in S : N[x] = NullOrder <=> x = tail
  /\ \A x \in S : x # head => Beside(S, R, P[x], x)
  /\ \A x \in S : x # tail => Beside(S, R, x, N[x])
  /\ \A x \in S : R[head] <= R[x] /\ R[x] <= R[tail]

\* A thread is one whatever else changes around it.
LEMMA ThreadUnchanged ==
  ASSUME NEW S, NEW R, NEW P, NEW N, NEW head, NEW tail, NEW bound,
         Threads(S, R, P, N, head, tail, bound), NEW Q, NEW O, NEW M,
         \A x \in S : Q[x] = R[x] /\ O[x] = P[x] /\ M[x] = N[x]
  PROVE  Threads(S, Q, O, M, head, tail, bound)
<1>1. ASSUME NEW p, NEW x, Beside(S, R, p, x) PROVE Beside(S, Q, p, x)
  BY <1>1 DEF Beside
<1> QED
  BY <1>1 DEF Threads

\* An item joins at the tail: the links Q, O, M and the head that result.
JoinsThread(S, R, P, N, head, tail, bound, s, Q, O, M, head2) ==
  /\ bound \in Int /\ NullOrder \notin S /\ s \notin S /\ s # NullOrder
  /\ \A x \in S : R[x] \in Int
  /\ \A x \in S : Q[x] = R[x] /\ O[x] = P[x] /\ M[x] = IF x = tail THEN s ELSE N[x]
  /\ Q[s] = bound /\ O[s] = tail /\ M[s] = NullOrder
  /\ head2 = IF tail # NullOrder THEN head ELSE s

\* A slot appended at the tail, ranked at the bound, makes a longer thread.
LEMMA ThreadJoined ==
  ASSUME NEW S, NEW R, NEW P, NEW N, NEW head, NEW tail, NEW bound,
         NEW s, NEW Q, NEW O, NEW M, NEW head2,
         Threads(S, R, P, N, head, tail, bound),
         JoinsThread(S, R, P, N, head, tail, bound, s, Q, O, M, head2)
  PROVE  Threads(S \cup {s}, Q, O, M, head2, s, bound + 1)
<1> DEFINE T == S \cup {s}
<1> USE DEF JoinsThread
<1>1. \A x \in S : /\ R[x] < bound /\ Q[x] < bound /\ Q[x] \in Int /\ x # s
                   /\ P[x] = NullOrder <=> x = head
                   /\ N[x] = NullOrder <=> x = tail
  BY DEF Threads
<1>2. \/ S = {} /\ tail = NullOrder
      \/ S # {} /\ tail \in S /\ head \in S /\ tail # NullOrder
  BY DEF Threads
<1>3. head2 \in T /\ (S # {} => head2 = head) /\ (S = {} => head2 = s)
  BY <1>2
<1>4. \A x, y \in T : Q[x] = Q[y] => x = y
  <2>1. \A x, y \in S : R[x] = R[y] => x = y
    BY DEF Threads
  <2> QED
    BY <1>1, <2>1
<1>5. ASSUME NEW p, NEW x \in S, Beside(S, R, p, x) PROVE Beside(T, Q, p, x)
  BY <1>1, <1>5 DEF Beside
<1>6. S # {} => Beside(T, Q, tail, s)
  <2>1. \A x \in S : R[x] <= R[tail]
    BY DEF Threads
  <2> QED
    BY <1>1, <1>2, <2>1 DEF Beside
<1>7. \A x \in T : x # head2 => Beside(T, Q, O[x], x)
  <2>1. \A x \in S : x # head => Beside(S, R, P[x], x)
    BY DEF Threads
  <2>2. ASSUME NEW x \in S, x # head2 PROVE Beside(T, Q, O[x], x)
    BY <2>1, <2>2, <1>3, <1>5
  <2> QED
    BY <2>2, <1>3, <1>6
<1>8. \A x \in T : x # s => Beside(T, Q, x, M[x])
  <2>1. \A x \in S : x # tail => Beside(S, R, x, N[x]) /\ N[x] \in S
    BY DEF Threads, Beside
  <2>2. ASSUME NEW x \in S PROVE Beside(T, Q, x, M[x])
    <3>1. CASE x = tail
      BY <3>1, <1>6
    <3>2. CASE x # tail
      BY <3>2, <2>1, <1>5
    <3> QED
      BY <3>1, <3>2
  <2> QED
    BY <2>2
<1>9. \A x \in T : Q[head2] <= Q[x] /\ Q[x] <= Q[s]
  <2>1. \A x \in S : R[head] <= R[x]
    BY DEF Threads
  <2> QED
    BY <1>1, <1>2, <1>3, <2>1
<1>10. \A x \in T : O[x] = NullOrder <=> x = head2
  BY <1>1, <1>2, <1>3
<1>11. \A x \in T : M[x] = NullOrder <=> x = s
  BY <1>1
<1>12. \A x \in T : Q[x] < bound + 1
  BY <1>1
<1>13. T # {} /\ s \in T
  OBVIOUS
<1> HIDE DEF T
<1> QED
  BY <1>3, <1>4, <1>7, <1>8, <1>9, <1>10, <1>11, <1>12, <1>13, Zenon DEF Threads, T

\* An item leaves: its neighbours close over it.
LeavesThread(S, R, P, N, head, tail, s, Q, O, M, head2, tail2) ==
  /\ s \in S /\ NullOrder \notin S
  /\ \A x \in S : R[x] \in Int
  /\ \A x \in S \ {s} : /\ Q[x] = R[x]
                        /\ M[x] = IF x = P[s] THEN N[s] ELSE N[x]
                        /\ O[x] = IF x = P[s] THEN P[x] ELSE IF x = N[s] THEN P[s] ELSE P[x]
  /\ head2 = IF S = {s} THEN NullOrder ELSE IF P[s] = NullOrder THEN N[s] ELSE head
  /\ tail2 = IF S = {s} THEN NullOrder ELSE IF N[s] = NullOrder THEN P[s] ELSE tail

\* Without one slot, whose neighbours are linked to each other, the rest is a thread.
LEMMA ThreadLeft ==
  ASSUME NEW S, NEW R, NEW P, NEW N, NEW head, NEW tail, NEW bound,
         NEW s, NEW Q, NEW O, NEW M, NEW head2, NEW tail2,
         Threads(S, R, P, N, head, tail, bound),
         LeavesThread(S, R, P, N, head, tail, s, Q, O, M, head2, tail2)
  PROVE  Threads(S \ {s}, Q, O, M, head2, tail2, bound)
<1> DEFINE T == S \ {s}
<1> USE DEF LeavesThread
<1>1. /\ head \in S /\ tail \in S
      /\ \A x \in S : R[x] < bound /\ R[head] <= R[x] /\ R[x] <= R[tail]
      /\ \A x \in S : P[x] = NullOrder <=> x = head
      /\ \A x \in S : N[x] = NullOrder <=> x = tail
  BY DEF Threads
<1>2. \A x, y \in S : R[x] = R[y] => x = y
  BY DEF Threads
<1>3. \A x \in S : x # head => P[x] \in S /\ Beside(S, R, P[x], x)
  BY DEF Threads, Beside
<1>4. \A x \in S : x # tail => N[x] \in S /\ Beside(S, R, x, N[x])
  BY DEF Threads, Beside
<1>5. ASSUME NEW p \in S, NEW q \in S, NEW x \in S, Beside(S, R, p, x), Beside(S, R, q, x)
      PROVE  p = q
  BY <1>2, <1>5 DEF Beside
<1>6. ASSUME NEW p \in S, NEW q \in S, NEW x \in S, Beside(S, R, x, p), Beside(S, R, x, q)
      PROVE  p = q
  BY <1>2, <1>6 DEF Beside
\* The links agree: s is who its neighbours point to, and nobody else does.
<1>7. \A x \in S : x # head /\ P[x] = s => s # tail /\ x = N[s]
  <2> SUFFICES ASSUME NEW x \in S, x # head, P[x] = s PROVE s # tail /\ x = N[s]
    OBVIOUS
  <2>1. Beside(S, R, s, x)
    BY <1>3
  <2>2. s # tail
    BY <2>1, <1>1 DEF Beside
  <2> QED
    BY <2>1, <2>2, <1>4, <1>6
<1>8. \A x \in S : x # tail /\ N[x] = s => s # head /\ x = P[s]
  <2> SUFFICES ASSUME NEW x \in S, x # tail, N[x] = s PROVE s # head /\ x = P[s]
    OBVIOUS
  <2>1. Beside(S, R, x, s)
    BY <1>4
  <2>2. s # head
    BY <2>1, <1>1 DEF Beside
  <2> QED
    BY <2>1, <2>2, <1>3, <1>5
<1>9. s # tail => N[s] \in T /\ N[s] # head
  BY <1>1, <1>4 DEF Beside
<1>10. s # head => P[s] \in T /\ P[s] # tail
  BY <1>1, <1>3 DEF Beside
<1>11. s # head /\ s # tail => P[s] # N[s]
  BY <1>3, <1>4 DEF Beside
<1>12. \A x \in T : /\ O[x] = IF x = N[s] THEN P[s] ELSE P[x]
                    /\ M[x] = IF x = P[s] THEN N[s] ELSE N[x]
                    /\ Q[x] = R[x] /\ Q[x] \in Int
  <2>1. \A x \in T : x = P[s] => x # N[s]
    BY <1>1, <1>11
  <2> QED
    BY <2>1
<1>13. S = {s} <=> s = head /\ s = tail
  <2>1. s = head /\ s = tail => \A x \in S : x = s
    BY <1>1, <1>2
  <2> QED
    BY <1>1, <2>1
<1>14. /\ S = {s} => head2 = NullOrder /\ tail2 = NullOrder
       /\ S # {s} /\ s = head => head2 = N[s] /\ s # tail
       /\ s # head => head2 = head
       /\ S # {s} /\ s = tail => tail2 = P[s] /\ s # head
       /\ s # tail => tail2 = tail
  BY <1>1, <1>13
<1>15. T # {} => head2 \in T /\ tail2 \in T
  BY <1>1, <1>9, <1>10, <1>13, <1>14
<1>16. ASSUME NEW p \in T, NEW x \in T, Beside(S, R, p, x) PROVE Beside(T, Q, p, x)
  BY <1>12, <1>16 DEF Beside
<1>17. s # head /\ s # tail => Beside(T, Q, P[s], N[s])
  <2> SUFFICES ASSUME s # head, s # tail PROVE Beside(T, Q, P[s], N[s])
    OBVIOUS
  <2>1. Beside(S, R, P[s], s) /\ Beside(S, R, s, N[s]) /\ P[s] \in T /\ N[s] \in T
    BY <1>3, <1>4, <1>9, <1>10
  <2>2. \A y \in T : R[y] # R[s]
    BY <1>2
  <2>3. R[P[s]] < R[N[s]] /\ \A y \in T : R[y] <= R[P[s]] \/ R[y] >= R[N[s]]
    BY <2>1, <2>2 DEF Beside
  <2> QED
    BY <2>1, <2>3, <1>12 DEF Beside
<1>18. \A x \in T : x # head2 => Beside(T, Q, O[x], x)
  <2> SUFFICES ASSUME NEW x \in T, x # head2 PROVE Beside(T, Q, O[x], x)
    OBVIOUS
  <2>1. CASE x = N[s]
    <3>1. s # tail /\ s # head
      BY <2>1, <1>1, <1>13, <1>14
    <3> QED
      BY <2>1, <3>1, <1>12, <1>17
  <2>2. CASE x # N[s]
    <3>1. x # head
      BY <2>2, <1>13, <1>14
    <3>2. P[x] \in T /\ Beside(S, R, P[x], x)
      BY <2>2, <3>1, <1>3, <1>7
    <3> QED
      BY <2>2, <3>2, <1>12, <1>16
  <2> QED
    BY <2>1, <2>2
<1>19. \A x \in T : x # tail2 => Beside(T, Q, x, M[x])
  <2> SUFFICES ASSUME NEW x \in T, x # tail2 PROVE Beside(T, Q, x, M[x])
    OBVIOUS
  <2>1. CASE x = P[s]
    <3>1. s # tail /\ s # head
      BY <2>1, <1>1, <1>13, <1>14
    <3> QED
      BY <2>1, <3>1, <1>12, <1>17
  <2>2. CASE x # P[s]
    <3>1. x # tail
      BY <2>2, <1>13, <1>14
    <3>2. N[x] \in T /\ Beside(S, R, x, N[x])
      BY <2>2, <3>1, <1>4, <1>8
    <3> QED
      BY <2>2, <3>2, <1>12, <1>16
  <2> QED
    BY <2>1, <2>2
<1>20. \A x \in T : O[x] = NullOrder <=> x = head2
  <2> SUFFICES ASSUME NEW x \in T PROVE O[x] = NullOrder <=> x = head2
    OBVIOUS
  <2>1. CASE x = N[s]
    <3>1. s # tail /\ x # head
      BY <2>1, <1>1, <1>9
    <3>2. CASE s = head
      BY <2>1, <3>1, <3>2, <1>1, <1>12, <1>13, <1>14
    <3>3. CASE s # head
      BY <2>1, <3>1, <3>3, <1>1, <1>12, <1>14
    <3> QED
      BY <3>2, <3>3
  <2>2. CASE x # N[s]
    BY <2>2, <1>1, <1>12, <1>13, <1>14
  <2> QED
    BY <2>1, <2>2
<1>21. \A x \in T : M[x] = NullOrder <=> x = tail2
  <2> SUFFICES ASSUME NEW x \in T PROVE M[x] = NullOrder <=> x = tail2
    OBVIOUS
  <2>1. CASE x = P[s]
    <3>1. s # head /\ x # tail
      BY <2>1, <1>1, <1>10
    <3>2. CASE s = tail
      BY <2>1, <3>1, <3>2, <1>1, <1>12, <1>13, <1>14
    <3>3. CASE s # tail
      BY <2>1, <3>1, <3>3, <1>1, <1>12, <1>14
    <3> QED
      BY <3>2, <3>3
  <2>2. CASE x # P[s]
    BY <2>2, <1>1, <1>12, <1>13, <1>14
  <2> QED
    BY <2>1, <2>2
<1>22. \A x \in T : Q[head2] <= Q[x] /\ Q[x] <= Q[tail2]
  <2> SUFFICES ASSUME NEW x \in T PROVE R[head2] <= R[x] /\ R[x] <= R[tail2]
    BY <1>12, <1>15
  <2>1. R[x] # R[s] /\ S # {s}
    BY <1>2
  <2>2. R[head2] <= R[x]
    <3>1. CASE s = head
      <4>1. Beside(S, R, s, head2) /\ R[s] <= R[x]
        BY <2>1, <3>1, <1>1, <1>4, <1>14
      <4> QED
        BY <2>1, <4>1 DEF Beside
    <3>2. CASE s # head
      BY <3>2, <1>1, <1>14
    <3> QED
      BY <3>1, <3>2
  <2>3. R[x] <= R[tail2]
    <3>1. CASE s = tail
      <4>1. Beside(S, R, tail2, s) /\ R[x] <= R[s]
        BY <2>1, <3>1, <1>1, <1>3, <1>14
      <4> QED
        BY <2>1, <4>1 DEF Beside
    <3>2. CASE s # tail
      BY <3>2, <1>1, <1>14
    <3> QED
      BY <3>1, <3>2
  <2> QED
    BY <2>2, <2>3
<1>23. /\ \A x \in T : Q[x] < bound
       /\ \A x, y \in T : Q[x] = Q[y] => x = y
       /\ T = {} => head2 = NullOrder /\ tail2 = NullOrder
  BY <1>1, <1>2, <1>12, <1>14
<1> HIDE DEF T
<1> QED
  BY <1>15, <1>18, <1>19, <1>20, <1>21, <1>22, <1>23, Zenon DEF Threads, T

\* Behind s comes first the item linked to it, then the others.
LEMMA ThreadBehind ==
  ASSUME NEW S, NEW R, NEW P, NEW N, NEW head, NEW tail, NEW bound,
         Threads(S, R, P, N, head, tail, bound), \A x \in S : R[x] \in Int, NullOrder \notin S,
         NEW s \in S, NEW x \in S, R[s] < R[x]
  PROVE  /\ P[x] \in S /\ P[x] # NullOrder /\ R[P[x]] < R[x]
         /\ x = N[s] => P[x] = s
         /\ x # N[s] => P[x] # s /\ R[s] < R[P[x]]
<1>1. x # head /\ s # tail
  BY DEF Threads
<1>2. P[x] # NullOrder /\ Beside(S, R, P[x], x)
  BY <1>1 DEF Threads
<1>3. Beside(S, R, s, N[s])
  BY <1>1 DEF Threads
<1>4. \A y, z \in S : R[y] = R[z] => y = z
  BY DEF Threads
<1>5. R[P[x]] = R[s] \/ R[s] < R[P[x]]
  BY <1>2 DEF Beside
<1>6. P[x] = s <=> x = N[s]
  BY <1>2, <1>3, <1>4 DEF Beside
<1> QED
  BY <1>2, <1>4, <1>5, <1>6 DEF Beside

Ranks(B) == [t \in Slots |-> B.pool[t].level_seq]
Prevs(B) == [t \in Slots |-> B.pool[t].prev]
Nexts(B) == [t \in Slots |-> B.pool[t].next]

\* A level's queue is ranked when its links thread its orders.
LEMMA RankedQueueIsThread ==
  ASSUME NEW B \in Book, NEW sd \in Sides, NEW l \in Levels
  PROVE  QueueIsRanked(B, sd, l)
           <=> Threads(LiveAt(B, sd, l), Ranks(B), Prevs(B), Nexts(B), B.levels[sd][l].head,
                       B.levels[sd][l].tail, B.levels[sd][l].next_seq)
<1> DEFINE S == LiveAt(B, sd, l)
           R == Ranks(B)
           q == B.levels[sd][l]
<1>1. \A s \in S : /\ s \in Slots
                   /\ R[s] = B.pool[s].level_seq /\ Prevs(B)[s] = B.pool[s].prev
                   /\ Nexts(B)[s] = B.pool[s].next
  BY DEF LiveAt, Ranks, Prevs, Nexts
<1>2. ASSUME NEW p, NEW s PROVE Adjacent(B, S, p, s) <=> Beside(S, R, p, s)
  <2> HIDE DEF S, R
  <2> QED
    BY <1>1 DEF Adjacent, Beside
<1> HIDE DEF S, R, q
<1>3. ASSUME S # {} => q.head \in S /\ q.tail \in S
      PROVE  \A s \in S : /\ B.pool[q.head].level_seq = R[q.head]
                          /\ B.pool[q.tail].level_seq = R[q.tail]
  BY <1>1, <1>3
<1>4. QueueIsRanked(B, sd, l) <=>
        /\ \A s \in S : R[s] < q.next_seq
        /\ \A s, t \in S : R[s] = R[t] => s = t
        /\ S = {} => q.head = NullOrder /\ q.tail = NullOrder
        /\ S # {} => q.head \in S /\ q.tail \in S
        /\ \A s \in S : /\ Prevs(B)[s] = NullOrder <=> s = q.head
                        /\ Nexts(B)[s] = NullOrder <=> s = q.tail
                        /\ s # q.head => Beside(S, R, Prevs(B)[s], s)
                        /\ s # q.tail => Beside(S, R, s, Nexts(B)[s])
                        /\ R[q.head] <= R[s] /\ R[s] <= R[q.tail]
  BY <1>1, <1>2, <1>3 DEF QueueIsRanked, S, q
<1> QED
  BY <1>4 DEF Threads, S, q, R

-----------------------------------------------------------------------------
(***************************************************************************)
(* An order joins a queue.                                                 *)
(***************************************************************************)
\* C is B after an order has joined level l of side sd in slot s.
Joins(B, C, s, id, sd, l, qty, mine) ==
  /\ s \in Slots /\ ~Live(B, s)
  /\ \A t \in Slots : Live(C, t) <=> t = s \/ Live(B, t)
  /\ \A t \in Slots : t # s =>
       /\ C.pool[t].id = B.pool[t].id /\ C.pool[t].qty = B.pool[t].qty
       /\ C.pool[t].level = B.pool[t].level /\ C.pool[t].side = B.pool[t].side
       /\ C.pool[t].mine = B.pool[t].mine /\ C.pool[t].prev = B.pool[t].prev
       /\ C.pool[t].level_seq = B.pool[t].level_seq
       /\ C.pool[t].next = IF t = B.levels[sd][l].tail THEN s ELSE B.pool[t].next
  /\ C.pool[s].id = id /\ C.pool[s].qty = qty /\ C.pool[s].level = l
  /\ C.pool[s].side = sd /\ C.pool[s].mine = mine
  /\ C.pool[s].prev = B.levels[sd][l].tail /\ C.pool[s].next = NullOrder
  /\ C.pool[s].level_seq = B.levels[sd][l].next_seq
  /\ \A k \in Sides, m \in Levels : <<k, m>> # <<sd, l>> => C.levels[k][m] = B.levels[k][m]
  /\ C.levels[sd][l].total_qty = B.levels[sd][l].total_qty + qty
  /\ C.levels[sd][l].head = IF B.levels[sd][l].tail # NullOrder THEN B.levels[sd][l].head ELSE s
  /\ C.levels[sd][l].tail = s
  /\ C.levels[sd][l].next_seq = B.levels[sd][l].next_seq + 1
  /\ \A i \in Ids : C.map[i] = IF i = id THEN s ELSE B.map[i]

\* Enqueue is such a join.
LEMMA EnqueueJoins ==
  ASSUME NEW B \in Book, PoolPartitionOf(B), NEW id \in Ids, NEW sd \in Sides,
         NEW l \in Levels, NEW qty \in Int, NEW mine \in BOOLEAN,
         B.free # <<>>, B.map[id] = NullOrder
  PROVE  Joins(B, Enqueue(B, id, sd, l, qty, mine), NextSlot(B), id, sd, l, qty, mine)
<1> DEFINE s  == NextSlot(B)
           lv == B.levels[sd][l]
           C  == Enqueue(B, id, sd, l, qty, mine)
<1>1. s \in Slots /\ ~Live(B, s)
  <2>1. B.free \in Seq(Slots) /\ Len(B.free) \in Nat \ {0} /\ s \in Slots
    BY NextSlotIsFree DEF Book
  <2> QED
    BY <2>1 DEF NextSlot, PoolPartitionOf
<1>2. C.pool = [t \in Slots |->
                  IF t = s THEN [id |-> id, qty |-> qty, level |-> l, side |-> sd, mine |-> mine,
                                 prev |-> lv.tail, next |-> NullOrder, level_seq |-> lv.next_seq]
                  ELSE IF t = lv.tail THEN [B.pool[t] EXCEPT !.next = s] ELSE B.pool[t]]
  BY DEF Enqueue, NextRank
<1>3. \A t \in Slots : t # s =>
        /\ C.pool[t].id = B.pool[t].id /\ C.pool[t].qty = B.pool[t].qty
        /\ C.pool[t].level = B.pool[t].level /\ C.pool[t].side = B.pool[t].side
        /\ C.pool[t].mine = B.pool[t].mine /\ C.pool[t].prev = B.pool[t].prev
        /\ C.pool[t].level_seq = B.pool[t].level_seq
        /\ C.pool[t].next = IF t = lv.tail THEN s ELSE B.pool[t].next
  <2>1. \A t \in Slots : B.pool[t] \in Order
    BY DEF Book
  <2>2. ASSUME NEW p \in Order, NEW n
        PROVE  LET q == [p EXCEPT !.next = n]
               IN /\ q.id = p.id /\ q.qty = p.qty /\ q.level = p.level /\ q.side = p.side
                  /\ q.mine = p.mine /\ q.prev = p.prev /\ q.level_seq = p.level_seq
                  /\ q.next = n
    BY Zenon DEF Order
  <2> HIDE DEF C, s, lv
  <2> QED
    BY <1>2, <2>1, <2>2
<1>4. /\ C.pool[s].id = id /\ C.pool[s].qty = qty /\ C.pool[s].level = l
      /\ C.pool[s].side = sd /\ C.pool[s].mine = mine
      /\ C.pool[s].prev = lv.tail /\ C.pool[s].next = NullOrder
      /\ C.pool[s].level_seq = lv.next_seq
  <2> HIDE DEF C, s, lv
  <2>1. C.pool[s] = [id |-> id, qty |-> qty, level |-> l, side |-> sd, mine |-> mine,
                     prev |-> lv.tail, next |-> NullOrder, level_seq |-> lv.next_seq]
    BY <1>1, <1>2
  <2> QED
    BY <2>1
<1>5. /\ \A k \in Sides, m \in Levels : <<k, m>> # <<sd, l>> => C.levels[k][m] = B.levels[k][m]
      /\ C.levels[sd][l] = [total_qty |-> lv.total_qty + qty,
                            head |-> IF lv.tail # NullOrder THEN lv.head ELSE s,
                            tail |-> s, count |-> lv.count + 1, next_seq |-> lv.next_seq + 1]
  BY DEF Enqueue, Book
<1>6. \A i \in Ids : C.map[i] = IF i = id THEN s ELSE B.map[i]
  BY DEF Enqueue, Book
<1>7. \A t \in Slots : Live(C, t) <=> t = s \/ Live(B, t)
  <2> SUFFICES ASSUME NEW t \in Slots PROVE Live(C, t) <=> t = s \/ Live(B, t)
    OBVIOUS
  <2> HIDE DEF C, s, lv
  <2>1. CASE t = s
    BY <2>1, <1>4, <1>6 DEF Live
  <2>2. CASE t # s
    <3>1. C.pool[t].id = B.pool[t].id
      BY <2>2, <1>3
    <3>2. CASE B.pool[t].id = id
      <4>1. C.map[id] = s /\ B.map[id] # t
        BY <1>6 DEF Slots
      <4> QED
        BY <2>2, <3>1, <3>2, <4>1 DEF Live
    <3>3. CASE B.pool[t].id # id
      BY <2>2, <3>1, <3>3, <1>6 DEF Live
    <3> QED
      BY <3>2, <3>3
  <2> QED
    BY <2>1, <2>2
<1>8. /\ C.levels[sd][l].total_qty = lv.total_qty + qty
      /\ C.levels[sd][l].head = IF lv.tail # NullOrder THEN lv.head ELSE s
      /\ C.levels[sd][l].tail = s
      /\ C.levels[sd][l].next_seq = lv.next_seq + 1
  <2> HIDE DEF C, s, lv
  <2> QED
    BY <1>5
<1>9. Joins(B, C, s, id, sd, l, qty, mine)
  <2> HIDE DEF C, s
  <2> QED
    BY <1>1, <1>3, <1>4, <1>5, <1>6, <1>7, <1>8, Zenon DEF Joins
<1> QED
  BY <1>9

\* A level's total is zero when nothing rests there, and covers whatever does.
LEMMA TotalCoversTheLevel ==
  ASSUME NEW B \in Book, NEW a, PlacedIn(B), QueuesAreRankedIn(B), SumsAhead(B, a),
         TotalsAre(B, a), NEW sd \in Sides, NEW l \in Levels
  PROVE  /\ B.levels[sd][l].total_qty \in Nat
         /\ B.levels[sd][l].total_qty = 0 <=> LiveAt(B, sd, l) = {}
         /\ B.levels[sd][l].tail = NullOrder <=> LiveAt(B, sd, l) = {}
         /\ \A s \in LiveAt(B, sd, l) : a[s] + B.pool[s].qty <= B.levels[sd][l].total_qty
<1> DEFINE q == B.levels[sd][l]
           S == LiveAt(B, sd, l)
<1>1. /\ S = {} => q.tail = NullOrder
      /\ S # {} => q.tail \in S
      /\ \A s, t \in S : B.pool[s].level_seq = B.pool[t].level_seq => s = t
      /\ \A s \in S : B.pool[s].level_seq <= B.pool[q.tail].level_seq
  <2>1. QueueIsRanked(B, sd, l)
    BY DEF QueuesAreRankedIn
  <2> HIDE DEF S, q
  <2> QED
    BY <2>1 DEF QueueIsRanked, S, q
<1>2. \A s \in S : /\ s \in Resting(B) /\ B.pool[s].side = sd /\ B.pool[s].level = l
                   /\ B.pool[s].qty \in Int /\ B.pool[s].qty > 0 /\ B.pool[s].level_seq \in Nat
                   /\ a[s] \in Nat
  BY OrderFields DEF LiveAt, Resting, PlacedIn, SumsAhead
<1>3. CASE S = {}
  <2>1. q.tail = NullOrder
    BY <1>1, <1>3
  <2>2. q.total_qty = 0
    BY <2>1 DEF TotalsAre
  <2> QED
    BY <1>3, <2>1, <2>2
<1>4. CASE S # {}
  <2>1. q.tail \in S /\ q.tail # NullOrder
    <3>1. q.tail \in S
      BY <1>1, <1>4
    <3> QED
      BY <3>1 DEF LiveAt, Slots
  <2>2. q.total_qty = a[q.tail] + B.pool[q.tail].qty
    BY <2>1 DEF TotalsAre
  <2>3. ASSUME NEW s \in S PROVE a[s] + B.pool[s].qty <= q.total_qty
    <3>1. B.pool[s].level_seq <= B.pool[q.tail].level_seq
      BY <1>1
    <3>2. CASE s = q.tail
      BY <3>2, <1>2, <2>1, <2>2
    <3>3. CASE s # q.tail
      <4>1. B.pool[s].level_seq # B.pool[q.tail].level_seq
        BY <1>1, <2>1, <3>3
      <4>2. InFront(B, s, q.tail)
        BY <1>2, <2>1, <3>1, <4>1 DEF InFront
      <4>3. a[s] + B.pool[s].qty <= a[q.tail]
        BY <1>2, <2>1, <4>2 DEF SumsAhead
      <4> QED
        BY <1>2, <2>1, <2>2, <4>3
    <3> QED
      BY <3>2, <3>3
  <2>4. q.total_qty \in Nat /\ q.total_qty # 0
    BY <1>2, <2>1, <2>2
  <2> QED
    BY <1>4, <2>1, <2>3, <2>4
<1> QED
  BY <1>3, <1>4

\* The slots at a level after the join.
LEMMA JoinedLevel ==
  ASSUME NEW B, NEW C, NEW s, NEW id, NEW sd, NEW l, NEW qty, NEW mine,
         Joins(B, C, s, id, sd, l, qty, mine)
  PROVE  \A k \in Sides, m \in Levels :
           LiveAt(C, k, m) = IF k = sd /\ m = l THEN LiveAt(B, k, m) \cup {s}
                             ELSE LiveAt(B, k, m)
<1>1. \A t \in Slots : t # s =>
        (Live(C, t) <=> Live(B, t)) /\ C.pool[t].side = B.pool[t].side
          /\ C.pool[t].level = B.pool[t].level
  BY Zenon DEF Joins
<1>2. s \in Slots /\ ~Live(B, s) /\ Live(C, s) /\ C.pool[s].side = sd /\ C.pool[s].level = l
  BY Zenon DEF Joins
<1> QED
  BY <1>1, <1>2 DEF LiveAt

\* A join keeps every queue linked in the order of arrival.
LEMMA JoinKeepsQueues ==
  ASSUME NEW B \in Book, NEW C \in Book, NEW s, NEW id \in Ids, NEW sd \in Sides,
         NEW l \in Levels, NEW qty \in Int, NEW mine \in BOOLEAN,
         Joins(B, C, s, id, sd, l, qty, mine), QueuesAreRankedIn(B)
  PROVE  QueuesAreRankedIn(C)
<1> SUFFICES ASSUME NEW k \in Sides, NEW m \in Levels PROVE QueueIsRanked(C, k, m)
  BY DEF QueuesAreRankedIn
<1> DEFINE S == LiveAt(B, k, m)
           p == B.levels[k][m]
           q == C.levels[k][m]
<1>1. QueueIsRanked(B, k, m)
  BY DEF QueuesAreRankedIn
<1>2. Threads(S, Ranks(B), Prevs(B), Nexts(B), p.head, p.tail, p.next_seq)
  BY <1>1, RankedQueueIsThread
<1>3. \A t \in S : t \in Slots /\ t # s /\ Ranks(B)[t] \in Int
  BY OrderFields DEF Joins, LiveAt, Ranks
<1>4. s \in Slots /\ s # NullOrder /\ p.next_seq \in Int /\ s \notin S /\ NullOrder \notin S
  BY LevelFields DEF Joins, Slots, LiveAt
<1>5. \A t \in S : /\ Ranks(C)[t] = Ranks(B)[t] /\ Prevs(C)[t] = Prevs(B)[t]
                   /\ Nexts(C)[t] = IF t = B.levels[sd][l].tail THEN s ELSE Nexts(B)[t]
  <2>1. \A t \in S : /\ C.pool[t].prev = B.pool[t].prev /\ C.pool[t].level_seq = B.pool[t].level_seq
                     /\ C.pool[t].next = IF t = B.levels[sd][l].tail THEN s ELSE B.pool[t].next
    BY <1>3, ZenonT(40) DEF Joins
  <2> QED
    BY <1>3, <2>1 DEF Ranks, Prevs, Nexts
<1>6. CASE <<k, m>> # <<sd, l>>
  <2>1. LiveAt(C, k, m) = S /\ q = p
    <3>1. \A d \in Sides, i \in Levels :
            LiveAt(C, d, i) = IF d = sd /\ i = l THEN LiveAt(B, d, i) \cup {s} ELSE LiveAt(B, d, i)
      BY JoinedLevel
    <3>2. q = p
      BY <1>6, ZenonT(40) DEF Joins
    <3> QED
      BY <1>6, <3>1, <3>2
  <2>2. \A t \in S : t # B.levels[sd][l].tail
    <3>1. QueueIsRanked(B, sd, l)
      BY DEF QueuesAreRankedIn
    <3>2. B.levels[sd][l].tail \in LiveAt(B, sd, l) \/ B.levels[sd][l].tail = NullOrder
      BY <3>1 DEF QueueIsRanked
    <3> QED
      BY <1>6, <3>2 DEF LiveAt, Slots
  <2>3. Threads(S, Ranks(C), Prevs(C), Nexts(C), p.head, p.tail, p.next_seq)
    BY <1>2, <1>5, <2>2, ThreadUnchanged
  <2> QED
    BY <2>1, <2>3, RankedQueueIsThread
<1>7. CASE <<k, m>> = <<sd, l>>
  <2>1. LiveAt(C, k, m) = S \cup {s}
    BY <1>7, JoinedLevel
  <2>2. /\ q.head = IF p.tail # NullOrder THEN p.head ELSE s
        /\ q.tail = s /\ q.next_seq = p.next_seq + 1
    BY <1>7 DEF Joins
  <2>3. C.pool[s].prev = p.tail /\ C.pool[s].next = NullOrder /\ C.pool[s].level_seq = p.next_seq
    BY <1>7 DEF Joins
  <2>4. Prevs(C)[s] = p.tail /\ Nexts(C)[s] = NullOrder /\ Ranks(C)[s] = p.next_seq
    BY <1>4, <2>3 DEF Ranks, Prevs, Nexts
  <2>5. \A t \in S : /\ Ranks(C)[t] = Ranks(B)[t] /\ Prevs(C)[t] = Prevs(B)[t]
                     /\ Nexts(C)[t] = IF t = p.tail THEN s ELSE Nexts(B)[t]
    BY <1>5, <1>7
  <2>6. JoinsThread(S, Ranks(B), Prevs(B), Nexts(B), p.head, p.tail, p.next_seq, s,
                    Ranks(C), Prevs(C), Nexts(C), q.head)
    <3> HIDE DEF S, p, q
    <3> QED
      BY <1>3, <1>4, <2>2, <2>4, <2>5 DEF JoinsThread
  <2>7. Threads(S \cup {s}, Ranks(C), Prevs(C), Nexts(C), q.head, s, p.next_seq + 1)
    <3> HIDE DEF S, p, q
    <3> QED
      BY <1>2, <2>6, ThreadJoined
  <2> QED
    BY <2>1, <2>2, <2>7, RankedQueueIsThread
<1> QED
  BY <1>6, <1>7

\* The newcomer has the whole level in front of it; nobody else moves.
JoinedAhead(B, C, a, s, sd, l) ==
  [t \in Resting(C) |-> IF t = s THEN B.levels[sd][l].total_qty ELSE a[t]]

\* A join keeps the sums ahead and the totals.
LEMMA JoinKeepsSums ==
  ASSUME NEW B \in Book, NEW C \in Book, NEW s, NEW id \in Ids, NEW sd \in Sides,
         NEW l \in Levels, NEW qty \in Int, NEW mine \in BOOLEAN, NEW a,
         Joins(B, C, s, id, sd, l, qty, mine), qty > 0,
         PlacedIn(B), QueuesAreRankedIn(B), SumsAhead(B, a), TotalsAre(B, a)
  PROVE  LET b == JoinedAhead(B, C, a, s, sd, l)
         IN PlacedIn(C) /\ SumsAhead(C, b) /\ TotalsAre(C, b)
<1> DEFINE b == JoinedAhead(B, C, a, s, sd, l)
           total == B.levels[sd][l].total_qty
           tail == B.levels[sd][l].tail
<1>1. s \in Resting(C) /\ s \notin Resting(B) /\ Resting(C) = Resting(B) \cup {s}
  BY ZenonT(40) DEF Joins, Resting
<1>2. \A t \in Resting(B) :
        /\ t \in Resting(C) /\ t # s /\ b[t] = a[t] /\ C.pool[t].qty = B.pool[t].qty
        /\ C.pool[t].prev = B.pool[t].prev /\ C.pool[t].level_seq = B.pool[t].level_seq
        /\ C.pool[t].side = B.pool[t].side /\ C.pool[t].level = B.pool[t].level
  <2>1. \A t \in Resting(B) : t \in Slots /\ t # s /\ t \in Resting(C)
    BY <1>1 DEF Resting
  <2> QED
    BY <2>1 DEF Joins, JoinedAhead
<1>3. /\ b[s] = total /\ C.pool[s].prev = tail /\ C.pool[s].level_seq = B.levels[sd][l].next_seq
      /\ C.pool[s].side = sd /\ C.pool[s].level = l /\ C.pool[s].qty = qty /\ s # NullOrder
  BY <1>1 DEF Joins, JoinedAhead, Slots
<1>4. \A t \in Resting(B) : /\ B.pool[t].qty \in Nat /\ B.pool[t].qty > 0 /\ a[t] \in Nat
                            /\ B.pool[t].level \in Levels /\ B.pool[t].side \in Sides
                            /\ B.pool[t].level_seq \in Nat
  BY OrderFields DEF PlacedIn, SumsAhead, Resting
<1>5. /\ total \in Nat /\ B.levels[sd][l].next_seq \in Nat
      /\ \A t \in LiveAt(B, sd, l) : a[t] + B.pool[t].qty <= total
  BY TotalCoversTheLevel, LevelFields
<1>6. \A t \in LiveAt(B, sd, l) : B.pool[t].level_seq < B.levels[sd][l].next_seq
  <2>1. QueueIsRanked(B, sd, l)
    BY DEF QueuesAreRankedIn
  <2> QED
    BY <2>1 DEF QueueIsRanked
<1>7. \A k \in Sides, m \in Levels :
        B.levels[k][m].tail # NullOrder => B.levels[k][m].tail \in LiveAt(B, k, m)
  <2>1. \A k \in Sides, m \in Levels : QueueIsRanked(B, k, m)
    BY DEF QueuesAreRankedIn
  <2> QED
    BY <2>1 DEF QueueIsRanked
<1>8. \A t, k, m : t \in LiveAt(B, k, m) <=>
        t \in Resting(B) /\ B.pool[t].side = k /\ B.pool[t].level = m
  BY DEF LiveAt, Resting
<1>9. total = IF tail = NullOrder THEN 0 ELSE a[tail] + B.pool[tail].qty
  BY DEF TotalsAre
<1> HIDE DEF b, total, tail
<1>10. PlacedIn(C)
  BY <1>1, <1>2, <1>3, <1>4 DEF PlacedIn
<1>11. SumsAhead(C, b)
  <2>1. b \in [Resting(C) -> Nat]
    <3>1. \A t \in Resting(C) : b[t] \in Nat
      BY <1>1, <1>2, <1>3, <1>4, <1>5
    <3>2. b = [t \in Resting(C) |-> b[t]]
      BY DEF b, JoinedAhead
    <3> QED
      BY <3>1, <3>2
  <2>2. ASSUME NEW t \in Resting(C)
        PROVE  b[t] = LET p == C.pool[t].prev IN IF p = NullOrder THEN 0 ELSE b[p] + C.pool[p].qty
    <3>1. CASE t = s
      <4>1. tail # NullOrder => b[tail] = a[tail] /\ C.pool[tail].qty = B.pool[tail].qty
        BY <1>2, <1>7, <1>8 DEF tail
      <4> QED
        BY <3>1, <4>1, <1>3, <1>9
    <3>2. CASE t # s
      <4>1. t \in Resting(B)
        BY <3>2, <1>1
      <4>2. B.pool[t].prev # NullOrder => B.pool[t].prev \in Resting(B)
        BY <4>1, LinkedInFront
      <4>3. a[t] = IF B.pool[t].prev = NullOrder THEN 0
                   ELSE a[B.pool[t].prev] + B.pool[B.pool[t].prev].qty
        BY <4>1 DEF SumsAhead
      <4> QED
        BY <4>1, <4>2, <4>3, <1>2
    <3> QED
      BY <3>1, <3>2
  <2>3. ASSUME NEW x \in Resting(C), NEW y \in Resting(C), InFront(C, x, y)
        PROVE  b[x] + C.pool[x].qty <= b[y]
    <3>1. CASE x # s /\ y # s
      <4>1. x \in Resting(B) /\ y \in Resting(B)
        BY <3>1, <1>1
      <4>2. InFront(B, x, y)
        BY <2>3, <4>1, <1>2 DEF InFront
      <4>3. a[x] + B.pool[x].qty <= a[y]
        BY <4>1, <4>2 DEF SumsAhead
      <4> QED
        BY <4>1, <4>3, <1>2
    <3>2. CASE x # s /\ y = s
      <4>1. x \in LiveAt(B, sd, l)
        BY <2>3, <3>2, <1>1, <1>2, <1>3, <1>8 DEF InFront
      <4> QED
        BY <3>2, <4>1, <1>2, <1>3, <1>5, <1>8
    <3>3. CASE x = s
      <4>1. y # s
        BY <2>3, <3>3, <1>3, <1>5 DEF InFront
      <4>2. y \in LiveAt(B, sd, l)
        BY <2>3, <3>3, <4>1, <1>1, <1>2, <1>3, <1>8 DEF InFront
      <4>3. B.pool[y].level_seq < B.levels[sd][l].next_seq
        BY <4>2, <1>6
      <4> QED
        BY <2>3, <3>3, <4>2, <4>3, <1>2, <1>3, <1>4, <1>5, <1>8 DEF InFront
    <3> QED
      BY <3>1, <3>2, <3>3
  <2> QED
    BY <2>1, <2>2, <2>3 DEF SumsAhead
<1>12. TotalsAre(C, b)
  <2> SUFFICES ASSUME NEW k \in Sides, NEW m \in Levels
               PROVE  C.levels[k][m].total_qty =
                        IF C.levels[k][m].tail = NullOrder THEN 0
                        ELSE b[C.levels[k][m].tail] + C.pool[C.levels[k][m].tail].qty
    BY DEF TotalsAre
  <2>1. CASE <<k, m>> = <<sd, l>>
    <3>1. k = sd /\ m = l
      BY <2>1
    <3>2. C.levels[sd][l].total_qty = total + qty /\ C.levels[sd][l].tail = s
      BY Zenon DEF Joins, total
    <3> QED
      BY <3>1, <3>2, <1>3
  <2>2. CASE <<k, m>> # <<sd, l>>
    <3>1. C.levels[k][m] = B.levels[k][m]
      BY <2>2, ZenonT(40) DEF Joins
    <3>2. B.levels[k][m].total_qty = IF B.levels[k][m].tail = NullOrder THEN 0
            ELSE a[B.levels[k][m].tail] + B.pool[B.levels[k][m].tail].qty
      BY DEF TotalsAre
    <3>3. B.levels[k][m].tail # NullOrder => B.levels[k][m].tail \in Resting(B)
      BY <1>7, <1>8
    <3> QED
      BY <3>1, <3>2, <3>3, <1>2
  <2> QED
    BY <2>1, <2>2
<1> QED
  BY <1>10, <1>11, <1>12 DEF b

\* A level takes over the touch when it is nearer.
LEMMA NearerTakesTheTouch ==
  ASSUME NEW sd \in Sides, NEW S \in SUBSET Levels, NEW best, NEW l \in Levels,
         IsTouch(sd, S, best)
  PROVE  IsTouch(sd, S \cup {l}, IF Nearer(sd, l, best) THEN l ELSE best)
<1>1. \A k \in S \cup {l} : k \in Nat
  BY DEF Levels
<1>2. CASE S = {}
  BY <1>1, <1>2 DEF IsTouch, IsHighest, IsLowest, Nearer, Sides
<1>3. CASE S # {} /\ sd = "Bid"
  <2>1. best \in S /\ \A k \in S : k <= best
    BY <1>3 DEF IsTouch, IsHighest
  <2> QED
    BY <1>1, <1>3, <2>1 DEF IsTouch, IsHighest, Nearer
<1>4. CASE S # {} /\ sd = "Ask"
  <2>1. best \in S /\ \A k \in S : k >= best
    BY <1>4 DEF IsTouch, IsLowest
  <2> QED
    BY <1>1, <1>4, <2>1 DEF IsTouch, IsLowest, Nearer
<1> QED
  BY <1>2, <1>3, <1>4 DEF Sides

JoinsTouch(B, C, sd, l) ==
  /\ C.bits = IF B.levels[sd][l].total_qty = 0 THEN [B.bits EXCEPT ![sd] = @ \cup {l}] ELSE B.bits
  /\ C.best = IF B.levels[sd][l].total_qty = 0 /\ Nearer(sd, l, B.best[sd])
                THEN [B.best EXCEPT ![sd] = l] ELSE B.best

\* A join keeps the level bitset and the cached touch exact.
LEMMA JoinKeepsTouch ==
  ASSUME NEW B \in Book, NEW C \in Book, NEW s, NEW id \in Ids, NEW sd \in Sides,
         NEW l \in Levels, NEW qty \in Int, NEW mine \in BOOLEAN, NEW a,
         Joins(B, C, s, id, sd, l, qty, mine),
         PlacedIn(B), QueuesAreRankedIn(B), SumsAhead(B, a), TotalsAre(B, a), TouchIsExactIn(B),
         JoinsTouch(B, C, sd, l)
  PROVE  TouchIsExactIn(C)
<1> USE DEF JoinsTouch
<1> SUFFICES ASSUME NEW k \in Sides
             PROVE  /\ C.bits[k] = {m \in Levels : LiveAt(C, k, m) # {}}
                    /\ IsTouch(k, C.bits[k], C.best[k])
  BY DEF TouchIsExactIn
<1>1. /\ B.bits[k] = {m \in Levels : LiveAt(B, k, m) # {}}
      /\ IsTouch(k, B.bits[k], B.best[k])
  BY DEF TouchIsExactIn
<1>2. B.levels[sd][l].total_qty = 0 <=> LiveAt(B, sd, l) = {}
  BY TotalCoversTheLevel
<1>3. \A m \in Levels : LiveAt(C, k, m) = IF k = sd /\ m = l THEN LiveAt(B, k, m) \cup {s}
                                          ELSE LiveAt(B, k, m)
  BY JoinedLevel
<1>4. B.bits \in [Sides -> SUBSET Levels] /\ B.best \in [Sides -> LevelsOrNone]
  BY DEF Book
<1>5. CASE k # sd
  <2>1. C.bits[k] = B.bits[k] /\ C.best[k] = B.best[k]
    BY <1>4, <1>5
  <2>2. \A m \in Levels : LiveAt(C, k, m) = LiveAt(B, k, m)
    BY <1>3, <1>5
  <2> QED
    BY <1>1, <2>1, <2>2
<1>6. CASE k = sd
  <2>1. C.bits[k] = B.bits[k] \cup {l}
    <3>1. CASE B.levels[sd][l].total_qty = 0
      BY <1>4, <1>6, <3>1
    <3>2. CASE B.levels[sd][l].total_qty # 0
      <4>1. l \in B.bits[k]
        BY <1>1, <1>2, <1>6, <3>2
      <4> QED
        BY <3>2, <4>1
    <3> QED
      BY <3>1, <3>2
  <2>2. C.bits[k] = {m \in Levels : LiveAt(C, k, m) # {}}
    BY <1>1, <1>3, <1>6, <2>1
  <2>3. IsTouch(k, C.bits[k], C.best[k])
    <3>1. CASE B.levels[sd][l].total_qty = 0
      <4>1. C.best[k] = IF Nearer(k, l, B.best[k]) THEN l ELSE B.best[k]
        BY <1>4, <1>6, <3>1
      <4>2. B.bits[k] \in SUBSET Levels
        BY <1>4
      <4>3. IsTouch(k, B.bits[k] \cup {l}, IF Nearer(k, l, B.best[k]) THEN l ELSE B.best[k])
        BY <1>1, <4>2, NearerTakesTheTouch
      <4> QED
        BY <2>1, <4>1, <4>3
    <3>2. CASE B.levels[sd][l].total_qty # 0
      <4>1. l \in B.bits[k] /\ C.bits[k] = B.bits[k] /\ C.best[k] = B.best[k]
        BY <1>1, <1>2, <1>6, <2>1, <3>2
      <4> QED
        BY <1>1, <4>1
    <3> QED
      BY <3>1, <3>2
  <2> QED
    BY <2>2, <2>3
<1> QED
  BY <1>5, <1>6

\* The side a newcomer joins stays clear of the other.
LEMMA JoinKeepsUncrossed ==
  ASSUME NEW B \in Book, NEW C \in Book, NEW s, NEW id \in Ids, NEW sd \in Sides,
         NEW l \in Levels, NEW qty \in Int, NEW mine \in BOOLEAN,
         Joins(B, C, s, id, sd, l, qty, mine), UncrossedIn(B),
         \A t \in Resting(B) :
           B.pool[t].side = Opposite(sd) =>
             IF sd = "Bid" THEN l < B.pool[t].level ELSE B.pool[t].level < l
  PROVE  UncrossedIn(C)
<1>1. \A t \in Slots : Live(C, t) /\ t # s =>
        /\ Live(B, t) /\ C.pool[t].side = B.pool[t].side /\ C.pool[t].level = B.pool[t].level
  BY Zenon DEF Joins
<1>2. C.pool[s].side = sd /\ C.pool[s].level = l
  BY Zenon DEF Joins
<1> SUFFICES ASSUME NEW x \in Slots, NEW y \in Slots, Live(C, x), Live(C, y),
                    C.pool[x].side = "Bid", C.pool[y].side = "Ask"
             PROVE  C.pool[x].level < C.pool[y].level
  BY DEF UncrossedIn
<1>3. CASE x = s
  <2>1. y # s /\ sd = "Bid" /\ y \in Resting(B) /\ B.pool[y].side = "Ask"
    BY <1>1, <1>2, <1>3 DEF Resting
  <2> QED
    BY <1>1, <1>2, <1>3, <2>1 DEF Opposite
<1>4. CASE y = s
  <2>1. x # s /\ sd = "Ask" /\ x \in Resting(B) /\ B.pool[x].side = "Bid"
    BY <1>1, <1>2, <1>4 DEF Resting
  <2> QED
    BY <1>1, <1>2, <1>4, <2>1 DEF Opposite
<1>5. CASE x # s /\ y # s
  BY <1>1, <1>5, Zenon DEF UncrossedIn
<1> QED
  BY <1>3, <1>4, <1>5

\* Our newcomer is filed with the whole level ahead of it.
LEMMA JoinKeepsPositions ==
  ASSUME NEW B \in Book, NEW C \in Book, NEW s, NEW id \in Ids, NEW sd \in Sides,
         NEW l \in Levels, NEW qty \in Int, NEW mine \in BOOLEAN, NEW a,
         Joins(B, C, s, id, sd, l, qty, mine), PoolPartitionOf(B), PositionsAre(B, a),
         B.map[id] = NullOrder,
         C.own = IF mine THEN B.own \cup {[id |-> id, level |-> l,
                                           level_seq |-> B.levels[sd][l].next_seq,
                                           qty_ahead |-> B.levels[sd][l].total_qty, side |-> sd]}
                 ELSE B.own
  PROVE  PositionsAre(C, JoinedAhead(B, C, a, s, sd, l))
<1> DEFINE b == JoinedAhead(B, C, a, s, sd, l)
           new == [id |-> id, level |-> l, level_seq |-> B.levels[sd][l].next_seq,
                   qty_ahead |-> B.levels[sd][l].total_qty, side |-> sd]
<1>1. s \in Resting(C) /\ s \notin Resting(B) /\ Resting(C) = Resting(B) \cup {s} /\ s # NullOrder
  BY DEF Joins, Resting, Slots
<1>2. \A t \in Resting(B) : /\ C.pool[t].level = B.pool[t].level /\ C.pool[t].side = B.pool[t].side
                            /\ C.pool[t].level_seq = B.pool[t].level_seq
                            /\ C.pool[t].mine = B.pool[t].mine /\ C.pool[t].id = B.pool[t].id
                            /\ b[t] = a[t] /\ t # NullOrder
  <2>1. \A t \in Resting(B) : t \in Slots /\ t # s /\ t \in Resting(C) /\ t # NullOrder
    BY <1>1 DEF Resting, Slots
  <2> QED
    BY <2>1, ZenonT(40) DEF Joins, JoinedAhead
<1>3. ASSUME NEW o \in C.own
      PROVE  /\ C.map[o.id] # NullOrder
             /\ LET p == C.pool[C.map[o.id]]
                IN p.mine /\ p.level = o.level /\ p.side = o.side /\ p.level_seq = o.level_seq
             /\ o.qty_ahead = b[C.map[o.id]]
  <2>1. CASE o \in B.own
    <3>1. o.id \in Ids /\ B.map[o.id] # NullOrder
      <4>1. o \in OwnOrder
        BY <2>1 DEF Book
      <4> QED
        BY <2>1, <4>1 DEF OwnOrder, PositionsAre
    <3>2. C.map[o.id] = B.map[o.id] /\ B.map[o.id] \in Resting(B)
      <4>1. o.id # id
        BY <3>1
      <4>2. B.map[o.id] \in Slots /\ B.pool[B.map[o.id]].id = o.id
        BY <3>1 DEF Book, SlotsOrNull, PoolPartitionOf
      <4>3. C.map[o.id] = B.map[o.id]
        BY <3>1, <4>1 DEF Joins
      <4> QED
        BY <3>1, <4>2, <4>3 DEF Resting, Live
    <3>3. /\ LET p == B.pool[B.map[o.id]]
             IN p.mine /\ p.level = o.level /\ p.side = o.side /\ p.level_seq = o.level_seq
          /\ o.qty_ahead = a[B.map[o.id]]
      BY <2>1 DEF PositionsAre
    <3> QED
      BY <1>2, <3>2, <3>3, ZenonT(40)
  <2>2. CASE mine /\ o = new
    <3>1. C.map[id] = s /\ o.id = id
      BY <2>2 DEF Joins
    <3>2. C.pool[s].mine
      BY <2>2, Zenon DEF Joins
    <3>3. /\ C.pool[s].level = l /\ C.pool[s].side = sd
          /\ C.pool[s].level_seq = B.levels[sd][l].next_seq
      BY Zenon DEF Joins
    <3>4. b[s] = B.levels[sd][l].total_qty
      BY <1>1 DEF JoinedAhead
    <3> QED
      BY <1>1, <2>2, <3>1, <3>2, <3>3, <3>4
  <2> QED
    BY <2>1, <2>2
<1>4. ASSUME NEW t \in Resting(C), C.pool[t].mine PROVE \E o \in C.own : o.id = C.pool[t].id
  <2>1. CASE t = s
    <3>1. C.pool[s].id = id /\ C.pool[s].mine = mine
      BY Zenon DEF Joins
    <3>2. mine
      BY <1>4, <2>1, <3>1
    <3>3. new \in C.own /\ new.id = id
      BY <3>2
    <3> QED
      BY <2>1, <3>1, <3>3
  <2>2. CASE t # s
    <3>1. t \in Resting(B) /\ B.pool[t].mine
      BY <1>1, <1>2, <1>4, <2>2
    <3>2. PICK o \in B.own : o.id = B.pool[t].id
      BY <3>1 DEF PositionsAre
    <3> QED
      BY <1>2, <3>1, <3>2
  <2> QED
    BY <2>1, <2>2
<1> QED
  BY <1>3, <1>4 DEF PositionsAre

\* Enqueue keeps a sound book sound, on a side it does not cross.
LEMMA EnqueueKeepsSound ==
  ASSUME NEW B \in Book, NEW a, Sound(B, a), NEW id \in Ids, NEW sd \in Sides,
         NEW l \in Levels, NEW qty \in Int, NEW mine \in BOOLEAN,
         B.free # <<>>, B.map[id] = NullOrder, qty > 0,
         \A t \in Resting(B) :
           B.pool[t].side = Opposite(sd) =>
             IF sd = "Bid" THEN l < B.pool[t].level ELSE B.pool[t].level < l
  PROVE  LET C == Enqueue(B, id, sd, l, qty, mine)
         IN Sound(C, JoinedAhead(B, C, a, NextSlot(B), sd, l))
<1> DEFINE C == Enqueue(B, id, sd, l, qty, mine)
           s == NextSlot(B)
           b == JoinedAhead(B, C, a, s, sd, l)
<1>1. /\ PoolPartitionOf(B) /\ PlacedIn(B) /\ QueuesAreRankedIn(B) /\ SumsAhead(B, a)
      /\ TotalsAre(B, a) /\ TouchIsExactIn(B) /\ UncrossedIn(B) /\ PositionsAre(B, a)
  BY DEF Sound
<1>2. C \in Book /\ PoolPartitionOf(C)
  BY <1>1, EnqueueType, EnqueueKeepsPartition
<1>3. Joins(B, C, s, id, sd, l, qty, mine)
  BY <1>1, EnqueueJoins
<1>4. JoinsTouch(B, C, sd, l)
  BY DEF Enqueue, JoinsTouch
<1>5. C.own = IF mine THEN B.own \cup {[id |-> id, level |-> l,
                                        level_seq |-> B.levels[sd][l].next_seq,
                                        qty_ahead |-> B.levels[sd][l].total_qty, side |-> sd]}
              ELSE B.own
  BY DEF Enqueue, NextRank
<1> HIDE DEF C, s
<1>6. QueuesAreRankedIn(C)
  BY <1>1, <1>2, <1>3, JoinKeepsQueues
<1>7. PlacedIn(C) /\ SumsAhead(C, b) /\ TotalsAre(C, b)
  BY <1>1, <1>2, <1>3, JoinKeepsSums
<1>8. TouchIsExactIn(C)
  BY <1>1, <1>2, <1>3, <1>4, JoinKeepsTouch
<1>9. UncrossedIn(C)
  BY <1>1, <1>2, <1>3, JoinKeepsUncrossed
<1>10. PositionsAre(C, b)
  BY <1>1, <1>2, <1>3, <1>5, JoinKeepsPositions
<1>11. Sound(C, b)
  BY <1>2, <1>6, <1>7, <1>8, <1>9, <1>10 DEF Sound
<1> QED
  BY <1>11 DEF C, s

\* What the guard of add() asks of the touch holds of every order behind it.
LEMMA NotCrossingIsClear ==
  ASSUME NEW B \in Book, PlacedIn(B), TouchIsExactIn(B), NEW sd \in Sides, NEW price \in Int,
         InWindow(price), ~Crosses(B, sd, price), NEW t \in Resting(B),
         B.pool[t].side = Opposite(sd)
  PROVE  IF sd = "Bid" THEN ToIndex(price) < B.pool[t].level ELSE B.pool[t].level < ToIndex(price)
<1> DEFINE k == Opposite(sd)
           m == B.pool[t].level
           best == B.best[k]
<1>1. k \in Sides /\ m \in Levels /\ t \in LiveAt(B, k, m)
  BY DEF Opposite, Sides, PlacedIn, LiveAt, Resting
<1>2. m \in B.bits[k] /\ IsTouch(k, B.bits[k], best) /\ B.bits[k] \in SUBSET Levels
  BY <1>1 DEF TouchIsExactIn
<1>3. best \in Levels
  BY <1>2 DEF IsTouch, IsHighest, IsLowest
<1>4. best # NoLevel /\ best \in Int /\ m \in Int
  BY <1>1, <1>3 DEF Levels
<1>5. HasBest(B, k) /\ BestPrice(B, k) = WindowBase + best
  BY <1>4 DEF HasBest, BestPrice, ToPrice
<1>6. CASE sd = "Bid"
  <2>1. k = "Ask" /\ best <= m
    BY <1>2, <1>4, <1>6 DEF IsTouch, IsLowest, Opposite
  <2>2. ~(price >= WindowBase + best)
    BY <1>5, <1>6, <2>1 DEF Crosses
  <2> QED
    BY <1>4, <1>6, <2>1, <2>2, WindowAssumption DEF ToIndex
<1>7. CASE sd = "Ask"
  <2>1. k = "Bid" /\ m <= best
    BY <1>2, <1>4, <1>7 DEF IsTouch, IsHighest, Opposite
  <2>2. ~(price <= WindowBase + best)
    BY <1>5, <1>7, <2>1 DEF Crosses
  <2> QED
    BY <1>4, <1>7, <2>1, <2>2, WindowAssumption DEF ToIndex
<1> QED
  BY <1>6, <1>7 DEF Sides

\* add keeps a sound book sound, whether it rests the order or refuses it.
LEMMA AddKeepsSound ==
  ASSUME NEW B \in Book, NEW a, Sound(B, a), NEW id \in Ids, NEW sd \in Sides,
         NEW price \in Int, NEW qty \in Int, NEW mine \in BOOLEAN
  PROVE  \E b : Sound(Add(B, id, sd, price, qty, mine).book, b)
<1> DEFINE C == Add(B, id, sd, price, qty, mine).book
<1>1. CASE /\ qty > 0 /\ InWindow(price) /\ B.free # <<>> /\ ~Crosses(B, sd, price)
           /\ B.map[id] = NullOrder
  <2>1. C = Enqueue(B, id, sd, ToIndex(price), qty, mine)
    BY <1>1 DEF Add, Result
  <2>2. ToIndex(price) \in Levels
    BY <1>1, InWindowIsLevel
  <2>3. PlacedIn(B) /\ TouchIsExactIn(B)
    BY DEF Sound
  <2>4. \A t \in Resting(B) :
          B.pool[t].side = Opposite(sd) =>
            IF sd = "Bid" THEN ToIndex(price) < B.pool[t].level
            ELSE B.pool[t].level < ToIndex(price)
    BY <1>1, <2>3, NotCrossingIsClear
  <2> QED
    BY <1>1, <2>1, <2>2, <2>4, EnqueueKeepsSound
<1>2. CASE ~(/\ qty > 0 /\ InWindow(price) /\ B.free # <<>> /\ ~Crosses(B, sd, price)
             /\ B.map[id] = NullOrder)
  <2>1. C = B
    BY <1>2 DEF Add, Result
  <2> QED
    BY <2>1
<1> QED
  BY <1>1, <1>2

-----------------------------------------------------------------------------
(***************************************************************************)
(* An order leaves its queue.                                              *)
(***************************************************************************)
\* C is B after the order in slot s has left.
Leaves(B, C, s) ==
  LET o  == B.pool[s]
      lv == B.levels[o.side][o.level]
      total == lv.total_qty - o.qty
  IN /\ s \in Resting(B)
     /\ \A t \in Slots : Live(C, t) <=> t # s /\ Live(B, t)
     /\ \A t \in Slots : t # s =>
          /\ C.pool[t].id = B.pool[t].id /\ C.pool[t].qty = B.pool[t].qty
          /\ C.pool[t].level = B.pool[t].level /\ C.pool[t].side = B.pool[t].side
          /\ C.pool[t].mine = B.pool[t].mine /\ C.pool[t].level_seq = B.pool[t].level_seq
          /\ C.pool[t].next = IF t = o.prev THEN o.next ELSE B.pool[t].next
          /\ C.pool[t].prev = IF t = o.prev THEN B.pool[t].prev
                              ELSE IF t = o.next THEN o.prev ELSE B.pool[t].prev
     /\ \A k \in Sides, m \in Levels :
          <<k, m>> # <<o.side, o.level>> => C.levels[k][m] = B.levels[k][m]
     /\ C.levels[o.side][o.level].total_qty = total
     /\ C.levels[o.side][o.level].head = IF total = 0 THEN NullOrder
                                         ELSE IF o.prev = NullOrder THEN o.next ELSE lv.head
     /\ C.levels[o.side][o.level].tail = IF total = 0 THEN NullOrder
                                         ELSE IF o.next = NullOrder THEN o.prev ELSE lv.tail
     /\ C.levels[o.side][o.level].next_seq = lv.next_seq
     /\ \A i \in Ids : C.map[i] = IF i = o.id THEN NullOrder ELSE B.map[i]

\* Unlink is such a leave.
LEMMA UnlinkLeaves ==
  ASSUME NEW B \in Book, PlacedIn(B), NEW s \in Resting(B)
  PROVE  Leaves(B, Unlink(B, s), s)
<1> DEFINE o  == B.pool[s]
           lv == B.levels[o.side][o.level]
           total == lv.total_qty - o.qty
           C  == Unlink(B, s)
<1>1. s \in Slots /\ Live(B, s) /\ o.id \in Ids /\ B.map[o.id] = s /\ s # NullOrder
  BY DEF Resting, Live, Slots
<1>2. o.side \in Sides /\ o.level \in Levels
  BY <1>1, OrderFields DEF PlacedIn
<1>3. C.pool = UnlinkPool(B, s)
  BY DEF Unlink
<1>4. \A t \in Slots : B.pool[t] \in Order
  BY DEF Book
<1>5. \A t \in Slots : t # s =>
        /\ C.pool[t].id = B.pool[t].id /\ C.pool[t].qty = B.pool[t].qty
        /\ C.pool[t].level = B.pool[t].level /\ C.pool[t].side = B.pool[t].side
        /\ C.pool[t].mine = B.pool[t].mine /\ C.pool[t].level_seq = B.pool[t].level_seq
        /\ C.pool[t].next = IF t = o.prev THEN o.next ELSE B.pool[t].next
        /\ C.pool[t].prev = IF t = o.prev THEN B.pool[t].prev
                            ELSE IF t = o.next THEN o.prev ELSE B.pool[t].prev
  <2>1. ASSUME NEW p \in Order, NEW n
        PROVE  LET q == [p EXCEPT !.next = n]
               IN /\ q.id = p.id /\ q.qty = p.qty /\ q.level = p.level /\ q.side = p.side
                  /\ q.mine = p.mine /\ q.prev = p.prev /\ q.level_seq = p.level_seq
                  /\ q.next = n
    BY Zenon DEF Order
  <2>2. ASSUME NEW p \in Order, NEW n
        PROVE  LET q == [p EXCEPT !.prev = n]
               IN /\ q.id = p.id /\ q.qty = p.qty /\ q.level = p.level /\ q.side = p.side
                  /\ q.mine = p.mine /\ q.next = p.next /\ q.level_seq = p.level_seq
                  /\ q.prev = n
    BY Zenon DEF Order
  <2>3. \A t \in Slots : t # s =>
          C.pool[t] = IF t = o.prev THEN [B.pool[t] EXCEPT !.next = o.next]
                      ELSE IF t = o.next THEN [B.pool[t] EXCEPT !.prev = o.prev]
                      ELSE B.pool[t]
    BY <1>3 DEF UnlinkPool
  <2> HIDE DEF C, o
  <2> SUFFICES ASSUME NEW t \in Slots, t # s
               PROVE  /\ C.pool[t].id = B.pool[t].id /\ C.pool[t].qty = B.pool[t].qty
                      /\ C.pool[t].level = B.pool[t].level /\ C.pool[t].side = B.pool[t].side
                      /\ C.pool[t].mine = B.pool[t].mine
                      /\ C.pool[t].level_seq = B.pool[t].level_seq
                      /\ C.pool[t].next = IF t = o.prev THEN o.next ELSE B.pool[t].next
                      /\ C.pool[t].prev = IF t = o.prev THEN B.pool[t].prev
                                          ELSE IF t = o.next THEN o.prev ELSE B.pool[t].prev
    OBVIOUS
  <2>4. CASE t = o.prev
    <3>1. C.pool[t] = [B.pool[t] EXCEPT !.next = o.next] /\ B.pool[t] \in Order
      BY <2>3, <2>4, <1>4
    <3> QED
      BY <2>1, <2>4, <3>1
  <2>5. CASE t # o.prev /\ t = o.next
    <3>1. C.pool[t] = [B.pool[t] EXCEPT !.prev = o.prev] /\ B.pool[t] \in Order
      BY <2>3, <2>5, <1>4
    <3> QED
      BY <2>2, <2>5, <3>1
  <2>6. CASE t # o.prev /\ t # o.next
    BY <2>3, <2>6
  <2> QED
    BY <2>4, <2>5, <2>6
<1>6. /\ \A k \in Sides, m \in Levels :
           <<k, m>> # <<o.side, o.level>> => C.levels[k][m] = B.levels[k][m]
      /\ C.levels[o.side][o.level] = UnlinkLevel(B, s)
  <2>1. C.levels = [B.levels EXCEPT ![o.side][o.level] = UnlinkLevel(B, s)]
    BY DEF Unlink
  <2>2. B.levels \in [Sides -> [Levels -> Level]]
    BY DEF Book
  <2> HIDE DEF C, o
  <2> QED
    BY <1>2, <2>1, <2>2
<1>7. LET q == C.levels[o.side][o.level]
      IN /\ q.total_qty = total
         /\ q.head = IF total = 0 THEN NullOrder ELSE IF o.prev = NullOrder THEN o.next ELSE lv.head
         /\ q.tail = IF total = 0 THEN NullOrder ELSE IF o.next = NullOrder THEN o.prev ELSE lv.tail
         /\ q.next_seq = lv.next_seq
  <2> DEFINE q == C.levels[o.side][o.level]
             h == IF total = 0 THEN NullOrder ELSE IF o.prev = NullOrder THEN o.next ELSE lv.head
             n == IF total = 0 THEN NullOrder ELSE IF o.next = NullOrder THEN o.prev ELSE lv.tail
             c == IF total = 0 THEN 0 ELSE lv.count - 1
  <2>1. q = [total_qty |-> total, head |-> h, tail |-> n, count |-> c, next_seq |-> lv.next_seq]
    BY <1>6, Zenon DEF UnlinkLevel
  <2>2. q.total_qty = total /\ q.head = h /\ q.tail = n /\ q.next_seq = lv.next_seq
    <3> HIDE DEF q, total, h, n, c, lv
    <3> QED
      BY <2>1
  <2> QED
    BY <2>2, Zenon
<1>8. \A i \in Ids : C.map[i] = IF i = o.id THEN NullOrder ELSE B.map[i]
  BY DEF Unlink, Book
<1>9. \A t \in Slots : Live(C, t) <=> t # s /\ Live(B, t)
  <2> SUFFICES ASSUME NEW t \in Slots PROVE Live(C, t) <=> t # s /\ Live(B, t)
    OBVIOUS
  <2>1. C.pool[t].id = B.pool[t].id
    <3>1. CASE t = s
      <4>1. C.pool[s] = [B.pool[s] EXCEPT !.prev = NullOrder, !.next = NullOrder]
        BY <1>1, <1>3 DEF UnlinkPool
      <4>2. ASSUME NEW p \in Order
            PROVE  [p EXCEPT !.prev = NullOrder, !.next = NullOrder].id = p.id
        BY Zenon DEF Order
      <4> HIDE DEF C
      <4> QED
        BY <1>1, <1>4, <3>1, <4>1, <4>2
    <3>2. CASE t # s
      BY <3>2, <1>5
    <3> QED
      BY <3>1, <3>2
  <2> HIDE DEF C
  <2>2. CASE B.pool[t].id = o.id
    <3>1. C.map[o.id] = NullOrder /\ t # NullOrder
      BY <1>1, <1>8 DEF Slots
    <3>2. ~Live(C, t)
      BY <2>1, <2>2, <3>1 DEF Live
    <3>3. Live(B, t) => t = s
      BY <2>2, <1>1 DEF Live
    <3> QED
      BY <3>2, <3>3
  <2>3. CASE B.pool[t].id # o.id
    <3>1. t # s
      BY <2>3
    <3> QED
      BY <2>1, <2>3, <3>1, <1>8 DEF Live
  <2> QED
    BY <2>2, <2>3
<1> HIDE DEF C
<1>10. Leaves(B, C, s)
  BY <1>5, <1>6, <1>7, <1>8, <1>9, Zenon DEF Leaves
<1> QED
  BY <1>10 DEF C

\* The slots at a level after the order left.
LEMMA LeftLevel ==
  ASSUME NEW B \in Book, NEW C \in Book, NEW s, Leaves(B, C, s), NEW k \in Sides, NEW m \in Levels
  PROVE  LiveAt(C, k, m) = LiveAt(B, k, m) \ {s}
<1>1. \A t \in Slots : t # s => C.pool[t].side = B.pool[t].side /\ C.pool[t].level = B.pool[t].level
  BY Zenon DEF Leaves
<1>2. \A t \in Slots : Live(C, t) <=> t # s /\ Live(B, t)
  BY Zenon DEF Leaves
<1> QED
  BY <1>1, <1>2 DEF LiveAt

\* The level's total is gone exactly when its last order is.
LEMMA TotalTellsTheLast ==
  ASSUME NEW B \in Book, NEW a, PlacedIn(B), QueuesAreRankedIn(B), SumsAhead(B, a),
         TotalsAre(B, a), NEW s \in Resting(B)
  PROVE  LET o == B.pool[s]
         IN B.levels[o.side][o.level].total_qty - o.qty = 0 <=> LiveAt(B, o.side, o.level) = {s}
<1> DEFINE o == B.pool[s]
           S == LiveAt(B, o.side, o.level)
           total == B.levels[o.side][o.level].total_qty
           tail == B.levels[o.side][o.level].tail
<1>1. s \in S /\ o.side \in Sides /\ o.level \in Levels
  BY OrderFields DEF PlacedIn, Resting, LiveAt
<1>2. total \in Nat /\ \A t \in S : a[t] + B.pool[t].qty <= total
  BY <1>1, TotalCoversTheLevel
<1>3. \A t \in S : /\ t \in Resting(B) /\ B.pool[t].side = o.side /\ B.pool[t].level = o.level
                   /\ B.pool[t].qty \in Nat /\ B.pool[t].qty > 0
                   /\ a[t] \in Nat /\ B.pool[t].level_seq \in Nat
  BY OrderFields DEF LiveAt, Resting, PlacedIn, SumsAhead
<1>4. QueueIsRanked(B, o.side, o.level)
  BY <1>1 DEF QueuesAreRankedIn
<1>5. Threads(S, Ranks(B), Prevs(B), Nexts(B), B.levels[o.side][o.level].head, tail,
              B.levels[o.side][o.level].next_seq)
  BY <1>1, <1>4, RankedQueueIsThread
<1>6. ASSUME S = {s} PROVE total - o.qty = 0
  <2>1. tail = s /\ B.levels[o.side][o.level].head = s
    <3> HIDE DEF S, tail, o
    <3> QED
      BY <1>1, <1>5, <1>6 DEF Threads
  <2>2. Prevs(B)[s] = NullOrder /\ tail # NullOrder
    <3>1. s # NullOrder
      BY DEF Resting, Slots
    <3> HIDE DEF S, tail, o
    <3> QED
      BY <1>1, <1>5, <2>1, <3>1 DEF Threads
  <2>3. o.prev = NullOrder
    BY <2>2 DEF Prevs, Resting
  <2>4. a[s] = 0
    BY <2>3 DEF SumsAhead
  <2>5. total = a[s] + o.qty
    BY <1>1, <2>1, <2>2 DEF TotalsAre
  <2> QED
    BY <1>1, <1>3, <2>4, <2>5
<1>7. ASSUME NEW t \in S, t # s PROVE total - o.qty # 0
  <2>1. o.level_seq # B.pool[t].level_seq
    BY <1>1, <1>4, <1>7, Zenon DEF QueueIsRanked
  <2>2. InFront(B, s, t) \/ InFront(B, t, s)
    BY <1>1, <1>3, <2>1 DEF InFront
  <2>3. CASE InFront(B, s, t)
    <3>1. a[s] + o.qty <= a[t]
      BY <1>1, <1>3, <2>3 DEF SumsAhead
    <3>2. /\ a[s] \in Nat /\ a[t] \in Nat /\ total \in Nat /\ o.qty \in Nat
          /\ B.pool[t].qty \in Nat /\ B.pool[t].qty > 0 /\ a[t] + B.pool[t].qty <= total
      BY <1>1, <1>2, <1>3, <1>7
    <3> HIDE DEF S, total, tail, o
    <3> QED
      BY ONLY <3>1, <3>2
  <2>4. CASE InFront(B, t, s)
    <3>1. a[t] + B.pool[t].qty <= a[s]
      BY <1>1, <1>3, <2>4, Zenon DEF SumsAhead
    <3>2. /\ a[s] \in Nat /\ a[t] \in Nat /\ total \in Nat /\ o.qty \in Nat
          /\ B.pool[t].qty \in Nat /\ B.pool[t].qty > 0 /\ a[s] + o.qty <= total
      BY <1>1, <1>2, <1>3, <1>7
    <3> HIDE DEF S, total, tail, o
    <3> QED
      BY ONLY <3>1, <3>2
  <2> QED
    BY <2>2, <2>3, <2>4, Zenon
<1> QED
  BY <1>1, <1>6, <1>7

\* A resting order is linked to orders of its own level, or to none.
LEMMA LinkedInLevel ==
  ASSUME NEW B \in Book, PlacedIn(B), QueuesAreRankedIn(B), NEW s \in Resting(B)
  PROVE  LET o == B.pool[s]
             S == LiveAt(B, o.side, o.level)
             q == B.levels[o.side][o.level]
         IN /\ o.side \in Sides /\ o.level \in Levels /\ s \in S
            /\ Threads(S, Ranks(B), Prevs(B), Nexts(B), q.head, q.tail, q.next_seq)
            /\ o.prev \in S \cup {NullOrder} /\ o.next \in S \cup {NullOrder}
<1> DEFINE o == B.pool[s]
           S == LiveAt(B, o.side, o.level)
           q == B.levels[o.side][o.level]
<1>1. s \in S /\ o.side \in Sides /\ o.level \in Levels
  BY OrderFields DEF PlacedIn, Resting, LiveAt
<1>2. QueueIsRanked(B, o.side, o.level)
  BY <1>1 DEF QueuesAreRankedIn
<1>3. Threads(S, Ranks(B), Prevs(B), Nexts(B), q.head, q.tail, q.next_seq)
  BY <1>1, <1>2, RankedQueueIsThread
<1>4. Prevs(B)[s] \in S \cup {NullOrder} /\ Nexts(B)[s] \in S \cup {NullOrder}
  <2> HIDE DEF S, q
  <2> QED
    BY <1>1, <1>3 DEF Threads, Beside
<1>5. Prevs(B)[s] = o.prev /\ Nexts(B)[s] = o.next
  BY DEF Prevs, Nexts, Resting
<1> QED
  BY <1>1, <1>3, <1>4, <1>5, Zenon

\* A leave keeps every queue linked in the order of arrival.
LEMMA LeaveKeepsQueues ==
  ASSUME NEW B \in Book, NEW C \in Book, NEW s, NEW a, Leaves(B, C, s),
         PlacedIn(B), QueuesAreRankedIn(B), SumsAhead(B, a), TotalsAre(B, a)
  PROVE  QueuesAreRankedIn(C)
<1> SUFFICES ASSUME NEW k \in Sides, NEW m \in Levels PROVE QueueIsRanked(C, k, m)
  BY DEF QueuesAreRankedIn
<1> DEFINE o == B.pool[s]
           S == LiveAt(B, k, m)
           p == B.levels[k][m]
           q == C.levels[k][m]
<1>1. Threads(S, Ranks(B), Prevs(B), Nexts(B), p.head, p.tail, p.next_seq)
  BY RankedQueueIsThread, Zenon DEF QueuesAreRankedIn
<1>2. s \in Resting(B) /\ s \in Slots
  BY Zenon DEF Leaves, Resting
<1>3. /\ o.side \in Sides /\ o.level \in Levels /\ s \in LiveAt(B, o.side, o.level)
      /\ o.prev \in LiveAt(B, o.side, o.level) \cup {NullOrder}
      /\ o.next \in LiveAt(B, o.side, o.level) \cup {NullOrder}
  BY <1>2, LinkedInLevel
<1>4. \A t \in S : t \in Slots /\ t # NullOrder /\ Ranks(B)[t] \in Int
  BY OrderFields DEF LiveAt, Ranks, Slots
<1>5. \A t \in S : t # s =>
        /\ Ranks(C)[t] = Ranks(B)[t]
        /\ Nexts(C)[t] = IF t = o.prev THEN o.next ELSE Nexts(B)[t]
        /\ Prevs(C)[t] = IF t = o.prev THEN Prevs(B)[t]
                         ELSE IF t = o.next THEN o.prev ELSE Prevs(B)[t]
  <2>1. \A t \in S : t # s =>
          /\ C.pool[t].level_seq = B.pool[t].level_seq
          /\ C.pool[t].next = IF t = o.prev THEN o.next ELSE B.pool[t].next
          /\ C.pool[t].prev = IF t = o.prev THEN B.pool[t].prev
                              ELSE IF t = o.next THEN o.prev ELSE B.pool[t].prev
    BY <1>4, Zenon DEF Leaves
  <2>2. \A t \in S : /\ Ranks(B)[t] = B.pool[t].level_seq /\ Ranks(C)[t] = C.pool[t].level_seq
                     /\ Nexts(B)[t] = B.pool[t].next /\ Nexts(C)[t] = C.pool[t].next
                     /\ Prevs(B)[t] = B.pool[t].prev /\ Prevs(C)[t] = C.pool[t].prev
    BY <1>4 DEF Ranks, Nexts, Prevs
  <2> HIDE DEF S, o
  <2> QED
    BY <2>1, <2>2
<1>6. LiveAt(C, k, m) = S \ {s}
  BY LeftLevel
<1>7. CASE <<k, m>> # <<o.side, o.level>>
  <2>1. \A t \in S : t # s /\ t # o.prev /\ t # o.next
    BY <1>3, <1>4, <1>7 DEF LiveAt
  <2>2. LiveAt(C, k, m) = S
    BY <1>6, <2>1
  <2>3. q = p
    BY <1>7, Zenon DEF Leaves
  <2>4. \A t \in S : /\ Ranks(C)[t] = Ranks(B)[t] /\ Prevs(C)[t] = Prevs(B)[t]
                     /\ Nexts(C)[t] = Nexts(B)[t]
    BY <1>5, <2>1
  <2>5. Threads(S, Ranks(C), Prevs(C), Nexts(C), p.head, p.tail, p.next_seq)
    <3> HIDE DEF S, p
    <3> QED
      BY <1>1, <2>4, ThreadUnchanged
  <2> QED
    BY <2>2, <2>3, <2>5, RankedQueueIsThread
<1>8. CASE <<k, m>> = <<o.side, o.level>>
  <2>1. k = o.side /\ m = o.level /\ s \in S
    BY <1>3, <1>8
  <2>2. p.total_qty - o.qty = 0 <=> S = {s}
    BY <1>2, <2>1, TotalTellsTheLast
  <2>3. /\ q.head = IF p.total_qty - o.qty = 0 THEN NullOrder
                    ELSE IF o.prev = NullOrder THEN o.next ELSE p.head
        /\ q.tail = IF p.total_qty - o.qty = 0 THEN NullOrder
                    ELSE IF o.next = NullOrder THEN o.prev ELSE p.tail
        /\ q.next_seq = p.next_seq
    BY <2>1, Zenon DEF Leaves
  <2>4. Prevs(B)[s] = o.prev /\ Nexts(B)[s] = o.next
    BY <1>2 DEF Prevs, Nexts
  <2>5. LeavesThread(S, Ranks(B), Prevs(B), Nexts(B), p.head, p.tail, s,
                     Ranks(C), Prevs(C), Nexts(C), q.head, q.tail)
    <3>1. q.head = IF S = {s} THEN NullOrder ELSE IF o.prev = NullOrder THEN o.next ELSE p.head
      BY <2>2, <2>3, Zenon
    <3>2. q.tail = IF S = {s} THEN NullOrder ELSE IF o.next = NullOrder THEN o.prev ELSE p.tail
      BY <2>2, <2>3, Zenon
    <3> HIDE DEF S, p, q, o
    <3> QED
      BY <1>4, <1>5, <2>1, <2>4, <3>1, <3>2 DEF LeavesThread
  <2>6. Threads(S \ {s}, Ranks(C), Prevs(C), Nexts(C), q.head, q.tail, p.next_seq)
    <3> HIDE DEF S, p, q, o
    <3> QED
      BY <1>1, <2>5, ThreadLeft
  <2> QED
    BY <1>6, <2>3, <2>6, RankedQueueIsThread
<1> QED
  BY <1>7, <1>8

\* The order of arrival at a level.
LEMMA BehindTheOrder ==
  ASSUME NEW B \in Book, PlacedIn(B), QueuesAreRankedIn(B),
         NEW s \in Resting(B), NEW x \in Resting(B)
  PROVE  /\ InFront(B, s, x) =>
              LET p == B.pool[x].prev
              IN /\ p \in Resting(B) /\ p # NullOrder
                 /\ x = B.pool[s].next => p = s
                 /\ x # B.pool[s].next => p # s /\ InFront(B, s, p)
         /\ x = B.pool[s].next => InFront(B, s, x)
         /\ B.pool[x].side = B.pool[s].side /\ B.pool[x].level = B.pool[s].level /\ x # s
              => InFront(B, s, x) \/ InFront(B, x, s)
<1> DEFINE o == B.pool[s]
           S == LiveAt(B, o.side, o.level)
           q == B.levels[o.side][o.level]
           R == Ranks(B)
           P == Prevs(B)
           N == Nexts(B)
<1>1. s \in S /\ Threads(S, R, P, N, q.head, q.tail, q.next_seq)
  BY LinkedInLevel
<1>2. \A t \in S : /\ t \in Resting(B) /\ t # NullOrder /\ R[t] \in Int /\ R[t] = B.pool[t].level_seq
                   /\ P[t] = B.pool[t].prev /\ N[t] = B.pool[t].next
                   /\ B.pool[t].side = o.side /\ B.pool[t].level = o.level
  BY OrderFields DEF LiveAt, Resting, Ranks, Prevs, Nexts, Slots
<1>3. \A t \in Resting(B) : B.pool[t].side = o.side /\ B.pool[t].level = o.level => t \in S
  BY DEF LiveAt, Resting
<1> HIDE DEF S, R, P, N, q
<1>4. ASSUME InFront(B, s, x)
      PROVE  LET p == B.pool[x].prev
             IN /\ p \in Resting(B) /\ p # NullOrder
                /\ x = B.pool[s].next => p = s
                /\ x # B.pool[s].next => p # s /\ InFront(B, s, p)
  <2>1. x \in S /\ R[s] < R[x]
    BY <1>1, <1>2, <1>3, <1>4 DEF InFront
  <2>2. /\ P[x] \in S /\ P[x] # NullOrder
        /\ x = N[s] => P[x] = s
        /\ x # N[s] => P[x] # s /\ R[s] < R[P[x]]
    <3>1. \A t \in S : R[t] \in Int
      BY <1>2
    <3>2. NullOrder \notin S
      BY <1>2
    <3> QED
      BY <1>1, <2>1, <3>1, <3>2, ThreadBehind
  <2>3. P[x] = B.pool[x].prev /\ N[s] = B.pool[s].next
    BY <1>1, <1>2, <2>1
  <2>4. R[s] < R[P[x]] => InFront(B, s, P[x])
    BY <1>1, <1>2, <2>2 DEF InFront
  <2> QED
    BY <1>2, <2>2, <2>3, <2>4
<1>5. ASSUME x = B.pool[s].next PROVE InFront(B, s, x)
  <2>1. N[s] = x /\ N[s] # NullOrder
    BY <1>1, <1>2, <1>5 DEF Resting, Slots
  <2>2. Beside(S, R, s, x)
    BY <1>1, <2>1 DEF Threads
  <2> QED
    BY <1>1, <1>2, <2>2 DEF Beside, InFront
<1>6. ASSUME B.pool[x].side = o.side, B.pool[x].level = o.level, x # s
      PROVE  InFront(B, s, x) \/ InFront(B, x, s)
  <2>1. x \in S
    BY <1>3, <1>6
  <2>2. R[x] # R[s]
    BY <1>1, <1>6, <2>1 DEF Threads
  <2> QED
    BY <1>1, <1>2, <2>1, <2>2 DEF InFront
<1> QED
  BY <1>4, <1>5, <1>6, Zenon

\* by leaves at s: whoever is behind s moves up.
MovedUp(B, D, a, s, by) == [t \in D |-> IF InFront(B, s, t) THEN a[t] - by ELSE a[t]]

\* Who moves up stays in order: nobody overtakes, and whoever is in front counts in full.
LEMMA MovedUpInOrder ==
  ASSUME NEW B \in Book, PlacedIn(B), QueuesAreRankedIn(B), NEW a, SumsAhead(B, a),
         NEW s \in Resting(B), NEW by \in Nat, by <= B.pool[s].qty,
         NEW D \in SUBSET Resting(B)
  PROVE  LET b == MovedUp(B, D, a, s, by)
         IN /\ b \in [D -> Nat]
            /\ \A x, y \in D : InFront(B, x, y) /\ x # s => b[x] + B.pool[x].qty <= b[y]
            /\ \A y \in D : s \in D /\ InFront(B, s, y) => b[s] + (B.pool[s].qty - by) <= b[y]
<1> DEFINE b == MovedUp(B, D, a, s, by)
<1>1. \A t \in Resting(B) : /\ a[t] \in Nat /\ B.pool[t].qty \in Nat
                            /\ B.pool[t].level_seq \in Nat
  BY OrderFields DEF SumsAhead, Resting, PlacedIn
<1>2. \A x, y \in Resting(B) : InFront(B, x, y) => a[x] + B.pool[x].qty <= a[y]
  BY DEF SumsAhead
<1>3. \A t \in D : t \in Resting(B) /\ b[t] = IF InFront(B, s, t) THEN a[t] - by ELSE a[t]
  BY DEF MovedUp
<1>4. b \in [D -> Nat]
  <2>1. \A t \in D : b[t] \in Nat
    BY <1>1, <1>2, <1>3
  <2>2. b = [t \in D |-> b[t]]
    BY DEF MovedUp
  <2> HIDE DEF b
  <2> QED
    BY <2>1, <2>2
<1> HIDE DEF b
<1>5. ASSUME NEW x \in D, NEW y \in D, InFront(B, x, y), x # s PROVE b[x] + B.pool[x].qty <= b[y]
  <2>1. a[x] + B.pool[x].qty <= a[y]
    BY <1>2, <1>3, <1>5
  <2>2. CASE InFront(B, s, x)
    <3>1. InFront(B, s, y)
      BY <1>1, <1>3, <1>5, <2>2 DEF InFront
    <3> QED
      BY <1>1, <1>3, <2>1, <2>2, <3>1
  <2>3. CASE ~InFront(B, s, x) /\ InFront(B, s, y)
    <3>1. InFront(B, x, s)
      <4>1. B.pool[x].side = B.pool[s].side /\ B.pool[x].level = B.pool[s].level
        BY <1>5, <2>3 DEF InFront
      <4> QED
        BY <1>3, <1>5, <2>3, <4>1, BehindTheOrder
    <3>2. a[x] + B.pool[x].qty <= a[s] /\ a[s] + B.pool[s].qty <= a[y]
      BY <1>2, <1>3, <2>3, <3>1
    <3> QED
      BY <1>1, <1>3, <2>3, <3>2
  <2>4. CASE ~InFront(B, s, x) /\ ~InFront(B, s, y)
    BY <1>3, <2>1, <2>4
  <2> QED
    BY <2>2, <2>3, <2>4
<1>6. ASSUME NEW y \in D, s \in D, InFront(B, s, y) PROVE b[s] + (B.pool[s].qty - by) <= b[y]
  <2>1. ~InFront(B, s, s)
    BY <1>1 DEF InFront
  <2>2. b[s] = a[s] /\ b[y] = a[y] - by
    BY <1>3, <1>6, <2>1
  <2>3. a[s] + B.pool[s].qty <= a[y]
    BY <1>2, <1>3, <1>6
  <2> QED
    BY <1>1, <1>3, <1>6, <2>2, <2>3
<1> QED
  BY <1>4, <1>5, <1>6 DEF b

\* A leave keeps the sums ahead and the totals.
LEMMA LeaveKeepsSums ==
  ASSUME NEW B \in Book, NEW C \in Book, NEW s, NEW a, Leaves(B, C, s),
         PlacedIn(B), QueuesAreRankedIn(B), SumsAhead(B, a), TotalsAre(B, a)
  PROVE  LET b == MovedUp(B, Resting(C), a, s, B.pool[s].qty)
         IN PlacedIn(C) /\ SumsAhead(C, b) /\ TotalsAre(C, b)
<1> DEFINE o == B.pool[s]
           by == o.qty
           b == MovedUp(B, Resting(C), a, s, by)
<1>1. s \in Resting(B) /\ s # NullOrder /\ Resting(C) = Resting(B) \ {s}
  <2>1. s \in Resting(B) /\ Resting(C) = Resting(B) \ {s}
    BY ZenonT(40) DEF Leaves, Resting
  <2> QED
    BY <2>1 DEF Resting, Slots
<1>2. \A t \in Resting(C) :
        /\ t \in Resting(B) /\ t # s /\ t # NullOrder
        /\ C.pool[t].qty = B.pool[t].qty /\ C.pool[t].level_seq = B.pool[t].level_seq
        /\ C.pool[t].side = B.pool[t].side /\ C.pool[t].level = B.pool[t].level
        /\ C.pool[t].prev = IF t = o.prev THEN B.pool[t].prev
                            ELSE IF t = o.next THEN o.prev ELSE B.pool[t].prev
  <2>1. \A t \in Resting(C) : t \in Resting(B) /\ t # s /\ t \in Slots /\ t # NullOrder
    BY <1>1 DEF Resting, Slots
  <2> QED
    BY <2>1, Zenon DEF Leaves
<1>3. \A t \in Resting(B) : /\ B.pool[t].qty \in Nat /\ B.pool[t].qty > 0 /\ a[t] \in Nat
                            /\ B.pool[t].level \in Levels /\ B.pool[t].level_seq \in Nat
  BY OrderFields DEF PlacedIn, SumsAhead, Resting
<1>4. by \in Nat /\ by <= B.pool[s].qty
  BY <1>1, <1>3
<1>5. \A t \in Resting(C) : b[t] = IF InFront(B, s, t) THEN a[t] - by ELSE a[t]
  BY DEF MovedUp
<1>6. /\ b \in [Resting(C) -> Nat]
      /\ \A x, y \in Resting(C) : InFront(B, x, y) /\ x # s => b[x] + B.pool[x].qty <= b[y]
  <2>1. Resting(C) \in SUBSET Resting(B)
    BY <1>1
  <2> HIDE DEF by
  <2> QED
    BY <1>1, <1>4, <2>1, MovedUpInOrder
<1>7. \A t \in Resting(B) : a[t] = IF B.pool[t].prev = NullOrder THEN 0
                                   ELSE a[B.pool[t].prev] + B.pool[B.pool[t].prev].qty
  BY DEF SumsAhead
<1>8. \A t \in Resting(B) : B.pool[t].prev # NullOrder =>
                              B.pool[t].prev \in Resting(B) /\ InFront(B, B.pool[t].prev, t)
  BY LinkedInFront
<1>9. \A x, y \in Resting(B) : ~(InFront(B, x, y) /\ InFront(B, y, x)) /\ ~InFront(B, x, x)
  BY <1>3 DEF InFront
<1> HIDE DEF b, by, o
<1>10. PlacedIn(C)
  BY <1>2, <1>3 DEF PlacedIn
<1>11. ASSUME NEW x \in Resting(C)
       PROVE  b[x] = LET p == C.pool[x].prev
                     IN IF p = NullOrder THEN 0 ELSE b[p] + C.pool[p].qty
  <2>1. x \in Resting(B) /\ x # s
    BY <1>2
  <2>2. CASE x = o.next
    <3>1. InFront(B, s, x) /\ B.pool[x].prev = s
      BY <1>1, <2>1, <2>2, BehindTheOrder DEF o
    <3>2. x # o.prev
      BY <1>1, <1>2, <1>8, <1>9, <3>1 DEF o
    <3>3. C.pool[x].prev = o.prev
      BY <1>2, <2>2, <3>2
    <3>4. b[x] = a[s]
      <4>1. a[x] = a[s] + by
        BY <1>1, <1>7, <2>1, <3>1 DEF by, o
      <4> QED
        BY <1>1, <1>3, <1>4, <1>5, <3>1, <4>1
    <3>5. a[s] = IF o.prev = NullOrder THEN 0 ELSE a[o.prev] + B.pool[o.prev].qty
      BY <1>1, <1>7 DEF o
    <3>6. ASSUME o.prev # NullOrder
          PROVE  b[o.prev] = a[o.prev] /\ C.pool[o.prev].qty = B.pool[o.prev].qty
      <4>1. o.prev \in Resting(B) /\ InFront(B, o.prev, s)
        BY <1>1, <1>8, <3>6 DEF o
      <4>2. o.prev \in Resting(C) /\ ~InFront(B, s, o.prev)
        BY <1>1, <1>9, <4>1
      <4> QED
        BY <1>2, <1>5, <4>2
    <3> QED
      BY <3>3, <3>4, <3>5, <3>6
  <2>3. CASE x # o.next
    <3>1. C.pool[x].prev = B.pool[x].prev
      BY <1>2, <2>3
    <3> DEFINE p == B.pool[x].prev
    <3>2. CASE InFront(B, s, x)
      <4>1. p \in Resting(B) /\ p # NullOrder /\ p # s /\ InFront(B, s, p)
        BY <1>1, <2>1, <2>3, <3>2, BehindTheOrder DEF o
      <4>2. a[x] = a[p] + B.pool[p].qty
        BY <1>7, <2>1, <4>1
      <4>3. p \in Resting(C) /\ C.pool[p].qty = B.pool[p].qty
        BY <1>1, <1>2, <4>1
      <4>4. b[x] = a[x] - by /\ b[p] = a[p] - by
        BY <1>5, <3>2, <4>1, <4>3
      <4> HIDE DEF p
      <4>5. b[x] = b[p] + C.pool[p].qty
        BY <1>3, <1>4, <2>1, <4>1, <4>2, <4>3, <4>4
      <4> QED
        BY <3>1, <4>1, <4>5 DEF p
    <3>3. CASE ~InFront(B, s, x)
      <4>1. b[x] = a[x]
        BY <1>5, <3>3
      <4>2. ASSUME p # NullOrder PROVE b[p] = a[p] /\ C.pool[p].qty = B.pool[p].qty
        <5>1. p \in Resting(B) /\ InFront(B, p, x)
          BY <1>8, <2>1, <4>2
        <5>2. p # s
          BY <3>3, <5>1
        <5>3. ~InFront(B, s, p)
          BY <1>1, <1>3, <2>1, <3>3, <5>1 DEF InFront
        <5>4. p \in Resting(C)
          BY <1>1, <5>1, <5>2
        <5> QED
          BY <1>2, <1>5, <5>3, <5>4
      <4> QED
        BY <1>7, <2>1, <3>1, <4>1, <4>2
    <3> QED
      BY <3>2, <3>3
  <2> QED
    BY <2>2, <2>3
<1>12. SumsAhead(C, b)
  <2>1. ASSUME NEW x \in Resting(C), NEW y \in Resting(C), InFront(C, x, y)
        PROVE  b[x] + C.pool[x].qty <= b[y]
    <3>1. InFront(B, x, y) /\ x # s
      BY <1>2, <2>1 DEF InFront
    <3> QED
      BY <1>2, <1>6, <3>1
  <2> QED
    BY <1>6, <1>11, <2>1 DEF SumsAhead
<1>13. TotalsAre(C, b)
  <2> SUFFICES ASSUME NEW k \in Sides, NEW m \in Levels
               PROVE  C.levels[k][m].total_qty =
                        IF C.levels[k][m].tail = NullOrder THEN 0
                        ELSE b[C.levels[k][m].tail] + C.pool[C.levels[k][m].tail].qty
    BY DEF TotalsAre
  <2>1. B.levels[k][m].total_qty = IF B.levels[k][m].tail = NullOrder THEN 0
          ELSE a[B.levels[k][m].tail] + B.pool[B.levels[k][m].tail].qty
    BY DEF TotalsAre
  <2>2. QueueIsRanked(B, k, m)
    BY DEF QueuesAreRankedIn
  <2>3. \A t : t \in LiveAt(B, k, m) <=>
          t \in Resting(B) /\ B.pool[t].side = k /\ B.pool[t].level = m
    BY DEF LiveAt, Resting
  <2>4. B.levels[k][m].tail # NullOrder => B.levels[k][m].tail \in LiveAt(B, k, m)
    BY <2>2 DEF QueueIsRanked
  <2>5. CASE <<k, m>> # <<o.side, o.level>>
    <3>1. C.levels[k][m] = B.levels[k][m]
      BY <2>5, Zenon DEF Leaves, o
    <3>2. ASSUME B.levels[k][m].tail # NullOrder
          PROVE  LET z == B.levels[k][m].tail
                 IN b[z] = a[z] /\ C.pool[z].qty = B.pool[z].qty
      <4> DEFINE z == B.levels[k][m].tail
      <4>1. z \in Resting(B) /\ B.pool[z].side = k /\ B.pool[z].level = m
        BY <2>3, <2>4, <3>2
      <4> HIDE DEF z
      <4>2. z # s /\ ~InFront(B, s, z)
        BY <2>5, <4>1 DEF InFront, o
      <4>3. z \in Resting(C)
        BY <1>1, <4>1, <4>2
      <4> QED
        BY <1>2, <1>5, <4>2, <4>3 DEF z
    <3> QED
      BY <2>1, <3>1, <3>2
  <2>6. CASE <<k, m>> = <<o.side, o.level>>
    <3> DEFINE z == B.levels[k][m].tail
               total == B.levels[k][m].total_qty
    <3>1. k = o.side /\ m = o.level /\ s \in LiveAt(B, k, m)
      BY <1>1, <2>3, <2>6 DEF o
    <3>2. /\ C.levels[k][m].total_qty = total - by
          /\ C.levels[k][m].tail = IF total - by = 0 THEN NullOrder
                                   ELSE IF o.next = NullOrder THEN o.prev ELSE z
      BY <3>1, Zenon DEF Leaves, o, by
    <3>3. z \in Resting(B) /\ B.pool[z].side = k /\ B.pool[z].level = m /\ z # NullOrder
      <4>1. z \in LiveAt(B, k, m)
        BY <2>2, <3>1 DEF QueueIsRanked
      <4>2. z \in Resting(B) /\ B.pool[z].side = k /\ B.pool[z].level = m
        BY <2>3, <4>1, Zenon
      <4> QED
        BY <4>2 DEF Resting, Slots
    <3>4. total = a[z] + B.pool[z].qty
      BY <2>1, <3>3
    <3>5. o.next = NullOrder <=> s = z
      <4>1. \A t \in LiveAt(B, k, m) : B.pool[t].next = NullOrder <=> t = z
        BY <2>2 DEF QueueIsRanked
      <4> QED
        BY <3>1, <4>1 DEF o
    <3> HIDE DEF z, total
    <3>6. CASE total - by = 0
      BY <3>2, <3>6
    <3>7. CASE total - by # 0 /\ s = z
      <4>1. total = a[s] + by
        BY <3>4, <3>7 DEF by, o
      <4>2. o.prev # NullOrder
        BY <1>1, <1>4, <1>7, <3>7, <4>1 DEF o
      <4>3. o.prev \in Resting(B) /\ InFront(B, o.prev, s)
        BY <1>1, <1>8, <4>2 DEF o
      <4>4. o.prev \in Resting(C) /\ ~InFront(B, s, o.prev)
        BY <1>1, <1>9, <4>3
      <4>5. b[o.prev] = a[o.prev] /\ C.pool[o.prev].qty = B.pool[o.prev].qty
        BY <1>2, <1>5, <4>4
      <4>6. a[s] = a[o.prev] + B.pool[o.prev].qty
        BY <1>1, <1>7, <4>2 DEF o
      <4>7. C.levels[k][m].tail = o.prev
        BY <3>2, <3>5, <3>7
      <4>8. total - by = a[s]
        BY <1>1, <1>3, <1>4, <4>1
      <4> QED
        BY <3>2, <4>2, <4>5, <4>6, <4>7, <4>8
    <3>8. CASE total - by # 0 /\ s # z
      <4>1. C.levels[k][m].tail = z
        BY <3>2, <3>5, <3>8
      <4>2. InFront(B, s, z)
        <5>1. B.pool[s].level_seq <= B.pool[z].level_seq
          BY <2>2, <3>1, Zenon DEF QueueIsRanked, z
        <5>2. InFront(B, s, z) \/ InFront(B, z, s)
          BY <1>1, <3>1, <3>3, <3>8, BehindTheOrder DEF o
        <5>3. B.pool[s].level_seq \in Int /\ B.pool[z].level_seq \in Int
          BY <1>1, <1>3, <3>3
        <5>4. ~(B.pool[z].level_seq < B.pool[s].level_seq)
          BY <5>1, <5>3
        <5> QED
          BY <5>2, <5>4, Zenon DEF InFront
      <4>3. z \in Resting(C)
        BY <1>1, <3>3, <3>8
      <4>4. b[z] = a[z] - by /\ C.pool[z].qty = B.pool[z].qty
        BY <1>2, <1>5, <4>2, <4>3
      <4>5. total - by = (a[z] - by) + B.pool[z].qty
        BY <1>3, <1>4, <3>3, <3>4
      <4> QED
        BY <3>2, <3>3, <4>1, <4>4, <4>5
    <3> QED
      BY <3>6, <3>7, <3>8
  <2> QED
    BY <2>5, <2>6
<1> QED
  BY <1>10, <1>12, <1>13 DEF b, by, o

\* The scans find the touch of the levels they look at.
LEMMA ScansFindTheTouch ==
  ASSUME NEW B \in Book, NEW sd \in Sides, NEW from \in Int
  PROVE  /\ IsTouch("Bid", {k \in B.bits[sd] : k <= from}, ScanDown(B, sd, from))
         /\ IsTouch("Ask", {k \in B.bits[sd] : k >= from}, ScanUp(B, sd, from))
<1>1. B.bits[sd] \in SUBSET Levels
  BY DEF Book
<1>2. \E l \in LevelsOrNone : IsTouch("Bid", {k \in B.bits[sd] : k <= from}, l)
  BY <1>1, TouchExists DEF Sides
<1>3. \E l \in LevelsOrNone : IsTouch("Ask", {k \in B.bits[sd] : k >= from}, l)
  BY <1>1, TouchExists DEF Sides
<1> QED
  BY <1>2, <1>3 DEF ScanDown, ScanUp

\* A rescan after level l emptied finds the touch of what is left.
LEMMA RescanFindsTheTouch ==
  ASSUME NEW B \in Book, NEW sd \in Sides, NEW l \in B.bits[sd],
         IsTouch(sd, B.bits[sd], B.best[sd])
  PROVE  IsTouch(sd, B.bits[sd] \ {l}, Rescan(B, sd, l))
<1> DEFINE S == B.bits[sd]
           best == B.best[sd]
<1>1. S \in SUBSET Levels /\ l \in S /\ \A k \in S : k \in Nat
  BY DEF Book, Levels
<1>2. CASE best # l
  <2>1. Rescan(B, sd, l) = best
    BY <1>2 DEF Rescan
  <2> HIDE DEF S, best
  <2> QED
    BY <1>1, <1>2, <2>1 DEF IsTouch, IsHighest, IsLowest, S, best
<1>3. CASE best = l /\ sd = "Bid"
  <2>1. \A k \in S : k <= l
    BY <1>1, <1>3 DEF IsTouch, IsHighest
  <2>2. {k \in S : k <= l - 1} = S \ {l}
    BY <1>1, <2>1
  <2>3. IsTouch("Bid", {k \in S : k <= l - 1}, ScanDown(B, sd, l - 1))
    <3>1. l - 1 \in Int
      BY <1>1
    <3> QED
      BY <3>1, ScansFindTheTouch
  <2>4. Rescan(B, sd, l) = ScanDown(B, sd, l - 1)
    BY <1>3 DEF Rescan
  <2> QED
    BY <1>3, <2>2, <2>3, <2>4
<1>4. CASE best = l /\ sd = "Ask"
  <2>1. \A k \in S : k >= l
    BY <1>1, <1>4 DEF IsTouch, IsLowest
  <2>2. {k \in S : k >= l + 1} = S \ {l}
    BY <1>1, <2>1
  <2>3. IsTouch("Ask", {k \in S : k >= l + 1}, ScanUp(B, sd, l + 1))
    <3>1. l + 1 \in Int
      BY <1>1
    <3> QED
      BY <3>1, ScansFindTheTouch
  <2>4. Rescan(B, sd, l) = ScanUp(B, sd, l + 1)
    BY <1>4 DEF Rescan
  <2> QED
    BY <1>4, <2>2, <2>3, <2>4
<1> QED
  BY <1>2, <1>3, <1>4 DEF Sides

LeavesTouch(B, C, s) ==
  LET o == B.pool[s]
      emptied == B.levels[o.side][o.level].total_qty - o.qty = 0
  IN /\ C.bits = IF emptied THEN [B.bits EXCEPT ![o.side] = @ \ {o.level}] ELSE B.bits
     /\ C.best = IF emptied THEN [B.best EXCEPT ![o.side] = Rescan(B, o.side, o.level)]
                 ELSE B.best

\* A leave keeps the level bitset and the cached touch exact, the rescan included.
LEMMA LeaveKeepsTouch ==
  ASSUME NEW B \in Book, NEW C \in Book, NEW s, NEW a, Leaves(B, C, s), LeavesTouch(B, C, s),
         PlacedIn(B), QueuesAreRankedIn(B), SumsAhead(B, a), TotalsAre(B, a), TouchIsExactIn(B)
  PROVE  TouchIsExactIn(C)
<1> DEFINE o == B.pool[s]
           sd == o.side
           l == o.level
           emptied == B.levels[sd][l].total_qty - o.qty = 0
<1> SUFFICES ASSUME NEW k \in Sides
             PROVE  /\ C.bits[k] = {m \in Levels : LiveAt(C, k, m) # {}}
                    /\ IsTouch(k, C.bits[k], C.best[k])
  BY DEF TouchIsExactIn
<1>1. /\ B.bits[k] = {m \in Levels : LiveAt(B, k, m) # {}}
      /\ IsTouch(k, B.bits[k], B.best[k])
  BY Zenon DEF TouchIsExactIn
<1>2. s \in Resting(B) /\ sd \in Sides /\ l \in Levels /\ s \in LiveAt(B, sd, l)
  BY OrderFields, Zenon DEF Leaves, PlacedIn, Resting, LiveAt
<1>3. emptied <=> LiveAt(B, sd, l) = {s}
  BY <1>2, TotalTellsTheLast
<1>4. \A m \in Levels : LiveAt(C, k, m) = LiveAt(B, k, m) \ {s}
  BY LeftLevel
<1>5. \A m \in Levels : s \in LiveAt(B, k, m) => k = sd /\ m = l
  BY DEF LiveAt
<1>6. B.bits \in [Sides -> SUBSET Levels] /\ B.best \in [Sides -> LevelsOrNone]
  BY DEF Book
<1>7. /\ C.bits = IF emptied THEN [B.bits EXCEPT ![sd] = @ \ {l}] ELSE B.bits
      /\ C.best = IF emptied THEN [B.best EXCEPT ![sd] = Rescan(B, sd, l)] ELSE B.best
  BY Zenon DEF LeavesTouch
<1> HIDE DEF emptied, sd, l
<1>8. CASE k = sd /\ emptied
  <2>1. C.bits[k] = B.bits[k] \ {l} /\ C.best[k] = Rescan(B, k, l)
    BY <1>6, <1>7, <1>8
  <2>2. l \in B.bits[k]
    BY <1>1, <1>2, <1>8
  <2>3. \A m \in Levels : LiveAt(C, k, m) # {} <=> LiveAt(B, k, m) # {} /\ m # l
    <3>1. LiveAt(C, k, l) = {}
      BY <1>2, <1>3, <1>4, <1>8
    <3>2. \A m \in Levels : m # l => LiveAt(C, k, m) = LiveAt(B, k, m)
      BY <1>4, <1>5
    <3> QED
      BY <3>1, <3>2
  <2>4. C.bits[k] = {m \in Levels : LiveAt(C, k, m) # {}}
    BY <1>1, <2>1, <2>3
  <2>5. IsTouch(k, B.bits[k] \ {l}, Rescan(B, k, l))
    BY <1>1, <2>2, RescanFindsTheTouch
  <2> QED
    BY <2>1, <2>4, <2>5
<1>9. CASE ~(k = sd /\ emptied)
  <2>1. C.bits[k] = B.bits[k] /\ C.best[k] = B.best[k]
    BY <1>6, <1>7, <1>9
  <2>2. \A m \in Levels : LiveAt(C, k, m) # {} <=> LiveAt(B, k, m) # {}
    BY <1>2, <1>3, <1>4, <1>5, <1>9
  <2>3. {m \in Levels : LiveAt(C, k, m) # {}} = {m \in Levels : LiveAt(B, k, m) # {}}
    BY <2>2
  <2> QED
    BY <1>1, <2>1, <2>3
<1> QED
  BY <1>8, <1>9

\* A leave cannot cross the book.
LEMMA LeaveKeepsUncrossed ==
  ASSUME NEW B \in Book, NEW C \in Book, NEW s, Leaves(B, C, s), UncrossedIn(B)
  PROVE  UncrossedIn(C)
<1>1. \A t \in Slots : Live(C, t) =>
        /\ Live(B, t) /\ C.pool[t].side = B.pool[t].side /\ C.pool[t].level = B.pool[t].level
  BY Zenon DEF Leaves
<1> QED
  BY <1>1 DEF UncrossedIn

\* Our positions after by left at s: each is one that was there, the same
\* order, moved up when it was behind s, never below zero.
LEMMA PositionsMoveUp ==
  ASSUME NEW B \in Book, NEW a, PoolPartitionOf(B), PlacedIn(B), SumsAhead(B, a),
         PositionsAre(B, a), NEW s \in Resting(B), NEW by \in Nat, by <= B.pool[s].qty
  PROVE  LET p == B.pool[s]
             own == OnQtyRemovedAt(B.own, p.level, p.side, p.level_seq, by)
         IN /\ \A n \in own : \E o \in B.own :
                 /\ n.id = o.id /\ n.level = o.level /\ n.side = o.side
                 /\ n.level_seq = o.level_seq /\ n.qty_ahead <= o.qty_ahead
                 /\ n.qty_ahead = IF InFront(B, s, B.map[o.id]) THEN a[B.map[o.id]] - by
                                  ELSE a[B.map[o.id]]
            /\ \A o \in B.own : \E n \in own : n.id = o.id
<1> DEFINE p == B.pool[s]
           own == OnQtyRemovedAt(B.own, p.level, p.side, p.level_seq, by)
           Moved(o) == IF o.level = p.level /\ o.side = p.side /\ p.level_seq < o.level_seq
                       THEN [o EXCEPT !.qty_ahead = AtLeastZero(@ - by)] ELSE o
<1>1. own = {Moved(o) : o \in B.own}
  BY DEF OnQtyRemovedAt
<1>2. ASSUME NEW o \in B.own
      PROVE  LET n == Moved(o)
             IN /\ n.id = o.id /\ n.level = o.level /\ n.side = o.side
                /\ n.level_seq = o.level_seq /\ n.qty_ahead <= o.qty_ahead
                /\ n.qty_ahead = IF InFront(B, s, B.map[o.id]) THEN a[B.map[o.id]] - by
                                 ELSE a[B.map[o.id]]
  <2> DEFINE t == B.map[o.id]
  <2>1. o \in OwnOrder
    BY DEF Book
  <2>2. o.id \in Ids /\ o.qty_ahead \in Int
    BY <2>1 DEF OwnOrder
  <2>3. t # NullOrder /\ o.qty_ahead = a[t]
    BY DEF PositionsAre
  <2>4. B.pool[t].level = o.level /\ B.pool[t].side = o.side /\ B.pool[t].level_seq = o.level_seq
    BY DEF PositionsAre
  <2>5. t \in Resting(B)
    <3>1. t \in Slots /\ B.pool[t].id = o.id
      BY <2>2, <2>3 DEF Book, SlotsOrNull, PoolPartitionOf
    <3> QED
      BY <2>2, <3>1 DEF Resting, Live
  <2>6. InFront(B, s, t) <=>
          o.level = p.level /\ o.side = p.side /\ p.level_seq < o.level_seq
    BY <2>4 DEF InFront
  <2>7. a[t] \in Nat /\ a[s] \in Nat /\ B.pool[s].qty \in Nat
    BY <2>5, OrderFields DEF SumsAhead, PlacedIn, Resting
  <2>8. InFront(B, s, t) => by <= a[t]
    <3>1. InFront(B, s, t) => a[s] + B.pool[s].qty <= a[t]
      BY <2>5 DEF SumsAhead
    <3> QED
      BY <2>7, <3>1
  <2> HIDE DEF t, p
  <2>9. CASE InFront(B, s, t)
    <3>1. Moved(o) = [o EXCEPT !.qty_ahead = a[t] - by]
      <4>1. AtLeastZero(o.qty_ahead - by) = a[t] - by
        BY <2>3, <2>7, <2>8, <2>9 DEF AtLeastZero
      <4>2. Moved(o) = [o EXCEPT !.qty_ahead = AtLeastZero(@ - by)]
        BY <2>6, <2>9
      <4> QED
        BY <4>1, <4>2
    <3>2. ASSUME NEW q
          PROVE  LET n == [o EXCEPT !.qty_ahead = q]
                 IN /\ n.id = o.id /\ n.level = o.level /\ n.side = o.side
                    /\ n.level_seq = o.level_seq /\ n.qty_ahead = q
      BY <2>1, Zenon DEF OwnOrder
    <3>3. a[t] - by <= o.qty_ahead
      BY <2>3, <2>7
    <3> HIDE DEF Moved
    <3> QED
      BY <2>9, <3>1, <3>2, <3>3 DEF t
  <2>10. CASE ~InFront(B, s, t)
    <3>1. Moved(o) = o /\ o.qty_ahead <= o.qty_ahead
      BY <2>2, <2>6, <2>10
    <3> HIDE DEF Moved
    <3> QED
      BY <2>3, <2>10, <3>1 DEF t
  <2> QED
    BY <2>9, <2>10
<1> HIDE DEF own, Moved
<1>3. \A n \in own : \E o \in B.own : n = Moved(o)
  BY <1>1
<1>4. \A o \in B.own : Moved(o) \in own
  BY <1>1
<1> QED
  BY <1>2, <1>3, <1>4 DEF own

LeavesPositions(B, C, s) ==
  LET o == B.pool[s]
      moved == OnQtyRemovedAt(B.own, o.level, o.side, o.level_seq, o.qty)
  IN C.own = IF o.mine THEN DropOwn(moved, o.id) ELSE moved

\* Where one of our orders rests.
LEMMA PositionIsResting ==
  ASSUME NEW B \in Book, NEW a, PoolPartitionOf(B), PositionsAre(B, a), NEW o \in B.own
  PROVE  LET t == B.map[o.id]
         IN /\ o.id \in Ids /\ t \in Resting(B) /\ B.pool[t].id = o.id /\ B.pool[t].mine
            /\ B.pool[t].level = o.level /\ B.pool[t].side = o.side
            /\ B.pool[t].level_seq = o.level_seq /\ o.qty_ahead = a[t]
<1> DEFINE t == B.map[o.id]
<1>1. o.id \in Ids
  <2>1. o \in OwnOrder
    BY DEF Book
  <2> QED
    BY <2>1 DEF OwnOrder
<1>2. t \in Slots /\ B.pool[t].id = o.id
  <2>1. t # NullOrder
    BY DEF PositionsAre
  <2> QED
    BY <1>1, <2>1 DEF Book, SlotsOrNull, PoolPartitionOf
<1>3. t \in Resting(B)
  BY <1>1, <1>2 DEF Resting, Live
<1>4. /\ B.pool[t].mine
      /\ B.pool[t].level = o.level /\ B.pool[t].side = o.side
      /\ B.pool[t].level_seq = o.level_seq /\ o.qty_ahead = a[t]
  BY Zenon DEF PositionsAre
<1> QED
  BY <1>1, <1>2, <1>3, <1>4, Zenon

\* A leave keeps the positions of our orders exact.
LEMMA LeaveKeepsPositions ==
  ASSUME NEW B \in Book, NEW C \in Book, NEW s, NEW a, Leaves(B, C, s), LeavesPositions(B, C, s),
         PoolPartitionOf(B), PlacedIn(B), SumsAhead(B, a), PositionsAre(B, a)
  PROVE  PositionsAre(C, MovedUp(B, Resting(C), a, s, B.pool[s].qty))
<1> DEFINE p == B.pool[s]
           b == MovedUp(B, Resting(C), a, s, p.qty)
           own == OnQtyRemovedAt(B.own, p.level, p.side, p.level_seq, p.qty)
<1>1. s \in Resting(B) /\ Resting(C) = Resting(B) \ {s}
  BY ZenonT(40) DEF Leaves, Resting
<1>2. p.qty \in Nat /\ p.qty <= p.qty /\ p.id \in Ids /\ B.map[p.id] = s
  BY <1>1, OrderFields DEF PlacedIn, Resting, Live
<1>3. /\ \A n \in own : \E o \in B.own :
           /\ n.id = o.id /\ n.level = o.level /\ n.side = o.side
           /\ n.level_seq = o.level_seq /\ n.qty_ahead <= o.qty_ahead
           /\ n.qty_ahead = IF InFront(B, s, B.map[o.id]) THEN a[B.map[o.id]] - p.qty
                            ELSE a[B.map[o.id]]
      /\ \A o \in B.own : \E n \in own : n.id = o.id
  BY <1>1, <1>2, PositionsMoveUp
<1>4. C.own = IF p.mine THEN DropOwn(own, p.id) ELSE own
  BY Zenon DEF LeavesPositions
<1>5. \A t \in Resting(C) : /\ t \in Resting(B) /\ t # s
                            /\ C.pool[t].level = B.pool[t].level
                            /\ C.pool[t].side = B.pool[t].side
                            /\ C.pool[t].level_seq = B.pool[t].level_seq
                            /\ C.pool[t].mine = B.pool[t].mine /\ C.pool[t].id = B.pool[t].id
  <2>1. \A t \in Resting(C) : t \in Resting(B) /\ t # s /\ t \in Slots
    BY <1>1 DEF Resting
  <2> QED
    BY <2>1, Zenon DEF Leaves
<1>6. \A t \in Resting(C) : b[t] = IF InFront(B, s, t) THEN a[t] - p.qty ELSE a[t]
  BY DEF MovedUp
<1>7. \A i \in Ids : i # p.id => C.map[i] = B.map[i]
  BY Zenon DEF Leaves
<1>8. \A t \in Resting(B) : B.map[B.pool[t].id] = t /\ t # NullOrder
  BY DEF Resting, Live, Slots
<1> HIDE DEF b, own, p
<1>9. ASSUME NEW n \in C.own
      PROVE  /\ C.map[n.id] # NullOrder
             /\ LET q == C.pool[C.map[n.id]]
                IN q.mine /\ q.level = n.level /\ q.side = n.side /\ q.level_seq = n.level_seq
             /\ n.qty_ahead = b[C.map[n.id]]
  <2>1. n \in own /\ (p.mine => n.id # p.id)
    <3>1. CASE p.mine
      BY <1>4, <3>1, Zenon DEF DropOwn
    <3>2. CASE ~p.mine
      BY <1>4, <3>2, Zenon
    <3> QED
      BY <3>1, <3>2
  <2>2. PICK o \in B.own :
          /\ n.id = o.id /\ n.level = o.level /\ n.side = o.side /\ n.level_seq = o.level_seq
          /\ n.qty_ahead = IF InFront(B, s, B.map[o.id]) THEN a[B.map[o.id]] - p.qty
                           ELSE a[B.map[o.id]]
    BY <1>3, <2>1, Zenon
  <2> DEFINE t == B.map[o.id]
  <2>3. /\ o.id \in Ids /\ t \in Resting(B) /\ B.pool[t].id = o.id /\ B.pool[t].mine
        /\ B.pool[t].level = o.level /\ B.pool[t].side = o.side
        /\ B.pool[t].level_seq = o.level_seq
    BY PositionIsResting, Zenon
  <2>4. o.id # p.id
    <3>1. ASSUME o.id = p.id PROVE t = s
      BY <1>2, <3>1
    <3>2. ASSUME o.id = p.id PROVE p.mine
      BY <2>3, <3>1, <3>2, Zenon DEF p
    <3> QED
      BY <2>1, <2>2, <3>2, Zenon
  <2>5. C.map[n.id] = t /\ t \in Resting(C)
    <3>1. t # s
      BY <2>3, <2>4 DEF p
    <3> QED
      BY <1>1, <1>7, <2>2, <2>3, <2>4, <3>1
  <2>6. n.qty_ahead = b[t] /\ t # NullOrder
    BY <1>6, <1>8, <2>2, <2>3, <2>5
  <2>7. C.pool[t].mine
    BY <1>5, <2>3, <2>5, Zenon
  <2>8. C.pool[t].level = n.level /\ C.pool[t].side = n.side /\ C.pool[t].level_seq = n.level_seq
    BY <1>5, <2>2, <2>3, <2>5
  <2> HIDE DEF t
  <2> QED
    BY <2>5, <2>6, <2>7, <2>8, Zenon
<1>10. ASSUME NEW t \in Resting(C), C.pool[t].mine PROVE \E n \in C.own : n.id = C.pool[t].id
  <2>1. t \in Resting(B) /\ t # s /\ C.pool[t].id = B.pool[t].id
    BY <1>5
  <2>2. B.pool[t].mine
    BY <1>5, <1>10, Zenon
  <2>3. PICK o \in B.own : o.id = B.pool[t].id
    BY <2>1, <2>2, Zenon DEF PositionsAre
  <2>4. PICK n \in own : n.id = o.id
    BY <1>3, Zenon
  <2>5. n.id # p.id
    BY <1>2, <1>8, <2>1, <2>3, <2>4
  <2>6. n \in C.own
    BY <1>4, <2>4, <2>5, Zenon DEF DropOwn
  <2> QED
    BY <2>1, <2>3, <2>4, <2>6
<1> QED
  BY <1>9, <1>10, Zenon DEF PositionsAre, b, p

\* Unlink keeps a sound book sound.
LEMMA UnlinkKeepsSound ==
  ASSUME NEW B \in Book, NEW a, Sound(B, a), NEW id \in Ids, B.map[id] # NullOrder
  PROVE  LET C == Unlink(B, B.map[id])
         IN Sound(C, MovedUp(B, Resting(C), a, B.map[id], B.pool[B.map[id]].qty))
<1> DEFINE s == B.map[id]
           C == Unlink(B, s)
           b == MovedUp(B, Resting(C), a, s, B.pool[s].qty)
<1>1. /\ PoolPartitionOf(B) /\ PlacedIn(B) /\ QueuesAreRankedIn(B) /\ SumsAhead(B, a)
      /\ TotalsAre(B, a) /\ TouchIsExactIn(B) /\ UncrossedIn(B) /\ PositionsAre(B, a)
  BY DEF Sound
<1>2. s \in Slots /\ B.pool[s].id = id
  BY <1>1 DEF Book, SlotsOrNull, PoolPartitionOf
<1>3. s \in Resting(B)
  BY <1>2 DEF Resting, Live
<1>4. C \in Book /\ PoolPartitionOf(C)
  BY <1>1, <1>2, UnlinkType, UnlinkKeepsPartition
<1>5. Leaves(B, C, s)
  BY <1>1, <1>3, UnlinkLeaves
<1>6. LeavesTouch(B, C, s)
  BY Zenon DEF Unlink, LeavesTouch, UnlinkLevel
<1>7. LeavesPositions(B, C, s)
  BY Zenon DEF Unlink, LeavesPositions
<1> HIDE DEF C, s
<1>8. QueuesAreRankedIn(C)
  BY <1>1, <1>4, <1>5, LeaveKeepsQueues
<1>9. PlacedIn(C) /\ SumsAhead(C, b) /\ TotalsAre(C, b)
  BY <1>1, <1>4, <1>5, LeaveKeepsSums
<1>10. TouchIsExactIn(C)
  BY <1>1, <1>4, <1>5, <1>6, LeaveKeepsTouch
<1>11. UncrossedIn(C)
  BY <1>1, <1>4, <1>5, LeaveKeepsUncrossed
<1>12. PositionsAre(C, b)
  BY <1>1, <1>4, <1>5, <1>7, LeaveKeepsPositions
<1>13. Sound(C, b)
  BY <1>4, <1>8, <1>9, <1>10, <1>11, <1>12 DEF Sound
<1> QED
  BY <1>13 DEF C, s

-----------------------------------------------------------------------------
(***************************************************************************)
(* Part of an order leaves.                                                *)
(***************************************************************************)
\* C is B after by of the order in slot s has left.
Shrinks(B, C, s, by) ==
  LET o  == B.pool[s]
      lv == B.levels[o.side][o.level]
  IN /\ s \in Resting(B)
     /\ \A t \in Slots : Live(C, t) <=> Live(B, t)
     /\ \A t \in Slots :
          /\ C.pool[t].id = B.pool[t].id
          /\ C.pool[t].level = B.pool[t].level /\ C.pool[t].side = B.pool[t].side
          /\ C.pool[t].mine = B.pool[t].mine /\ C.pool[t].level_seq = B.pool[t].level_seq
          /\ C.pool[t].next = B.pool[t].next /\ C.pool[t].prev = B.pool[t].prev
          /\ C.pool[t].qty = IF t = s THEN B.pool[t].qty - by ELSE B.pool[t].qty
     /\ \A k \in Sides, m \in Levels :
          /\ C.levels[k][m].head = B.levels[k][m].head
          /\ C.levels[k][m].tail = B.levels[k][m].tail
          /\ C.levels[k][m].next_seq = B.levels[k][m].next_seq
          /\ C.levels[k][m].total_qty = IF <<k, m>> = <<o.side, o.level>> THEN lv.total_qty - by
                                        ELSE B.levels[k][m].total_qty
     /\ C.map = B.map /\ C.bits = B.bits /\ C.best = B.best
     /\ C.own = OnQtyRemovedAt(B.own, o.level, o.side, o.level_seq, by)

\* Shrink is such a reduction.
LEMMA ShrinkShrinks ==
  ASSUME NEW B \in Book, PlacedIn(B), NEW s \in Resting(B), NEW by \in Int
  PROVE  Shrinks(B, Shrink(B, s, by), s, by)
<1> DEFINE o == B.pool[s]
           C == Shrink(B, s, by)
           lv == [B.levels[o.side][o.level] EXCEPT !.total_qty = @ - by]
<1>1. s \in Slots /\ o.side \in Sides /\ o.level \in Levels
  BY OrderFields DEF PlacedIn, Resting
<1>2. /\ C.pool = [B.pool EXCEPT ![s] = [o EXCEPT !.qty = @ - by]]
      /\ C.levels = [B.levels EXCEPT ![o.side][o.level] = lv]
      /\ C.map = B.map /\ C.bits = B.bits /\ C.best = B.best
      /\ C.own = OnQtyRemovedAt(B.own, o.level, o.side, o.level_seq, by)
  BY DEF Shrink, Book
<1>3. \A t \in Slots : B.pool[t] \in Order
  BY DEF Book
<1>4. \A t \in Slots : C.pool[t] = IF t = s THEN [o EXCEPT !.qty = @ - by] ELSE B.pool[t]
  <2> HIDE DEF C, o
  <2> QED
    BY <1>1, <1>2 DEF Book
<1>5. \A t \in Slots :
        /\ C.pool[t].id = B.pool[t].id
        /\ C.pool[t].level = B.pool[t].level /\ C.pool[t].side = B.pool[t].side
        /\ C.pool[t].mine = B.pool[t].mine /\ C.pool[t].level_seq = B.pool[t].level_seq
        /\ C.pool[t].next = B.pool[t].next /\ C.pool[t].prev = B.pool[t].prev
        /\ C.pool[t].qty = IF t = s THEN B.pool[t].qty - by ELSE B.pool[t].qty
  <2>1. ASSUME NEW p \in Order, NEW n
        PROVE  LET q == [p EXCEPT !.qty = n]
               IN /\ q.id = p.id /\ q.next = p.next /\ q.level = p.level /\ q.side = p.side
                  /\ q.mine = p.mine /\ q.prev = p.prev /\ q.level_seq = p.level_seq
                  /\ q.qty = n
    BY Zenon DEF Order
  <2> HIDE DEF C
  <2>2. C.pool[s] = [o EXCEPT !.qty = o.qty - by] /\ o \in Order
    BY <1>1, <1>3, <1>4
  <2> HIDE DEF o
  <2>3. /\ C.pool[s].id = o.id /\ C.pool[s].next = o.next /\ C.pool[s].level = o.level
        /\ C.pool[s].side = o.side /\ C.pool[s].mine = o.mine /\ C.pool[s].prev = o.prev
        /\ C.pool[s].level_seq = o.level_seq /\ C.pool[s].qty = o.qty - by
    BY <2>1, <2>2
  <2>4. \A t \in Slots : t # s => C.pool[t] = B.pool[t]
    BY <1>4
  <2> QED
    BY <2>3, <2>4, Zenon DEF o
<1>6. \A k \in Sides, m \in Levels :
        C.levels[k][m] = IF k = o.side /\ m = o.level THEN lv ELSE B.levels[k][m]
  <2> HIDE DEF C, o, lv
  <2> QED
    BY <1>1, <1>2 DEF Book
<1>7. /\ lv.head = B.levels[o.side][o.level].head /\ lv.tail = B.levels[o.side][o.level].tail
      /\ lv.next_seq = B.levels[o.side][o.level].next_seq
      /\ lv.total_qty = B.levels[o.side][o.level].total_qty - by
  <2>1. ASSUME NEW p \in Level, NEW n
        PROVE  LET q == [p EXCEPT !.total_qty = n]
               IN /\ q.head = p.head /\ q.tail = p.tail /\ q.next_seq = p.next_seq
                  /\ q.total_qty = n
    BY Zenon DEF Level
  <2>2. B.levels[o.side][o.level] \in Level
    BY <1>1 DEF Book
  <2> HIDE DEF o
  <2> QED
    BY <2>1, <2>2, Zenon
<1>8. \A k \in Sides, m \in Levels :
        /\ C.levels[k][m].head = B.levels[k][m].head
        /\ C.levels[k][m].tail = B.levels[k][m].tail
        /\ C.levels[k][m].next_seq = B.levels[k][m].next_seq
        /\ C.levels[k][m].total_qty = IF <<k, m>> = <<o.side, o.level>>
                                        THEN B.levels[o.side][o.level].total_qty - by
                                        ELSE B.levels[k][m].total_qty
  <2> HIDE DEF C, o, lv
  <2> QED
    BY <1>6, <1>7
<1>9. \A t \in Slots : Live(C, t) <=> Live(B, t)
  <2>1. \A t \in Slots : C.pool[t].id = B.pool[t].id
    BY <1>5
  <2> HIDE DEF C
  <2> QED
    BY <1>2, <2>1, Zenon DEF Live
<1> HIDE DEF C
<1> QED
  BY <1>2, <1>5, <1>8, <1>9, Zenon DEF Shrinks, C

\* A partial reduction touches no link, no touch and no side.
LEMMA ShrinkKeepsQueues ==
  ASSUME NEW B \in Book, NEW C \in Book, NEW s, NEW by \in Int, Shrinks(B, C, s, by),
         QueuesAreRankedIn(B), TouchIsExactIn(B), UncrossedIn(B)
  PROVE  QueuesAreRankedIn(C) /\ TouchIsExactIn(C) /\ UncrossedIn(C)
<1>1. \A t \in Slots :
        /\ Live(C, t) <=> Live(B, t)
        /\ C.pool[t].level = B.pool[t].level /\ C.pool[t].side = B.pool[t].side
        /\ C.pool[t].level_seq = B.pool[t].level_seq
        /\ C.pool[t].next = B.pool[t].next /\ C.pool[t].prev = B.pool[t].prev
  BY Zenon DEF Shrinks
<1>2. \A k \in Sides, m \in Levels : LiveAt(C, k, m) = LiveAt(B, k, m)
  BY <1>1 DEF LiveAt
<1>3. ASSUME NEW k \in Sides, NEW m \in Levels PROVE QueueIsRanked(C, k, m)
  <2>1. QueueIsRanked(B, k, m)
    BY DEF QueuesAreRankedIn
  <2>2. /\ C.levels[k][m].head = B.levels[k][m].head
        /\ C.levels[k][m].tail = B.levels[k][m].tail
        /\ C.levels[k][m].next_seq = B.levels[k][m].next_seq
    BY Zenon DEF Shrinks
  <2>3. Ranks(C) = Ranks(B) /\ Prevs(C) = Prevs(B) /\ Nexts(C) = Nexts(B)
    BY <1>1 DEF Ranks, Prevs, Nexts
  <2>4. Threads(LiveAt(B, k, m), Ranks(B), Prevs(B), Nexts(B), B.levels[k][m].head,
                B.levels[k][m].tail, B.levels[k][m].next_seq)
    BY <2>1, RankedQueueIsThread
  <2> QED
    BY <1>2, <2>2, <2>3, <2>4, RankedQueueIsThread
<1>4. TouchIsExactIn(C)
  <2>1. C.bits = B.bits /\ C.best = B.best
    BY Zenon DEF Shrinks
  <2>2. ASSUME NEW k \in Sides
        PROVE  {m \in Levels : LiveAt(C, k, m) # {}} = {m \in Levels : LiveAt(B, k, m) # {}}
    BY <1>2
  <2> QED
    BY <2>1, <2>2 DEF TouchIsExactIn
<1>5. UncrossedIn(C)
  BY <1>1 DEF UncrossedIn
<1> QED
  BY <1>3, <1>4, <1>5 DEF QueuesAreRankedIn

\* A partial reduction keeps the sums ahead and the totals.
LEMMA ShrinkKeepsSums ==
  ASSUME NEW B \in Book, NEW C \in Book, NEW s, NEW by \in Nat, NEW a, Shrinks(B, C, s, by),
         PlacedIn(B), QueuesAreRankedIn(B), SumsAhead(B, a), TotalsAre(B, a),
         by < B.pool[s].qty
  PROVE  LET b == MovedUp(B, Resting(B), a, s, by)
         IN PlacedIn(C) /\ SumsAhead(C, b) /\ TotalsAre(C, b)
<1> DEFINE b == MovedUp(B, Resting(B), a, s, by)
<1>1. s \in Resting(B) /\ s \in Slots /\ Resting(C) = Resting(B)
  BY Zenon DEF Shrinks, Resting
<1>2. \A t \in Resting(B) :
        /\ t # NullOrder /\ C.pool[t].qty = IF t = s THEN B.pool[t].qty - by ELSE B.pool[t].qty
        /\ C.pool[t].level_seq = B.pool[t].level_seq /\ C.pool[t].prev = B.pool[t].prev
        /\ C.pool[t].side = B.pool[t].side /\ C.pool[t].level = B.pool[t].level
  <2>1. \A t \in Resting(B) : t \in Slots /\ t # NullOrder
    BY DEF Resting, Slots
  <2> QED
    BY <2>1, Zenon DEF Shrinks
<1>3. \A t \in Resting(B) : /\ B.pool[t].qty \in Nat /\ B.pool[t].qty > 0 /\ a[t] \in Nat
                            /\ B.pool[t].level \in Levels /\ B.pool[t].level_seq \in Nat
  BY OrderFields DEF PlacedIn, SumsAhead, Resting
<1>4. \A t \in Resting(B) : b[t] = IF InFront(B, s, t) THEN a[t] - by ELSE a[t]
  BY DEF MovedUp
<1>5. /\ b \in [Resting(B) -> Nat]
      /\ \A x, y \in Resting(B) : InFront(B, x, y) /\ x # s => b[x] + B.pool[x].qty <= b[y]
      /\ \A y \in Resting(B) : InFront(B, s, y) => b[s] + (B.pool[s].qty - by) <= b[y]
  <2>1. by <= B.pool[s].qty
    BY <1>1, <1>3
  <2> QED
    BY <1>1, <2>1, MovedUpInOrder
<1>6. \A t \in Resting(B) : a[t] = IF B.pool[t].prev = NullOrder THEN 0
                                   ELSE a[B.pool[t].prev] + B.pool[B.pool[t].prev].qty
  BY DEF SumsAhead
<1>7. \A t \in Resting(B) : B.pool[t].prev # NullOrder =>
                              B.pool[t].prev \in Resting(B) /\ InFront(B, B.pool[t].prev, t)
  BY LinkedInFront
<1> HIDE DEF b
<1>8. PlacedIn(C)
  BY <1>1, <1>2, <1>3 DEF PlacedIn
<1>9. ASSUME NEW x \in Resting(B)
      PROVE  b[x] = LET p == B.pool[x].prev
                    IN IF p = NullOrder THEN 0 ELSE b[p] + C.pool[p].qty
  <2> DEFINE p == B.pool[x].prev
  <2>1. CASE p = NullOrder
    <3>1. ~InFront(B, s, x)
      BY <1>1, <2>1, BehindTheOrder
    <3> QED
      BY <1>4, <1>6, <2>1, <3>1
  <2>2. CASE p # NullOrder
    <3>1. p \in Resting(B) /\ InFront(B, p, x) /\ a[x] = a[p] + B.pool[p].qty
      BY <1>6, <1>7, <2>2
    <3>2. ~InFront(B, s, s)
      BY <1>1, <1>3 DEF InFront
    <3>3. CASE p = s
      <4>1. InFront(B, s, x) /\ b[x] = a[x] - by /\ b[p] = a[p] /\ C.pool[p].qty = B.pool[p].qty - by
        BY <1>1, <1>2, <1>4, <3>1, <3>2, <3>3
      <4> HIDE DEF p
      <4>2. b[x] = b[p] + C.pool[p].qty
        BY <1>3, <3>1, <4>1
      <4> QED
        BY <2>2, <4>2 DEF p
    <3>4. CASE p # s
      <4>1. C.pool[p].qty = B.pool[p].qty
        BY <1>2, <3>1, <3>4
      <4>2. InFront(B, s, x) <=> InFront(B, s, p)
        <5>1. InFront(B, s, x) => InFront(B, s, p)
          BY <1>1, <3>4, BehindTheOrder
        <5>2. InFront(B, s, p) => InFront(B, s, x)
          BY <1>1, <1>3, <3>1 DEF InFront
        <5> QED
          BY <5>1, <5>2
      <4> HIDE DEF p
      <4>3. b[x] = b[p] + C.pool[p].qty
        BY <1>3, <1>4, <3>1, <4>1, <4>2
      <4> QED
        BY <2>2, <4>3 DEF p
    <3> QED
      BY <3>3, <3>4
  <2> QED
    BY <2>1, <2>2
<1>10. SumsAhead(C, b)
  <2>1. ASSUME NEW x \in Resting(B), NEW y \in Resting(B), InFront(C, x, y)
        PROVE  b[x] + C.pool[x].qty <= b[y]
    <3>1. InFront(B, x, y)
      BY <1>2, <2>1 DEF InFront
    <3> QED
      BY <1>2, <1>5, <3>1
  <2>2. \A x \in Resting(B) : C.pool[x].prev = B.pool[x].prev
    BY <1>2
  <2> QED
    BY <1>1, <1>5, <1>9, <2>1, <2>2 DEF SumsAhead
<1>11. TotalsAre(C, b)
  <2> SUFFICES ASSUME NEW k \in Sides, NEW m \in Levels
               PROVE  C.levels[k][m].total_qty =
                        IF C.levels[k][m].tail = NullOrder THEN 0
                        ELSE b[C.levels[k][m].tail] + C.pool[C.levels[k][m].tail].qty
    BY DEF TotalsAre
  <2> DEFINE z == B.levels[k][m].tail
             total == B.levels[k][m].total_qty
             o == B.pool[s]
  <2>1. total = IF z = NullOrder THEN 0 ELSE a[z] + B.pool[z].qty
    BY DEF TotalsAre
  <2>2. /\ C.levels[k][m].tail = z
        /\ C.levels[k][m].total_qty = IF <<k, m>> = <<o.side, o.level>> THEN total - by ELSE total
    <3>1. /\ C.levels[k][m].tail = B.levels[k][m].tail
          /\ C.levels[k][m].total_qty = IF <<k, m>> = <<B.pool[s].side, B.pool[s].level>>
                                          THEN B.levels[B.pool[s].side][B.pool[s].level].total_qty - by
                                          ELSE B.levels[k][m].total_qty
      BY Zenon DEF Shrinks
    <3> QED
      BY <3>1
  <2>3. QueueIsRanked(B, k, m)
    BY DEF QueuesAreRankedIn
  <2>4. \A t : t \in LiveAt(B, k, m) <=>
          t \in Resting(B) /\ B.pool[t].side = k /\ B.pool[t].level = m
    BY DEF LiveAt, Resting
  <2>5. /\ z # NullOrder => z \in LiveAt(B, k, m)
        /\ LiveAt(B, k, m) # {} => z \in LiveAt(B, k, m)
        /\ \A t \in LiveAt(B, k, m) : B.pool[t].level_seq <= B.pool[z].level_seq
    BY <2>3 DEF QueueIsRanked
  <2> HIDE DEF z, total
  <2>6. CASE <<k, m>> # <<o.side, o.level>>
    <3>1. ASSUME z # NullOrder PROVE b[z] = a[z] /\ C.pool[z].qty = B.pool[z].qty
      <4>1. z \in Resting(B) /\ z # s /\ ~InFront(B, s, z)
        BY <2>4, <2>5, <2>6, <3>1 DEF InFront
      <4> QED
        BY <1>2, <1>4, <4>1
    <3> QED
      BY <2>1, <2>2, <2>6, <3>1
  <2>7. CASE <<k, m>> = <<o.side, o.level>>
    <3>1. z \in Resting(B) /\ z # NullOrder /\ B.pool[z].side = o.side /\ B.pool[z].level = o.level
      BY <1>1, <1>2, <2>4, <2>5, <2>7
    <3>2. total = a[z] + B.pool[z].qty
      BY <2>1, <3>1
    <3>3. b[z] + C.pool[z].qty = total - by
      <4>1. CASE z = s
        <5>1. ~InFront(B, s, s)
          BY <1>1, <1>3 DEF InFront
        <5>2. b[z] = a[z] /\ C.pool[z].qty = B.pool[z].qty - by
          BY <1>1, <1>2, <1>4, <4>1, <5>1
        <5> QED
          BY <1>3, <3>1, <3>2, <5>2
      <4>2. CASE z # s
        <5>1. B.pool[s].level_seq <= B.pool[z].level_seq
          BY <1>1, <2>4, <2>5, <2>7
        <5>2. InFront(B, s, z)
          <6>1. InFront(B, s, z) \/ InFront(B, z, s)
            BY <1>1, <3>1, <4>2, BehindTheOrder
          <6> QED
            BY <1>1, <1>3, <3>1, <5>1, <6>1 DEF InFront
        <5>3. b[z] = a[z] - by /\ C.pool[z].qty = B.pool[z].qty
          BY <1>2, <1>4, <3>1, <4>2, <5>2
        <5> QED
          BY <1>3, <3>1, <3>2, <5>3
      <4> QED
        BY <4>1, <4>2
    <3> QED
      BY <2>2, <2>7, <3>1, <3>3
  <2> QED
    BY <2>6, <2>7
<1> QED
  BY <1>8, <1>10, <1>11 DEF b

\* A partial reduction keeps the positions of our orders exact.
LEMMA ShrinkKeepsPositions ==
  ASSUME NEW B \in Book, NEW C \in Book, NEW s, NEW by \in Nat, NEW a, Shrinks(B, C, s, by),
         PoolPartitionOf(B), PlacedIn(B), SumsAhead(B, a), PositionsAre(B, a),
         by <= B.pool[s].qty
  PROVE  PositionsAre(C, MovedUp(B, Resting(B), a, s, by))
<1> DEFINE p == B.pool[s]
           b == MovedUp(B, Resting(B), a, s, by)
<1>1. s \in Resting(B) /\ Resting(C) = Resting(B) /\ C.map = B.map
  BY Zenon DEF Shrinks, Resting
<1>2. C.own = OnQtyRemovedAt(B.own, p.level, p.side, p.level_seq, by)
  BY Zenon DEF Shrinks
<1>3. /\ \A n \in C.own : \E o \in B.own :
           /\ n.id = o.id /\ n.level = o.level /\ n.side = o.side
           /\ n.level_seq = o.level_seq /\ n.qty_ahead <= o.qty_ahead
           /\ n.qty_ahead = IF InFront(B, s, B.map[o.id]) THEN a[B.map[o.id]] - by
                            ELSE a[B.map[o.id]]
      /\ \A o \in B.own : \E n \in C.own : n.id = o.id
  BY <1>1, <1>2, PositionsMoveUp
<1>4. \A t \in Resting(B) : /\ t # NullOrder
                            /\ C.pool[t].level = B.pool[t].level
                            /\ C.pool[t].side = B.pool[t].side
                            /\ C.pool[t].level_seq = B.pool[t].level_seq
                            /\ C.pool[t].mine = B.pool[t].mine /\ C.pool[t].id = B.pool[t].id
  <2>1. \A t \in Resting(B) : t \in Slots /\ t # NullOrder
    BY DEF Resting, Slots
  <2> QED
    BY <2>1, Zenon DEF Shrinks
<1>5. \A t \in Resting(B) : b[t] = IF InFront(B, s, t) THEN a[t] - by ELSE a[t]
  BY DEF MovedUp
<1> HIDE DEF b, p
<1>6. ASSUME NEW n \in C.own
      PROVE  /\ C.map[n.id] # NullOrder
             /\ LET q == C.pool[C.map[n.id]]
                IN q.mine /\ q.level = n.level /\ q.side = n.side /\ q.level_seq = n.level_seq
             /\ n.qty_ahead = b[C.map[n.id]]
  <2>1. PICK o \in B.own :
          /\ n.id = o.id /\ n.level = o.level /\ n.side = o.side /\ n.level_seq = o.level_seq
          /\ n.qty_ahead = IF InFront(B, s, B.map[o.id]) THEN a[B.map[o.id]] - by
                           ELSE a[B.map[o.id]]
    BY <1>3, Zenon
  <2> DEFINE t == B.map[o.id]
  <2>2. /\ t \in Resting(B) /\ B.pool[t].mine
        /\ B.pool[t].level = o.level /\ B.pool[t].side = o.side
        /\ B.pool[t].level_seq = o.level_seq
    BY PositionIsResting, ZenonT(40)
  <2>3. C.map[n.id] = t /\ t # NullOrder /\ n.qty_ahead = b[t]
    BY <1>1, <1>4, <1>5, <2>1, <2>2
  <2>4. C.pool[t].mine
    BY <1>4, <2>2, Zenon
  <2>5. C.pool[t].level = n.level /\ C.pool[t].side = n.side /\ C.pool[t].level_seq = n.level_seq
    BY <1>4, <2>1, <2>2
  <2> HIDE DEF t
  <2> QED
    BY <2>3, <2>4, <2>5, Zenon
<1>7. ASSUME NEW t \in Resting(C), C.pool[t].mine PROVE \E n \in C.own : n.id = C.pool[t].id
  <2>1. t \in Resting(B) /\ C.pool[t].id = B.pool[t].id
    BY <1>1, <1>4
  <2>2. B.pool[t].mine
    BY <1>4, <1>7, <2>1, Zenon
  <2>3. PICK o \in B.own : o.id = B.pool[t].id
    BY <2>1, <2>2, Zenon DEF PositionsAre
  <2>4. PICK n \in C.own : n.id = o.id
    BY <1>3, Zenon
  <2> QED
    BY <2>1, <2>3, <2>4
<1> QED
  BY <1>6, <1>7, Zenon DEF PositionsAre, b

\* Shrink keeps a sound book sound.
LEMMA ShrinkKeepsSound ==
  ASSUME NEW B \in Book, NEW a, Sound(B, a), NEW id \in Ids, B.map[id] # NullOrder,
         NEW by \in Int, by > 0, by < B.pool[B.map[id]].qty
  PROVE  Sound(Shrink(B, B.map[id], by), MovedUp(B, Resting(B), a, B.map[id], by))
<1> DEFINE s == B.map[id]
           C == Shrink(B, s, by)
           b == MovedUp(B, Resting(B), a, s, by)
<1>1. /\ PoolPartitionOf(B) /\ PlacedIn(B) /\ QueuesAreRankedIn(B) /\ SumsAhead(B, a)
      /\ TotalsAre(B, a) /\ TouchIsExactIn(B) /\ UncrossedIn(B) /\ PositionsAre(B, a)
  BY DEF Sound
<1>2. s \in Slots /\ s \in Resting(B)
  BY <1>1 DEF Book, SlotsOrNull, PoolPartitionOf, Resting, Live
<1>3. C \in Book /\ PoolPartitionOf(C)
  BY <1>1, <1>2, ShrinkType, ShrinkKeepsPartition
<1>4. Shrinks(B, C, s, by)
  BY <1>1, <1>2, ShrinkShrinks
<1>5. by \in Nat /\ by < B.pool[s].qty /\ by <= B.pool[s].qty
  <2>1. B.pool[s].qty \in Int
    BY <1>2, OrderFields
  <2> QED
    BY <2>1
<1> HIDE DEF C, s
<1>6. QueuesAreRankedIn(C) /\ TouchIsExactIn(C) /\ UncrossedIn(C)
  BY <1>1, <1>3, <1>4, ShrinkKeepsQueues
<1>7. PlacedIn(C) /\ SumsAhead(C, b) /\ TotalsAre(C, b)
  BY <1>1, <1>3, <1>4, <1>5, ShrinkKeepsSums
<1>8. PositionsAre(C, b)
  BY <1>1, <1>3, <1>4, <1>5, ShrinkKeepsPositions
<1>9. Sound(C, b)
  BY <1>3, <1>6, <1>7, <1>8 DEF Sound
<1> QED
  BY <1>9 DEF C, s

-----------------------------------------------------------------------------
(***************************************************************************)
(* The operations are compositions of these.                               *)
(***************************************************************************)
IsSound(B) == \E a : Sound(B, a)

\* add keeps the book sound.
LEMMA AddIsSound ==
  ASSUME NEW B \in Book, IsSound(B), NEW id \in Ids, NEW sd \in Sides,
         NEW price \in Int, NEW qty \in Int, NEW mine \in BOOLEAN
  PROVE  IsSound(Add(B, id, sd, price, qty, mine).book)
BY AddKeepsSound DEF IsSound

\* cancel keeps the book sound, for a known id and an unknown one.
LEMMA RemoveIsSound ==
  ASSUME NEW B \in Book, IsSound(B), NEW id \in Ids
  PROVE  IsSound(Remove(B, id).book)
<1>1. CASE B.map[id] = NullOrder
  BY <1>1 DEF Remove, Result
<1>2. CASE B.map[id] # NullOrder
  <2>1. PICK a : Sound(B, a)
    BY DEF IsSound
  <2>2. Remove(B, id).book = Unlink(B, B.map[id])
    BY <1>2 DEF Remove, Result
  <2> QED
    BY <1>2, <2>1, <2>2, UnlinkKeepsSound DEF IsSound
<1> QED
  BY <1>1, <1>2

\* reduce keeps the book sound: part of the order, all of it, or a refusal.
LEMMA ReduceIsSound ==
  ASSUME NEW B \in Book, IsSound(B), NEW id \in Ids, NEW by \in Int
  PROVE  IsSound(Reduce(B, id, by).book)
<1>1. CASE B.map[id] = NullOrder \/ by <= 0 \/ by > B.pool[B.map[id]].qty
  BY <1>1 DEF Reduce, Result
<1>2. CASE B.map[id] # NullOrder /\ by > 0 /\ by = B.pool[B.map[id]].qty
  <2>1. B.pool[B.map[id]].qty \in Int
    BY <1>2
  <2>2. Reduce(B, id, by) = Remove(B, id)
    BY <1>2, <2>1 DEF Reduce
  <2> QED
    BY <2>2, RemoveIsSound
<1>3. CASE B.map[id] # NullOrder /\ by > 0 /\ by < B.pool[B.map[id]].qty
  <2>1. PICK a : Sound(B, a)
    BY DEF IsSound
  <2>2. B.map[id] \in Slots
    BY <1>3 DEF Book, SlotsOrNull
  <2>3. B.pool[B.map[id]].qty \in Int
    BY <2>2, OrderFields
  <2>4. Reduce(B, id, by).book = Shrink(B, B.map[id], by)
    BY <1>3, <2>3 DEF Reduce, Result
  <2> QED
    BY <1>3, <2>1, <2>4, ShrinkKeepsSound DEF IsSound
<1> QED
  <2>1. B.map[id] # NullOrder => B.pool[B.map[id]].qty \in Int
    BY OrderFields DEF Book, SlotsOrNull
  <2> QED
    BY <1>1, <1>2, <1>3, <2>1

\* replace keeps the book sound, also when the new order is refused.
LEMMA ReplaceIsSound ==
  ASSUME NEW B \in Book, IsSound(B), NEW old \in Ids, NEW new \in Ids,
         NEW price \in Int, NEW qty \in Int
  PROVE  IsSound(Replace(B, old, new, price, qty).book)
<1>1. CASE B.map[old] = NullOrder
  BY <1>1 DEF Replace, Result
<1>2. CASE B.map[old] # NullOrder
  <2>1. B.map[old] \in Slots
    BY <1>2 DEF Book, SlotsOrNull
  <2>2. B.pool[B.map[old]].side \in Sides /\ B.pool[B.map[old]].mine \in BOOLEAN
    BY <2>1, OrderFields
  <2>3. Remove(B, old).book \in Book /\ IsSound(Remove(B, old).book)
    BY RemoveType, RemoveIsSound DEF IsResult
  <2> QED
    BY <1>2, <2>2, <2>3, AddIsSound DEF Replace
<1> QED
  BY <1>1, <1>2

\* Nothing rests in a cleared book, and it has no totals, bits or positions.
LEMMA ClearedIsSound ==
  ASSUME NEW C \in Book, PoolPartitionOf(C), C.map = EmptyBook.map, C.levels = EmptyBook.levels,
         C.bits = EmptyBook.bits, C.best = EmptyBook.best, C.own = {}
  PROVE  IsSound(C)
<1> DEFINE a == [t \in Resting(C) |-> 0]
<1>1. \A t \in Slots : ~Live(C, t)
  BY DEF Live, Slots, EmptyBook
<1>2. Resting(C) = {} /\ \A k, m : LiveAt(C, k, m) = {}
  BY <1>1 DEF Resting, LiveAt
<1>3. \A k \in Sides, m \in Levels : C.levels[k][m] = NoQueue
  BY DEF EmptyBook
<1>4. \A k \in Sides : C.bits[k] = {} /\ C.best[k] = NoLevel
  BY DEF EmptyBook
<1>5. QueuesAreRankedIn(C)
  BY <1>2, <1>3 DEF QueuesAreRankedIn, QueueIsRanked, NoQueue
<1>6. PlacedIn(C) /\ SumsAhead(C, a) /\ PositionsAre(C, a)
  BY <1>2 DEF PlacedIn, SumsAhead, PositionsAre
<1>7. TotalsAre(C, a)
  BY <1>3 DEF TotalsAre, NoQueue
<1>8. TouchIsExactIn(C) /\ UncrossedIn(C)
  BY <1>1, <1>2, <1>4 DEF TouchIsExactIn, UncrossedIn, IsTouch
<1> QED
  BY <1>5, <1>6, <1>7, <1>8 DEF IsSound, Sound

\* The book starts sound.
LEMMA EmptyBookIsSound == IsSound(EmptyBook)
BY EmptyBookType, EmptyBookIsPartitioned, ClearedIsSound DEF EmptyBook

\* clear leaves a sound book behind.
LEMMA ClearIsSound ==
  ASSUME NEW B \in Book
  PROVE  IsSound(Clear(B))
BY ClearType, ClearKeepsPartition, ClearedIsSound DEF Clear, EmptyBook

\* The inductive invariant.
BookIsSound == TypeOK /\ IsSound(book)

\* The inductive invariant holds initially.
LEMMA SoundInitially == Init => BookIsSound
BY EmptyBookType, EmptyBookIsSound DEF Init, BookIsSound, TypeOK, Errors

\* Every step keeps the book sound.
LEMMA SoundAfterEveryStep == BookIsSound /\ [Next]_vars => IsSound(book')
<1> SUFFICES ASSUME BookIsSound, [Next]_vars PROVE IsSound(book')
  OBVIOUS
<1> USE InputAssumption DEF BookIsSound, TypeOK, Becomes
<1>1. ASSUME NEW id \in Ids, NEW sd \in Sides, NEW price \in Prices, NEW qty \in Qtys,
             NEW mine \in BOOLEAN, DoAdd(id, sd, price, qty, mine)
      PROVE  IsSound(book')
  BY <1>1, AddIsSound DEF DoAdd
<1>2. ASSUME NEW id \in Ids, NEW by \in Qtys, DoReduce(id, by) PROVE IsSound(book')
  BY <1>2, ReduceIsSound DEF DoReduce
<1>3. ASSUME NEW id \in Ids, NEW qty \in Qtys, DoExecute(id, qty) PROVE IsSound(book')
  BY <1>3, ReduceIsSound DEF DoExecute, Execute
<1>4. ASSUME NEW id \in Ids, DoRemove(id) PROVE IsSound(book')
  BY <1>4, RemoveIsSound DEF DoRemove
<1>5. ASSUME NEW old \in Ids, NEW new \in Ids, NEW price \in Prices, NEW qty \in Qtys,
             DoReplace(old, new, price, qty)
      PROVE  IsSound(book')
  BY <1>5, ReplaceIsSound DEF DoReplace
<1>6. CASE DoClear
  BY <1>6, ClearIsSound DEF DoClear, Result
<1>7. CASE UNCHANGED vars
  BY <1>7 DEF vars
<1> QED
  BY <1>1, <1>2, <1>3, <1>4, <1>5, <1>6, <1>7 DEF Next

(***************************************************************************)
(* After any history of calls the book is sound: the queues are linked in  *)
(* the order of arrival, totals and positions are the sums along them, the *)
(* bitset and the touch tell the occupied levels, and no side crosses.     *)
(***************************************************************************)
THEOREM BookStaysSound == Spec => []BookIsSound
<1>1. Init => BookIsSound
  BY SoundInitially
<1>2. BookIsSound /\ TypeOK' /\ [Next]_vars => BookIsSound'
  BY SoundAfterEveryStep DEF BookIsSound
<1> QED
  BY <1>1, <1>2, TypeCorrect, PTL DEF Spec

-----------------------------------------------------------------------------
(***************************************************************************)
(* What the inductive invariant says of the walks.                         *)
(***************************************************************************)
LEMMA SoundBooksAreExact ==
  ASSUME NEW B \in Book, IsSound(B)
  PROVE  /\ QueuesAreRankedIn(B) /\ TotalsAreExactIn(B) /\ TouchIsExactIn(B) /\ UncrossedIn(B)
         /\ OwnPositionsAreExactIn(B)
<1>1. PICK a : Sound(B, a)
  BY DEF IsSound
<1>2. /\ PlacedIn(B) /\ QueuesAreRankedIn(B) /\ SumsAhead(B, a)
      /\ TotalsAre(B, a) /\ TouchIsExactIn(B) /\ UncrossedIn(B) /\ PositionsAre(B, a)
  BY <1>1 DEF Sound
<1>3. AheadIn(B) = a
  BY <1>2, WalkFindsTheSums
<1>4. TotalsAreExactIn(B)
  <2>1. \A s \in Slots : Live(B, s) => B.pool[s].qty > 0
    BY <1>2 DEF PlacedIn, Resting
  <2> QED
    BY <1>2, <1>3, <2>1 DEF TotalsAre, TotalsAreExactIn
<1>5. OwnPositionsAreExactIn(B)
  <2>1. \A s \in Slots : Live(B, s) /\ B.pool[s].mine => \E o \in B.own : o.id = B.pool[s].id
    BY <1>2, Zenon DEF PositionsAre, Resting
  <2> QED
    BY <1>2, <1>3, <2>1, Zenon DEF PositionsAre, OwnPositionsAreExactIn
<1> QED
  BY <1>2, <1>4, <1>5

\* In every reachable state links, ranks, totals, bitset and touch agree with
\* the orders that rest, and the sides never meet: what check_invariants()
\* walks, for any pool, any window and any history of calls.
THEOREM InvariantsAlwaysHold == Spec => []InvariantsHold
<1>1. BookIsSound => InvariantsHold
  BY SoundBooksAreExact DEF BookIsSound, TypeOK, InvariantsHold
<1> QED
  BY <1>1, BookStaysSound, PTL

\* The incremental queue positions are what a walk of the queue would find,
\* for exactly our resting orders, after any history of calls.
THEOREM PositionsAlwaysExact == Spec => []OwnPositionsAreExact
<1>1. BookIsSound => OwnPositionsAreExact
  BY SoundBooksAreExact DEF BookIsSound, TypeOK, OwnPositionsAreExact
<1> QED
  BY <1>1, BookStaysSound, PTL

-----------------------------------------------------------------------------
(***************************************************************************)
(* Queue positions only drain.                                             *)
(***************************************************************************)
\* Each of our orders in C is one of B that has no more ahead of it, or has a
\* rank B had not handed out; and ranks are never handed out again.
Follows(B, C) ==
  /\ \A n \in C.own :
       \/ B.levels[n.side][n.level].next_seq <= n.level_seq
       \/ \E o \in B.own : /\ n.id = o.id /\ n.level = o.level /\ n.side = o.side
                           /\ n.level_seq = o.level_seq /\ n.qty_ahead <= o.qty_ahead
  /\ \A k \in Sides, m \in Levels : B.levels[k][m].next_seq <= C.levels[k][m].next_seq

\* What our positions' members are, field by field.
LEMMA OwnFields ==
  ASSUME NEW B \in Book, NEW o \in B.own
  PROVE  /\ o.id \in Ids /\ o.level \in Levels /\ o.side \in Sides
         /\ o.level_seq \in Nat /\ o.qty_ahead \in Int
<1>1. o \in OwnOrder
  BY DEF Book
<1> QED
  BY <1>1 DEF OwnOrder

\* A call that changes nothing moves nobody back.
LEMMA EveryBookFollowsItself ==
  ASSUME NEW B \in Book
  PROVE  Follows(B, B)
<1>1. \A o \in B.own : o.qty_ahead <= o.qty_ahead
  BY OwnFields
<1>2. \A k \in Sides, m \in Levels : B.levels[k][m].next_seq <= B.levels[k][m].next_seq
  BY LevelFields
<1> QED
  BY <1>1, <1>2 DEF Follows

\* Two calls that move nobody back do not together either.
LEMMA FollowsIsTransitive ==
  ASSUME NEW B \in Book, NEW C \in Book, NEW D \in Book, Follows(B, C), Follows(C, D)
  PROVE  Follows(B, D)
<1>1. \A k \in Sides, m \in Levels :
        /\ B.levels[k][m].next_seq \in Nat /\ C.levels[k][m].next_seq \in Nat
        /\ D.levels[k][m].next_seq \in Nat
        /\ B.levels[k][m].next_seq <= C.levels[k][m].next_seq
        /\ C.levels[k][m].next_seq <= D.levels[k][m].next_seq
  BY LevelFields DEF Follows
<1>2. ASSUME NEW n \in D.own
      PROVE  \/ B.levels[n.side][n.level].next_seq <= n.level_seq
             \/ \E o \in B.own : /\ n.id = o.id /\ n.level = o.level /\ n.side = o.side
                                 /\ n.level_seq = o.level_seq /\ n.qty_ahead <= o.qty_ahead
  <2>1. n.level \in Levels /\ n.side \in Sides /\ n.level_seq \in Nat /\ n.qty_ahead \in Int
    BY OwnFields
  <2>2. CASE C.levels[n.side][n.level].next_seq <= n.level_seq
    BY <1>1, <2>1, <2>2
  <2>3. CASE \E o \in C.own : /\ n.id = o.id /\ n.level = o.level /\ n.side = o.side
                              /\ n.level_seq = o.level_seq /\ n.qty_ahead <= o.qty_ahead
    <3>1. PICK c \in C.own : /\ n.id = c.id /\ n.level = c.level /\ n.side = c.side
                             /\ n.level_seq = c.level_seq /\ n.qty_ahead <= c.qty_ahead
      BY <2>3
    <3>2. CASE B.levels[c.side][c.level].next_seq <= c.level_seq
      BY <3>1, <3>2
    <3>3. CASE \E o \in B.own : /\ c.id = o.id /\ c.level = o.level /\ c.side = o.side
                                /\ c.level_seq = o.level_seq /\ c.qty_ahead <= o.qty_ahead
      <4>1. PICK o \in B.own : /\ c.id = o.id /\ c.level = o.level /\ c.side = o.side
                               /\ c.level_seq = o.level_seq /\ c.qty_ahead <= o.qty_ahead
        BY <3>3
      <4>2. n.qty_ahead <= o.qty_ahead
        BY <2>1, <3>1, <4>1, OwnFields
      <4> QED
        BY <3>1, <4>1, <4>2
    <3> QED
      BY <3>2, <3>3 DEF Follows
  <2> QED
    BY <2>2, <2>3 DEF Follows
<1> QED
  <2>1. \A k \in Sides, m \in Levels : B.levels[k][m].next_seq <= D.levels[k][m].next_seq
    BY <1>1
  <2> QED
    BY <1>2, <2>1 DEF Follows

\* add moves none of our orders back.
LEMMA AddFollows ==
  ASSUME NEW B \in Book, IsSound(B), NEW id \in Ids, NEW sd \in Sides,
         NEW price \in Int, NEW qty \in Int, NEW mine \in BOOLEAN
  PROVE  Follows(B, Add(B, id, sd, price, qty, mine).book)
<1>1. CASE /\ qty > 0 /\ InWindow(price) /\ B.free # <<>> /\ ~Crosses(B, sd, price)
           /\ B.map[id] = NullOrder
  <2> DEFINE l == ToIndex(price)
             C == Enqueue(B, id, sd, l, qty, mine)
  <2>1. Add(B, id, sd, price, qty, mine).book = C
    BY <1>1 DEF Add, Result
  <2>2. l \in Levels
    BY <1>1, InWindowIsLevel
  <2>3. PoolPartitionOf(B)
    BY DEF IsSound, Sound
  <2> HIDE DEF l
  <2>4. Joins(B, C, NextSlot(B), id, sd, l, qty, mine)
    BY <1>1, <2>2, <2>3, EnqueueJoins
  <2>5. \A n \in C.own : n \in B.own \/ B.levels[n.side][n.level].next_seq <= n.level_seq
    <3>1. \A n \in C.own : n \in B.own \/ n = [id |-> id, level |-> l,
                             level_seq |-> B.levels[sd][l].next_seq,
                             qty_ahead |-> B.levels[sd][l].total_qty, side |-> sd]
      BY DEF Enqueue, NextRank
    <3>2. B.levels[sd][l].next_seq <= B.levels[sd][l].next_seq
      BY <2>2, LevelFields
    <3> HIDE DEF C
    <3> QED
      BY <3>1, <3>2
  <2> HIDE DEF C
  <2>6. \A k \in Sides, m \in Levels : B.levels[k][m].next_seq <= C.levels[k][m].next_seq
    <3>1. \A k \in Sides, m \in Levels : <<k, m>> # <<sd, l>> => C.levels[k][m] = B.levels[k][m]
      BY <2>4, Zenon DEF Joins
    <3>2. C.levels[sd][l].next_seq = B.levels[sd][l].next_seq + 1
      BY <2>4, Zenon DEF Joins
    <3>3. \A k \in Sides, m \in Levels : B.levels[k][m].next_seq \in Nat
      BY LevelFields
    <3> QED
      BY <3>1, <3>2, <3>3
  <2>7. Follows(B, C)
    <3>1. \A o \in B.own : o.qty_ahead <= o.qty_ahead
      BY OwnFields
    <3> QED
      BY <2>5, <2>6, <3>1 DEF Follows
  <2> QED
    BY <2>1, <2>7
<1>2. CASE ~(/\ qty > 0 /\ InWindow(price) /\ B.free # <<>> /\ ~Crosses(B, sd, price)
             /\ B.map[id] = NullOrder)
  <2>1. Add(B, id, sd, price, qty, mine).book = B
    BY <1>2 DEF Add, Result
  <2> QED
    BY <2>1, EveryBookFollowsItself
<1> QED
  BY <1>1, <1>2

\* cancel moves none of our orders back.
LEMMA RemoveFollows ==
  ASSUME NEW B \in Book, IsSound(B), NEW id \in Ids
  PROVE  Follows(B, Remove(B, id).book)
<1>1. CASE B.map[id] = NullOrder
  BY <1>1, EveryBookFollowsItself DEF Remove, Result
<1>2. CASE B.map[id] # NullOrder
  <2> DEFINE s == B.map[id]
             p == B.pool[s]
             C == Unlink(B, s)
             own == OnQtyRemovedAt(B.own, p.level, p.side, p.level_seq, p.qty)
  <2>1. PICK a : Sound(B, a)
    BY DEF IsSound
  <2>2. PoolPartitionOf(B) /\ PlacedIn(B) /\ SumsAhead(B, a) /\ PositionsAre(B, a)
    BY <2>1 DEF Sound
  <2>3. s \in Resting(B)
    BY <1>2, <2>2 DEF Book, SlotsOrNull, PoolPartitionOf, Resting, Live
  <2>4. p.qty \in Nat /\ p.qty <= B.pool[s].qty
    BY <2>2, <2>3, OrderFields DEF PlacedIn, Resting
  <2>5. \A n \in C.own : n \in own
    BY DEF Unlink, DropOwn
  <2>6. Leaves(B, C, s)
    BY <2>2, <2>3, UnlinkLeaves
  <2>7. \A n \in own : \E o \in B.own :
          /\ n.id = o.id /\ n.level = o.level /\ n.side = o.side
          /\ n.level_seq = o.level_seq /\ n.qty_ahead <= o.qty_ahead
    BY <2>2, <2>3, <2>4, PositionsMoveUp
  <2>8. Remove(B, id).book = C
    BY <1>2 DEF Remove, Result
  <2> HIDE DEF C, own
  <2>9. \A k \in Sides, m \in Levels : B.levels[k][m].next_seq <= C.levels[k][m].next_seq
    <3>1. /\ \A k \in Sides, m \in Levels :
               <<k, m>> # <<p.side, p.level>> => C.levels[k][m] = B.levels[k][m]
          /\ C.levels[p.side][p.level].next_seq = B.levels[p.side][p.level].next_seq
      BY <2>6, Zenon DEF Leaves
    <3> HIDE DEF p
    <3> QED
      BY <3>1, LevelFields
  <2> QED
    BY <2>5, <2>7, <2>8, <2>9 DEF Follows
<1> QED
  BY <1>1, <1>2

\* reduce moves none of our orders back.
LEMMA ReduceFollows ==
  ASSUME NEW B \in Book, IsSound(B), NEW id \in Ids, NEW by \in Int
  PROVE  Follows(B, Reduce(B, id, by).book)
<1>1. CASE B.map[id] = NullOrder \/ by <= 0 \/ by > B.pool[B.map[id]].qty
  BY <1>1, EveryBookFollowsItself DEF Reduce, Result
<1>2. CASE B.map[id] # NullOrder /\ by > 0 /\ by = B.pool[B.map[id]].qty
  <2>1. Reduce(B, id, by) = Remove(B, id)
    BY <1>2 DEF Reduce
  <2> QED
    BY <2>1, RemoveFollows
<1>3. CASE B.map[id] # NullOrder /\ by > 0 /\ by < B.pool[B.map[id]].qty
  <2> DEFINE s == B.map[id]
             p == B.pool[s]
             C == Shrink(B, s, by)
  <2>1. PICK a : Sound(B, a)
    BY DEF IsSound
  <2>2. PoolPartitionOf(B) /\ PlacedIn(B) /\ SumsAhead(B, a) /\ PositionsAre(B, a)
    BY <2>1 DEF Sound
  <2>3. s \in Resting(B)
    BY <1>3, <2>2 DEF Book, SlotsOrNull, PoolPartitionOf, Resting, Live
  <2>4. by \in Nat /\ by <= B.pool[s].qty
    BY <1>3, <2>3, OrderFields DEF Resting
  <2>5. Shrinks(B, C, s, by)
    BY <2>2, <2>3, ShrinkShrinks
  <2>6. Reduce(B, id, by).book = C
    BY <1>3, <2>3, OrderFields DEF Reduce, Result, Resting
  <2> HIDE DEF C
  <2>7. C.own = OnQtyRemovedAt(B.own, p.level, p.side, p.level_seq, by)
    BY <2>5, Zenon DEF Shrinks
  <2>8. \A n \in C.own : \E o \in B.own :
          /\ n.id = o.id /\ n.level = o.level /\ n.side = o.side
          /\ n.level_seq = o.level_seq /\ n.qty_ahead <= o.qty_ahead
    BY <2>2, <2>3, <2>4, <2>7, PositionsMoveUp
  <2>9. \A k \in Sides, m \in Levels : B.levels[k][m].next_seq <= C.levels[k][m].next_seq
    <3>1. \A k \in Sides, m \in Levels : C.levels[k][m].next_seq = B.levels[k][m].next_seq
      BY <2>5, ZenonT(40) DEF Shrinks
    <3> QED
      BY <3>1, LevelFields
  <2> QED
    BY <2>6, <2>8, <2>9 DEF Follows
<1> QED
  <2>1. B.map[id] # NullOrder => B.pool[B.map[id]].qty \in Int
    BY OrderFields DEF Book, SlotsOrNull
  <2> QED
    BY <1>1, <1>2, <1>3, <2>1

\* replace moves none of our orders back: what it moves gets a new rank.
LEMMA ReplaceFollows ==
  ASSUME NEW B \in Book, IsSound(B), NEW old \in Ids, NEW new \in Ids,
         NEW price \in Int, NEW qty \in Int
  PROVE  Follows(B, Replace(B, old, new, price, qty).book)
<1>1. CASE B.map[old] = NullOrder
  BY <1>1, EveryBookFollowsItself DEF Replace, Result
<1>2. CASE B.map[old] # NullOrder
  <2> DEFINE C == Remove(B, old).book
             p == B.pool[B.map[old]]
             D == Add(C, new, p.side, price, qty, p.mine).book
  <2>1. p.side \in Sides /\ p.mine \in BOOLEAN
    BY <1>2, OrderFields DEF Book, SlotsOrNull
  <2>2. C \in Book /\ IsSound(C) /\ Follows(B, C)
    BY RemoveType, RemoveIsSound, RemoveFollows DEF IsResult
  <2>3. Replace(B, old, new, price, qty).book = D
    BY <1>2 DEF Replace
  <2> HIDE DEF C, p
  <2>4. D \in Book /\ Follows(C, D)
    BY <2>1, <2>2, AddType, AddFollows DEF IsResult
  <2> HIDE DEF D
  <2> QED
    BY <2>2, <2>3, <2>4, FollowsIsTransitive
<1> QED
  BY <1>1, <1>2

\* Every call follows the book before it, or leaves no position of ours.
LEMMA EveryStepFollows ==
  BookIsSound /\ [Next]_vars => Follows(book, book') \/ book'.own = {}
<1> SUFFICES ASSUME BookIsSound, [Next]_vars PROVE Follows(book, book') \/ book'.own = {}
  OBVIOUS
<1> USE InputAssumption DEF BookIsSound, TypeOK, Becomes
<1>1. ASSUME NEW id \in Ids, NEW sd \in Sides, NEW price \in Prices, NEW qty \in Qtys,
             NEW mine \in BOOLEAN, DoAdd(id, sd, price, qty, mine)
      PROVE  Follows(book, book')
  BY <1>1, AddFollows DEF DoAdd
<1>2. ASSUME NEW id \in Ids, NEW by \in Qtys, DoReduce(id, by) PROVE Follows(book, book')
  BY <1>2, ReduceFollows DEF DoReduce
<1>3. ASSUME NEW id \in Ids, NEW qty \in Qtys, DoExecute(id, qty) PROVE Follows(book, book')
  BY <1>3, ReduceFollows DEF DoExecute, Execute
<1>4. ASSUME NEW id \in Ids, DoRemove(id) PROVE Follows(book, book')
  BY <1>4, RemoveFollows DEF DoRemove
<1>5. ASSUME NEW old \in Ids, NEW new \in Ids, NEW price \in Prices, NEW qty \in Qtys,
             DoReplace(old, new, price, qty)
      PROVE  Follows(book, book')
  BY <1>5, ReplaceFollows DEF DoReplace
<1>6. CASE DoClear
  BY <1>6 DEF DoClear, Result, Clear, EmptyBook
<1>7. CASE UNCHANGED vars
  BY <1>7, EveryBookFollowsItself DEF vars
<1> QED
  BY <1>1, <1>2, <1>3, <1>4, <1>5, <1>6, <1>7 DEF Next

\* Of two positions in a book that follows another, the same order of ours at
\* the same rank never has more ahead of it than before.
LEMMA FollowingDrains ==
  ASSUME NEW B \in Book, NEW C \in Book, IsSound(B), Follows(B, C),
         NEW o \in B.own, NEW n \in C.own,
         o.id = n.id, o.side = n.side, o.level = n.level, o.level_seq = n.level_seq
  PROVE  n.qty_ahead <= o.qty_ahead
<1>1. PICK a : Sound(B, a)
  BY DEF IsSound
<1>2. PoolPartitionOf(B) /\ PositionsAre(B, a) /\ QueuesAreRankedIn(B)
  BY <1>1 DEF Sound
<1>3. ASSUME NEW c \in B.own, c.id = o.id PROVE c.qty_ahead = o.qty_ahead
  BY <1>2, <1>3, PositionIsResting
<1>4. o.level_seq < B.levels[o.side][o.level].next_seq
  <2> DEFINE t == B.map[o.id]
  <2>1. /\ t \in Resting(B) /\ B.pool[t].level = o.level /\ B.pool[t].side = o.side
        /\ B.pool[t].level_seq = o.level_seq
    BY <1>2, PositionIsResting, Zenon
  <2>2. o.side \in Sides /\ o.level \in Levels
    BY OwnFields
  <2>3. QueueIsRanked(B, o.side, o.level)
    BY <1>2, <2>2 DEF QueuesAreRankedIn
  <2>4. t \in LiveAt(B, o.side, o.level)
    BY <2>1 DEF LiveAt, Resting
  <2> QED
    BY <2>1, <2>3, <2>4, Zenon DEF QueueIsRanked
<1>5. B.levels[o.side][o.level].next_seq \in Nat /\ o.level_seq \in Nat
  BY OwnFields, LevelFields
<1>6. ~(B.levels[n.side][n.level].next_seq <= n.level_seq)
  BY <1>4, <1>5
<1>7. PICK c \in B.own : n.id = c.id /\ n.qty_ahead <= c.qty_ahead
  BY <1>6 DEF Follows
<1> QED
  BY <1>3, <1>7

\* No call ever pushes one of our resting orders back in its queue.
THEOREM PositionsOnlyDrain == Spec => QueueOnlyDrains
<1>1. BookIsSound /\ TypeOK' /\ [Next]_vars =>
        [\A o \in book.own, n \in book'.own :
           o.id = n.id /\ o.side = n.side /\ o.level = n.level /\ o.level_seq = n.level_seq
             => n.qty_ahead <= o.qty_ahead]_vars
  BY EveryStepFollows, FollowingDrains DEF BookIsSound, TypeOK
<1> QED
  BY <1>1, BookStaysSound, TypeCorrect, PTL DEF Spec, QueueOnlyDrains
=============================================================================
