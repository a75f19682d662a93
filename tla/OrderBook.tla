----------------------------- MODULE OrderBook -----------------------------
(***************************************************************************)
(* The L3 order book of include/lob/book/order_book.hpp and                *)
(* src/order_book.cpp: a pool of order slots, an intrusive doubly-linked   *)
(* FIFO per price level, one occupancy bitset and one cached touch per     *)
(* side, a map from order id to slot, a LIFO free list and the queue       *)
(* position of our own orders, maintained incrementally.                   *)
(*                                                                         *)
(* A book is a VALUE, a record with one field per data member, and every   *)
(* member function is an operator from a book to a book and a result.  The *)
(* compositions the code makes (replace is remove then add, reduce to zero *)
(* is remove, the matching engine is a loop of execute and remove) are     *)
(* compositions of these operators, and a fact proved about one operator   *)
(* serves every caller.                                                    *)
(*                                                                         *)
(* Levels are named by their index in the window, as in the code.  Left    *)
(* out: the statistics counters and the words of the bitset (a bitset is   *)
(* the set of its members).                                                *)
(***************************************************************************)
EXTENDS Integers, Sequences

CONSTANTS
  Ids,          \* the order ids a feed or a strategy may name
  MaxOrders,    \* size of the order pool: the max_orders of the constructor
  WindowBase,   \* price in ticks of level 0
  WindowTicks,  \* number of levels
  Prices,       \* the prices callers name, inside the window or not
  Qtys,         \* the quantities callers name, non-positive ones included
  MaxRank       \* bound on a level's arrival counter (uint64_t in the code)

ASSUME MaxOrdersAssumption == MaxOrders \in Nat
ASSUME WindowAssumption == WindowBase \in Int /\ WindowTicks \in Nat
ASSUME InputAssumption == Ids \subseteq Nat /\ Prices \subseteq Int /\ Qtys \subseteq Int
ASSUME MaxRankAssumption == MaxRank \in Nat

Sides == {"Bid", "Ask"}
Opposite(sd) == IF sd = "Bid" THEN "Ask" ELSE "Bid"

Slots == 0 .. MaxOrders - 1
Levels == 0 .. WindowTicks - 1

NullOrder == -1         \* kNullOrder, and OrderMap::kEmpty
NoLevel == -1           \* kNoLevel
NoId == 0                \* OrderId{}: the id of a slot that was never used

SlotsOrNull == Slots \cup {NullOrder}
LevelsOrNone == Levels \cup {NoLevel}

Errors == {"Ok", "UnknownOrder", "DuplicateOrder", "PriceOutOfWindow",
           "PoolExhausted", "BadQuantity", "CrossedBook"}

-----------------------------------------------------------------------------
(***************************************************************************)
(* The data members.                                                       *)
(***************************************************************************)
Order == [id : Ids \cup {NoId}, qty : Int, level : Int, side : Sides,
          mine : BOOLEAN, prev : SlotsOrNull, next : SlotsOrNull, level_seq : Nat]

Level == [total_qty : Int, head : SlotsOrNull, tail : SlotsOrNull,
          count : Int, next_seq : Nat]

OwnOrder == [id : Ids, level : Levels, level_seq : Nat, qty_ahead : Int, side : Sides]

Book == [pool   : [Slots -> Order],
         levels : [Sides -> [Levels -> Level]],
         bits   : [Sides -> SUBSET Levels],
         best   : [Sides -> LevelsOrNone],
         map    : [Ids -> SlotsOrNull],
         free   : Seq(Slots),
         own    : SUBSET OwnOrder]

NoOrder == [id |-> NoId, qty |-> 0, level |-> 0, side |-> "Bid", mine |-> FALSE,
            prev |-> NullOrder, next |-> NullOrder, level_seq |-> 0]

NoQueue == [total_qty |-> 0, head |-> NullOrder, tail |-> NullOrder,
            count |-> 0, next_seq |-> 0]

\* A plausible slip: the list counts from one, and names a slot past the pool.
FullFreeListFromOne == [i \in 1 .. MaxOrders |-> MaxOrders - i + 1]

\* Slots are handed out front to back: the list is popped at its end.
FullFreeList == [i \in 1 .. MaxOrders |-> MaxOrders - i]

EmptyBook ==
  [pool   |-> [s \in Slots |-> NoOrder],
   levels |-> [sd \in Sides |-> [l \in Levels |-> NoQueue]],
   bits   |-> [sd \in Sides |-> {}],
   best   |-> [sd \in Sides |-> NoLevel],
   map    |-> [id \in Ids |-> NullOrder],
   free   |-> FullFreeList,
   own    |-> {}]

-----------------------------------------------------------------------------
(***************************************************************************)
(* Prices and levels, and the scans for the next occupied level.           *)
(***************************************************************************)
InWindow(price) == price >= WindowBase /\ price < WindowBase + WindowTicks
ToIndex(price) == price - WindowBase
ToPrice(l) == IF l = NoLevel THEN 0 ELSE WindowBase + l

HasBest(B, sd) == B.best[sd] # NoLevel
BestPrice(B, sd) == ToPrice(B.best[sd])

IsHighest(S, l) == l \in S /\ \A k \in S : k <= l
IsLowest(S, l) == l \in S /\ \A k \in S : k >= l

\* Level l of side sd is the touch of the levels in S, or S is empty.
IsTouch(sd, S, l) ==
  \/ S = {} /\ l = NoLevel
  \/ sd = "Bid" /\ IsHighest(S, l)
  \/ sd = "Ask" /\ IsLowest(S, l)

ScanDown(B, sd, from) ==
  CHOOSE l \in LevelsOrNone : IsTouch("Bid", {k \in B.bits[sd] : k <= from}, l)

ScanUp(B, sd, from) ==
  CHOOSE l \in LevelsOrNone : IsTouch("Ask", {k \in B.bits[sd] : k >= from}, l)

\* A level that becomes occupied takes over the touch when it is nearer.
Nearer(sd, l, best) ==
  best = NoLevel \/ (IF sd = "Bid" THEN l > best ELSE l < best)

\* A plausible slip: locking the book is not seen as crossing it.
CrossesNotLocks(B, sd, price) ==
  /\ HasBest(B, Opposite(sd))
  /\ IF sd = "Bid" THEN price > BestPrice(B, "Ask") ELSE price < BestPrice(B, "Bid")

\* A new order at this price would cross or lock the book.
Crosses(B, sd, price) ==
  /\ HasBest(B, Opposite(sd))
  /\ IF sd = "Bid" THEN price >= BestPrice(B, "Ask") ELSE price <= BestPrice(B, "Bid")

-----------------------------------------------------------------------------
(***************************************************************************)
(* Our own orders.                                                         *)
(***************************************************************************)
AtLeastZero(n) == IF n < 0 THEN 0 ELSE n

\* A plausible slip: whatever leaves the level is taken to have been ahead.
OnQtyRemovedAnywhere(own, l, sd, seq, qty) ==
  {IF o.level = l /\ o.side = sd
     THEN [o EXCEPT !.qty_ahead = AtLeastZero(@ - qty)]
     ELSE o : o \in own}

\* A plausible slip: the sign of the departing quantity.
OnQtyAddedAt(own, l, sd, seq, qty) ==
  {IF o.level = l /\ o.side = sd /\ seq < o.level_seq
     THEN [o EXCEPT !.qty_ahead = @ + qty]
     ELSE o : o \in own}

\* `qty` leaves level l at arrival rank `seq`: our orders behind it move up.
OnQtyRemovedAt(own, l, sd, seq, qty) ==
  {IF o.level = l /\ o.side = sd /\ seq < o.level_seq
     THEN [o EXCEPT !.qty_ahead = AtLeastZero(@ - qty)]
     ELSE o : o \in own}

DropOwn(own, id) == {o \in own : o.id # id}

-----------------------------------------------------------------------------
(***************************************************************************)
(* The operations.  Each returns the book it leaves and the BookError.     *)
(***************************************************************************)
Result(B, e) == [book |-> B, err |-> e]

\* The slot at the end of the free list, the next one handed out.
NextSlot(B) == B.free[Len(B.free)]

\* A plausible slip: the slot is read but not popped.
PopNothing(B) == B.free
PopSlot(B) == SubSeq(B.free, 1, Len(B.free) - 1)

\* The rank of the next arrival.  The counter goes on when the level empties.
NextRank(lv) == lv.next_seq

\* The order joins the back of its level: links, total, bitset, touch, own.
Enqueue(B, id, sd, l, qty, mine) ==
  LET s   == NextSlot(B)
      lv  == B.levels[sd][l]
      new == [id |-> id, qty |-> qty, level |-> l, side |-> sd, mine |-> mine,
              prev |-> lv.tail, next |-> NullOrder, level_seq |-> NextRank(lv)]
      wasEmpty == lv.total_qty = 0
  IN [pool   |-> [t \in Slots |->
                    IF t = s THEN new
                    ELSE IF t = lv.tail THEN [B.pool[t] EXCEPT !.next = s]
                    ELSE B.pool[t]],
      levels |-> [B.levels EXCEPT ![sd][l] =
                    [total_qty |-> lv.total_qty + qty,
                     head      |-> IF lv.tail # NullOrder THEN lv.head ELSE s,
                     tail      |-> s,
                     count     |-> lv.count + 1,
                     next_seq  |-> lv.next_seq + 1]],
      bits   |-> IF wasEmpty THEN [B.bits EXCEPT ![sd] = @ \cup {l}] ELSE B.bits,
      best   |-> IF wasEmpty /\ Nearer(sd, l, B.best[sd])
                   THEN [B.best EXCEPT ![sd] = l] ELSE B.best,
      map    |-> [B.map EXCEPT ![id] = s],
      free   |-> PopSlot(B),
      own    |-> IF mine
                   THEN B.own \cup {[id |-> id, level |-> l, level_seq |-> NextRank(lv),
                                     qty_ahead |-> lv.total_qty, side |-> sd]}
                   ELSE B.own]

\* The checks come before any mutation: a rejected add leaves no trace.
Add(B, id, sd, price, qty, mine) ==
  IF qty <= 0 THEN Result(B, "BadQuantity")
  ELSE IF ~InWindow(price) THEN Result(B, "PriceOutOfWindow")
  ELSE IF B.free = <<>> THEN Result(B, "PoolExhausted")
  ELSE IF Crosses(B, sd, price) THEN Result(B, "CrossedBook")
  ELSE IF B.map[id] # NullOrder THEN Result(B, "DuplicateOrder")
  ELSE Result(Enqueue(B, id, sd, ToIndex(price), qty, mine), "Ok")

\* A plausible slip: the order behind keeps pointing at the slot that left.
UnlinkPoolForwardOnly(B, s) ==
  [t \in Slots |->
     IF t = s THEN [B.pool[t] EXCEPT !.prev = NullOrder, !.next = NullOrder]
     ELSE IF t = B.pool[s].prev THEN [B.pool[t] EXCEPT !.next = B.pool[s].next]
     ELSE B.pool[t]]

\* The slot's neighbours close over it and its own links are reset.
UnlinkPool(B, s) ==
  [t \in Slots |->
     IF t = s THEN [B.pool[t] EXCEPT !.prev = NullOrder, !.next = NullOrder]
     ELSE IF t = B.pool[s].prev THEN [B.pool[t] EXCEPT !.next = B.pool[s].next]
     ELSE IF t = B.pool[s].next THEN [B.pool[t] EXCEPT !.prev = B.pool[s].prev]
     ELSE B.pool[t]]

\* The level after the slot left it; a level whose total is zero is reset,
\* except for its arrival counter.
UnlinkLevel(B, s) ==
  LET o     == B.pool[s]
      lv    == B.levels[o.side][o.level]
      total == lv.total_qty - o.qty
  IN [total_qty |-> total,
      head      |-> IF total = 0 THEN NullOrder
                    ELSE IF o.prev = NullOrder THEN o.next ELSE lv.head,
      tail      |-> IF total = 0 THEN NullOrder
                    ELSE IF o.next = NullOrder THEN o.prev ELSE lv.tail,
      count     |-> IF total = 0 THEN 0 ELSE lv.count - 1,
      next_seq  |-> lv.next_seq]

\* The touch is rescanned only when the level that emptied was the touch.
Rescan(B, sd, l) ==
  IF B.best[sd] # l THEN B.best[sd]
  ELSE IF sd = "Bid" THEN ScanDown(B, sd, l - 1) ELSE ScanUp(B, sd, l + 1)

Unlink(B, s) ==
  LET o       == B.pool[s]
      emptied == UnlinkLevel(B, s).total_qty = 0
      moved   == OnQtyRemovedAt(B.own, o.level, o.side, o.level_seq, o.qty)
  IN [pool   |-> UnlinkPool(B, s),
      levels |-> [B.levels EXCEPT ![o.side][o.level] = UnlinkLevel(B, s)],
      bits   |-> IF emptied THEN [B.bits EXCEPT ![o.side] = @ \ {o.level}] ELSE B.bits,
      best   |-> IF emptied THEN [B.best EXCEPT ![o.side] = Rescan(B, o.side, o.level)]
                 ELSE B.best,
      map    |-> [B.map EXCEPT ![o.id] = NullOrder],
      free   |-> Append(B.free, s),
      own    |-> IF o.mine THEN DropOwn(moved, o.id) ELSE moved]

Remove(B, id) ==
  IF B.map[id] = NullOrder THEN Result(B, "UnknownOrder")
  ELSE Result(Unlink(B, B.map[id]), "Ok")

\* A plausible slip: the level's total is not adjusted.
ShrinkOrderOnly(B, s, by) ==
  LET o == B.pool[s]
  IN [B EXCEPT !.pool[s].qty = @ - by,
               !.own = OnQtyRemovedAt(@, o.level, o.side, o.level_seq, by)]

\* Part of an order leaves; the order keeps its rank.
Shrink(B, s, by) ==
  LET o == B.pool[s]
  IN [B EXCEPT !.pool[s].qty = @ - by,
               !.levels[o.side][o.level].total_qty = @ - by,
               !.own = OnQtyRemovedAt(@, o.level, o.side, o.level_seq, by)]

Reduce(B, id, by) ==
  IF B.map[id] = NullOrder THEN Result(B, "UnknownOrder")
  ELSE IF by <= 0 \/ by > B.pool[B.map[id]].qty THEN Result(B, "BadQuantity")
  ELSE IF by = B.pool[B.map[id]].qty THEN Remove(B, id)
  ELSE Result(Shrink(B, B.map[id], by), "Ok")

\* reduce and execute differ only in the statistics they count.
Execute(B, id, qty) == Reduce(B, id, qty)

\* If the add is refused the old order is already gone.
Replace(B, old, new, price, qty) ==
  IF B.map[old] = NullOrder THEN Result(B, "UnknownOrder")
  ELSE LET o == B.pool[B.map[old]]
       IN Add(Remove(B, old).book, new, o.side, price, qty, o.mine)

\* The pool is not wiped: only what makes its slots reachable is.
Clear(B) ==
  [EmptyBook EXCEPT !.pool = B.pool]

-----------------------------------------------------------------------------
(***************************************************************************)
(* The queries other components make.                                      *)
(***************************************************************************)
QtyAt(B, sd, price) == IF InWindow(price) THEN B.levels[sd][ToIndex(price)].total_qty ELSE 0
QtyOf(B, id) == IF B.map[id] = NullOrder THEN 0 ELSE B.pool[B.map[id]].qty
OrdersAt(B, sd, price) == IF InWindow(price) THEN B.levels[sd][ToIndex(price)].count ELSE 0
IsMine(B, id) == B.map[id] # NullOrder /\ B.pool[B.map[id]].mine

QueueAhead(B, id) ==
  IF \E o \in B.own : o.id = id THEN (CHOOSE o \in B.own : o.id = id).qty_ahead ELSE -1

-----------------------------------------------------------------------------
(***************************************************************************)
(* A book driven by its callers.  `err` is what the last operation         *)
(* returned.                                                               *)
(***************************************************************************)
VARIABLES book, err

vars == <<book, err>>

Init == book = EmptyBook /\ err = "Ok"

Becomes(r) == book' = r.book /\ err' = r.err

\* The bound on the arrival counters, and the one place it is used.
RankRoom(price) ==
  InWindow(price) =>
    \A sd \in Sides : book.levels[sd][ToIndex(price)].next_seq < MaxRank

DoAdd(id, sd, price, qty, mine) == RankRoom(price) /\ Becomes(Add(book, id, sd, price, qty, mine))
DoReduce(id, by) == Becomes(Reduce(book, id, by))
DoExecute(id, qty) == Becomes(Execute(book, id, qty))
DoRemove(id) == Becomes(Remove(book, id))
DoReplace(old, new, price, qty) ==
  RankRoom(price) /\ Becomes(Replace(book, old, new, price, qty))
DoClear == Becomes(Result(Clear(book), "Ok"))

Next ==
  \/ \E id \in Ids, sd \in Sides, price \in Prices, qty \in Qtys, mine \in BOOLEAN :
       DoAdd(id, sd, price, qty, mine)
  \/ \E id \in Ids, by \in Qtys : DoReduce(id, by)
  \/ \E id \in Ids, qty \in Qtys : DoExecute(id, qty)
  \/ \E id \in Ids : DoRemove(id)
  \/ \E old \in Ids, new \in Ids, price \in Prices, qty \in Qtys :
       DoReplace(old, new, price, qty)
  \/ DoClear

Spec == Init /\ [][Next]_vars

-----------------------------------------------------------------------------
(***************************************************************************)
(* Properties.  Those about a state are about a book, so that they can be  *)
(* proved operator by operator; check_invariants() walks the same facts.   *)
(***************************************************************************)
\* Type invariant: every member of the book has the type of the code.
TypeOK == book \in Book /\ err \in Errors

\* The map names this slot: an order rests in it.
Live(B, s) == B.pool[s].id \in Ids /\ B.map[B.pool[s].id] = s

LiveAt(B, sd, l) ==
  {s \in Slots : Live(B, s) /\ B.pool[s].side = sd /\ B.pool[s].level = l}

\* Every slot is either free, once, or holds exactly the order the map files
\* under its id: no slot is leaked, handed out twice or shared by two ids,
\* whatever the history of adds, cancels, replaces and clears.
PoolPartitionOf(B) ==
  /\ \A id \in Ids : B.map[id] # NullOrder => B.pool[B.map[id]].id = id
  /\ \A i \in DOMAIN B.free : ~Live(B, B.free[i])
  /\ \A i, j \in DOMAIN B.free : B.free[i] = B.free[j] => i = j
  /\ \A s \in Slots : Live(B, s) \/ \E i \in DOMAIN B.free : B.free[i] = s

\* `p` is linked right in front of `s` among the slots S of one level: nothing
\* of S has a rank between them.
Adjacent(B, S, p, s) ==
  /\ p \in S /\ s \in S
  /\ B.pool[p].level_seq < B.pool[s].level_seq
  /\ \A t \in S : \/ B.pool[t].level_seq <= B.pool[p].level_seq
                  \/ B.pool[t].level_seq >= B.pool[s].level_seq

\* The links thread each level's orders in the order they arrived, and no
\* others: ranks are distinct and below the arrival counter, head and tail
\* are the first and last rank, prev and next the neighbours in rank.
QueueIsRanked(B, sd, l) ==
  LET S == LiveAt(B, sd, l)
      q == B.levels[sd][l]
  IN /\ \A s \in S : B.pool[s].level_seq < q.next_seq
     /\ \A s, t \in S : B.pool[s].level_seq = B.pool[t].level_seq => s = t
     /\ S = {} => q.head = NullOrder /\ q.tail = NullOrder
     /\ S # {} => q.head \in S /\ q.tail \in S
     /\ \A s \in S : /\ B.pool[s].prev = NullOrder <=> s = q.head
                     /\ B.pool[s].next = NullOrder <=> s = q.tail
                     /\ s # q.head => Adjacent(B, S, B.pool[s].prev, s)
                     /\ s # q.tail => Adjacent(B, S, s, B.pool[s].next)
                     /\ B.pool[q.head].level_seq <= B.pool[s].level_seq
                     /\ B.pool[s].level_seq <= B.pool[q.tail].level_seq

QueuesAreRankedIn(B) == \A sd \in Sides, l \in Levels : QueueIsRanked(B, sd, l)

\* The quantity in front of each resting order, by a walk of the links from it.
AheadIn(B) ==
  LET ahead[s \in {t \in Slots : Live(B, t)}] ==
        LET p == B.pool[s].prev
        IN IF p = NullOrder THEN 0 ELSE ahead[p] + B.pool[p].qty
  IN ahead

\* The O(1) totals are what a walk would find: a level's total_qty is the
\* quantity up to and including its tail, its orders have positive size.
TotalsAreExactIn(B) ==
  /\ \A s \in Slots : Live(B, s) => B.pool[s].qty > 0
  /\ \A sd \in Sides, l \in Levels :
       LET q == B.levels[sd][l]
       IN q.total_qty = IF q.tail = NullOrder THEN 0
                        ELSE AheadIn(B)[q.tail] + B.pool[q.tail].qty

\* The cached touch and the bitset survive any order of adds and removals:
\* a bit is set exactly for the levels where an order rests, and the cache is
\* the highest bid and the lowest ask of them, or none.
TouchIsExactIn(B) ==
  \A sd \in Sides :
    /\ B.bits[sd] = {l \in Levels : LiveAt(B, sd, l) # {}}
    /\ IsTouch(sd, B.bits[sd], B.best[sd])

\* No bid ever rests at or above an ask, at any depth.
UncrossedIn(B) ==
  \A s, t \in Slots :
    Live(B, s) /\ Live(B, t) /\ B.pool[s].side = "Bid" /\ B.pool[t].side = "Ask"
      => B.pool[s].level < B.pool[t].level

\* Queue position, updated as others come and go, is what a walk of the queue
\* would find, for exactly our resting orders; the clamp at zero never hides
\* a drift.
OwnPositionsAreExactIn(B) ==
  /\ \A o \in B.own :
       /\ B.map[o.id] # NullOrder
       /\ LET p == B.pool[B.map[o.id]]
          IN p.mine /\ p.level = o.level /\ p.side = o.side /\ p.level_seq = o.level_seq
       /\ o.qty_ahead = AheadIn(B)[B.map[o.id]]
  /\ \A s \in Slots : Live(B, s) /\ B.pool[s].mine => \E o \in B.own : o.id = B.pool[s].id

PoolPartition == PoolPartitionOf(book)
OwnPositionsAreExact == OwnPositionsAreExactIn(book)

\* What check_invariants() asks of a book and the tests can ask of a few: links
\* and ranks, totals, touch and bitset of every level agree after any history,
\* and the sides never meet (src/order_book.cpp:188).
InvariantsHold ==
  /\ QueuesAreRankedIn(book) /\ TotalsAreExactIn(book)
  /\ TouchIsExactIn(book) /\ UncrossedIn(book)

\* While one of our orders keeps its rank the quantity ahead of it only falls.
QueueOnlyDrains ==
  [][\A o \in book.own, n \in book'.own :
       o.id = n.id /\ o.side = n.side /\ o.level = n.level /\ o.level_seq = n.level_seq
         => n.qty_ahead <= o.qty_ahead]_vars
=============================================================================
