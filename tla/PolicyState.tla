---------------------------- MODULE PolicyState ----------------------------
(***************************************************************************)
(* The states and actions of the market-making policy,                     *)
(* include/lob/policy/state.hpp: a position, the quote on each side, as no *)
(* quote or a price level and a place in its queue, and the imbalance of   *)
(* the book, packed into one number that indexes the table.                *)
(***************************************************************************)
EXTENDS Integers, Sequences

CONSTANTS
  MaxInventory,   \* lots, each way
  QuoteLevels,    \* 0 is the touch
  QueueBuckets,   \* 0 is alone at the level
  ImbBuckets,
  QueueEdges      \* edges between the buckets but the first, in parts per hundred

ASSUME MaxInventoryAssumption == MaxInventory \in Nat \ {0}
ASSUME BucketsAssumption ==
  QuoteLevels \in Nat \ {0} /\ QueueBuckets \in Nat \ {0} /\ ImbBuckets \in Nat \ {0}
ASSUME EdgesAssumption == QueueEdges \in Seq(Nat) /\ Len(QueueEdges) + 2 = QueueBuckets

SideStates == 1 + QuoteLevels * QueueBuckets
InventoryStates == 2 * MaxInventory + 1
NumStates == InventoryStates * SideStates * SideStates * ImbBuckets

SideActions == 1 + QuoteLevels    \* 0 is no quote, then one per level
NumActions == SideActions * SideActions
Actions == [bid : 0 .. SideActions - 1, ask : 0 .. SideActions - 1]

PolicyStates ==
  [inventory : -MaxInventory .. MaxInventory, bid : 0 .. SideStates - 1,
   ask : 0 .. SideStates - 1, imb : 0 .. ImbBuckets - 1]

NoQuote == 0
BackOfQueue == QueueBuckets - 1
Quoting(side) == side > 0 /\ side < SideStates
LevelOf(side) == IF side = NoQuote THEN -1 ELSE (side - 1) \div QueueBuckets
QueueOf(side) == IF side = NoQuote THEN -1 ELSE (side - 1) % QueueBuckets
MakeSide(level, queue) == 1 + level * QueueBuckets + queue

Encode(s) ==
  (((s.inventory + MaxInventory) * SideStates + s.bid) * SideStates + s.ask) * ImbBuckets + s.imb

Decode(code) ==
  LET quotes == code \div ImbBuckets
  IN [imb |-> code % ImbBuckets,
      ask |-> quotes % SideStates,
      bid |-> (quotes \div SideStates) % SideStates,
      inventory |-> quotes \div (SideStates * SideStates) - MaxInventory]

EncodeAction(a) == a.bid * SideActions + a.ask
DecodeAction(code) == [bid |-> code \div SideActions, ask |-> code % SideActions]

\* The bucket of so much size ahead, as a share of the depth the table was made
\* for; being alone is a bucket of its own.
QueueBucket(ahead, scale) ==
  IF ahead <= 0 THEN 0
  ELSE IF scale <= 0 THEN BackOfQueue
  ELSE LET passed == {i \in DOMAIN QueueEdges : 100 * ahead > QueueEdges[i] * scale}
       IN IF passed = {} THEN 1 ELSE 1 + CHOOSE i \in passed : \A j \in passed : j <= i
=============================================================================
