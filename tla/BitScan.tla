------------------------------ MODULE BitScan ------------------------------
(***************************************************************************)
(* The occupancy bitset of one side of the order book as words, and the    *)
(* scans over them (src/order_book.cpp: scan_down, scan_up): the word of   *)
(* the starting bit is masked, the words beyond it are taken whole.        *)
(* OrderBook works with the set of occupied levels and the nearest of      *)
(* them; this is how the words compute it.                                 *)
(***************************************************************************)
EXTENDS Integers, FiniteSets
FX == INSTANCE FiniteSetsExt

CONSTANTS
  WordBits,   \* 64
  Words       \* number of words: the window's levels in words

ASSUME WordBitsAssumption == WordBits \in Nat \ {0}
ASSUME WordsAssumption == Words \in Nat \ {0}

VARIABLE bits  \* the levels of the side that are occupied

None == -1      \* kNoLevel

WordOf(i) == i \div WordBits
BitOf(i) == i % WordBits

\* The words whose bits at the positions S are set.
WordsOf(S) == [w \in 0 .. Words - 1 |-> {BitOf(i) : i \in {k \in S : WordOf(k) = w}}]

\* Plausible slip: the bit the scan starts at is masked off with the rest.
BelowStart(from) == {b \in 0 .. WordBits - 1 : b < BitOf(from)}
UpToStart(from) == {b \in 0 .. WordBits - 1 : b <= BitOf(from)}
FromStart(from) == {b \in 0 .. WordBits - 1 : b >= BitOf(from)}

\* The word the scan looks at when it reaches word w from `from`.
WordSeen(ws, from, w, mask) == IF w = WordOf(from) THEN ws[w] \cap mask ELSE ws[w]

\* Below level zero there is no level: there the index wraps to kNoLevel.
ScanDown(ws, from) ==
  LET seen(w) == WordSeen(ws, from, w, UpToStart(from))
      scan[n \in 0 .. Words] ==    \* the words below n are left
        IF n = 0 THEN None
        ELSE IF seen(n - 1) # {} THEN (n - 1) * WordBits + FX!Max(seen(n - 1))
        ELSE scan[n - 1]
  IN IF from = None THEN None ELSE scan[WordOf(from) + 1]

\* A scan up may start one past the last level.
ScanUp(ws, from) ==
  LET seen(w) == WordSeen(ws, from, w, FromStart(from))
      scan[n \in 0 .. Words] ==    \* n words are left
        IF n = 0 THEN None
        ELSE IF seen(Words - n) # {} THEN (Words - n) * WordBits + FX!Min(seen(Words - n))
        ELSE scan[n - 1]
  IN IF from = None \/ WordOf(from) >= Words THEN None ELSE scan[Words - WordOf(from)]

-----------------------------------------------------------------------------
Indices == 0 .. WordBits * Words - 1

BitsInit == bits = {}

\* set_bit and clear_bit.
FlipBit ==
  \E i \in Indices : bits' = IF i \in bits THEN bits \ {i} ELSE bits \cup {i}

BitsSpec == BitsInit /\ [][FlipBit]_bits

-----------------------------------------------------------------------------
NearestUp(S, from) ==
  LET above == {i \in S : i >= from}
  IN IF above = {} THEN None ELSE CHOOSE i \in above : \A j \in above : i <= j
NearestDown(S, from) ==
  LET below == {i \in S : i <= from}
  IN IF below = {} THEN None ELSE CHOOSE i \in below : \A j \in below : j <= i

\* From any level, and one past either end, the masked scans over the words of
\* a side find the nearest occupied level: the first and the last bit of a
\* word and the words between that are empty included, none is skipped
\* (src/order_book.cpp:34).
ScansFindTheNearest ==
  \A from \in -1 .. WordBits * Words :
    /\ from # -1 => ScanUp(WordsOf(bits), from) = NearestUp(bits, from)
    /\ from # WordBits * Words => ScanDown(WordsOf(bits), from) = NearestDown(bits, from)
=============================================================================
