---------------------------- MODULE MCOrderBook ----------------------------
(***************************************************************************)
(* Instances of OrderBook for TLC.  Two books that differ only in the      *)
(* contents of free slots, in the error last returned, or by an order      *)
(* preserving renaming of arrival ranks have the same futures, so states   *)
(* are compared by this view, and the bound MaxRank is never reached.      *)
(***************************************************************************)
EXTENDS OrderBook, FiniteSets

\* How many orders rest at the level with a rank below seq.
RankIn(B, sd, l, seq) ==
  Cardinality({t \in LiveAt(B, sd, l) : B.pool[t].level_seq < seq})

View ==
  [pool   |-> [s \in Slots |-> IF Live(book, s)
                                 THEN [book.pool[s] EXCEPT !.level_seq =
                                         RankIn(book, book.pool[s].side, book.pool[s].level, @)]
                                 ELSE NoOrder],
   levels |-> [sd \in Sides |-> [l \in Levels |->
                 [book.levels[sd][l] EXCEPT !.next_seq = RankIn(book, sd, l, @)]]],
   best   |-> book.best,
   bits   |-> book.bits,
   map    |-> book.map,
   free   |-> book.free,
   own    |-> {[o EXCEPT !.level_seq = RankIn(book, o.side, o.level, @)] : o \in book.own}]
=============================================================================
