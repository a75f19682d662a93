------------------------ MODULE OrderBookRefinement ------------------------
(***************************************************************************)
(* OrderBook implements PriceTimeBook: read the FIFO of every level from   *)
(* its links, forget slots, totals, bitsets and caches, and each operation *)
(* does to the queues, and returns, what the abstract operation does.      *)
(***************************************************************************)
EXTENDS MCOrderBook

\* The entries from each resting order to the back of its queue.
Chain(B) ==
  LET chain[s \in {t \in Slots : Live(B, t)} \cup {NullOrder}] ==
        IF s = NullOrder THEN <<>>
        ELSE LET o == B.pool[s]
             IN <<[id |-> o.id, qty |-> o.qty, mine |-> o.mine]>> \o chain[o.next]
  IN chain

AbstractQueues(B) ==
  LET chain == Chain(B)
  IN [sd \in Sides |-> [p \in Prices |->
        IF InWindow(p) THEN chain[B.levels[sd][ToIndex(p)].head] ELSE <<>>]]

Abstract == INSTANCE PriceTimeBook WITH
  queues <- AbstractQueues(book),
  Window <- {p \in Prices : InWindow(p)}

\* Every step of the detailed book is the abstract step: price-time queues,
\* touch and results are those of the abstract book, whatever the slots did.
ImplementsPriceTimeBook == Abstract!Spec

\* The queries, answered from totals, counts and cached positions, agree with
\* a walk of the abstract queues.
QueriesAgree ==
  LET q == AbstractQueues(book)
  IN /\ \A sd \in Sides, p \in Prices :
          /\ QtyAt(book, sd, p) = Abstract!QtyAt(q, sd, p)
          /\ OrdersAt(book, sd, p) = Abstract!OrdersAt(q, sd, p)
     /\ \A sd \in Sides : HasBest(book, sd) => BestPrice(book, sd) = Abstract!Best(q, sd)
     /\ \A id \in Ids :
          /\ QtyOf(book, id) = Abstract!QtyOf(q, id)
          /\ IsMine(book, id) = Abstract!IsMine(q, id)
          /\ QueueAhead(book, id) = IF IsMine(book, id) THEN Abstract!QueueAhead(q, id) ELSE -1

-----------------------------------------------------------------------------
\* reference_book.hpp gives the differential test an oracle without window or
\* capacity.  Inside both, whatever one book refuses the other refuses, and
\* they hold the same queues after every call.  They return the same error but
\* for a call that both refuse: an add whose id already rests and whose price
\* would cross.
SameAnswer(r, a) ==
  /\ AbstractQueues(r.book) = a.book
  /\ r.err # a.err => r.err = "CrossedBook" /\ a.err = "DuplicateOrder"

ReferenceAgrees ==
  LET q == AbstractQueues(book)
      window == {p \in Prices : InWindow(p)}
  IN /\ ~Abstract!Full(q) =>
          \A id \in Ids, sd \in Sides, price \in window, qty \in Qtys, mine \in BOOLEAN :
            SameAnswer(Add(book, id, sd, price, qty, mine),
                       Abstract!RefAdd(q, id, sd, price, qty, mine))
     /\ \A old, new \in Ids, price \in window, qty \in Qtys :
          SameAnswer(Replace(book, old, new, price, qty),
                     Abstract!RefReplace(q, old, new, price, qty))

-----------------------------------------------------------------------------

=============================================================================
