--------------------------- MODULE PriceTimeBook ---------------------------
(***************************************************************************)
(* What the order book promises its callers: price-time priority queues    *)
(* inside a price window, whatever is added, reduced, removed or replaced. *)
(* It is the abstract specification that the slots, links, bitsets and     *)
(* caches of OrderBook implement (module OrderBookRefinement).             *)
(***************************************************************************)
EXTENDS PriceTimeQueues

VARIABLES queues, err

Init == queues = RefEmpty /\ err = "Ok"

Becomes(r) == err' = r.err /\ queues' = r.book

Next ==
  \/ \E id \in Ids, sd \in Sides, price \in Prices, qty \in Qtys, mine \in BOOLEAN :
       Becomes(Add(queues, id, sd, price, qty, mine))
  \/ \E id \in Ids, by \in Qtys : Becomes(Reduce(queues, id, by))
  \/ \E id \in Ids : Becomes(Remove(queues, id))
  \/ \E old \in Ids, new \in Ids, price \in Prices, qty \in Qtys :
       Becomes(Replace(queues, old, new, price, qty))
  \/ Becomes(Result(RefEmpty, "Ok"))

Spec == Init /\ [][Next]_<<queues, err>>
=============================================================================
