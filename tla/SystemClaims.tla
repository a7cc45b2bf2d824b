---------------------------- MODULE SystemClaims ----------------------------
(* What the README says of the projection table and the code does not keep.  *)
EXTENDS OrderSystem

\* README.md:128 "Eventually consistent but much faster to query": in the end
\* the listing shows every stored order as GetOrder does, also when two
\* indexers work on the messages of one order.
EventuallyConsistent ==
    \A o \in Orders : <>[](log[o] # <<>> => GetOrder(o) \in ListOrders)
=============================================================================
