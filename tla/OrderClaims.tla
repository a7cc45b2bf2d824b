---------------------------- MODULE OrderClaims ----------------------------
(***************************************************************************)
(* What the repository's comments and README say of the write path and the *)
(* code does not keep.  Each is the one property of a run that TLC refutes; *)
(* the findings of PROJECT.json quote the sentences.                        *)
(***************************************************************************)
EXTENDS MCOrderCommands

\* cancel.go:18 "Only allow cancelling if the order is paid and not already
\* cancelled or shipped": the rows before a cancellation fold to a paid order
\* that is still waiting for its shipment.
CancelsOnlyPaidUnshipped ==
    \A o \in Unrevoked : \A n \in 1..Len(log[o]) :
        log[o][n].event.type = "order_cancelled" =>
            LET p == ProjectionOf(SubSeq(log[o], 1, n - 1))
            IN  p.payment = "paid" /\ p.shipping = "waiting_for_shipment"

\* update_shipping.go:29 "Make sure that we cannot set the shipping status to
\* a status that is lower than the current status", for every event of an
\* unrevoked order, a payment that follows a cancellation included.
StatusNeverLowered ==
    [][\A o \in Orders :
         removed'[o] = {} => ShippingRank(log'[o]) >= ShippingRank(log[o])]_vars

\* README "Only one payment event is recorded, preventing double-charging", on
\* every order, those with deleted events included.
OnePaymentRecorded == \A o \in Orders : Cardinality(PaidRows(o)) <= 1

\* producer.go:68 "If the event is not published, remove it from the store": a
\* stored event is in the topic, or on its way there, or a Send still holds it.
StoredIsPublished ==
    \A o \in Orders : \A n \in 1..Len(log[o]) :
        \/ \E m \in topic \cup inflight : m.id = log[o][n].id
        \/ \E a \in Actors : job[a] # Idle /\ job[a].row = log[o][n]

\* producer.go:42 and 69: no event is consumed that is not in the store.
ConsumedIsStored == \A m \in topic : m.id \in StoredIds(m.order)
=============================================================================
