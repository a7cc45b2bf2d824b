-------------------------- MODULE OrderProjection --------------------------
(***************************************************************************)
(* The pure part of the order entity: event types, statuses, the fold of an *)
(* event list into a projection (go/internal/entity/orders) and the         *)
(* validators of the commands (go/internal/entity/orders/controller).       *)
(*                                                                         *)
(* An event keeps what the fold reads: its type and, for a shipping update, *)
(* the requested status.  A projection keeps what the validators read:      *)
(* whether a payment method is set, the payment status and the shipping     *)
(* status; "" is Go's zero value of a status.                               *)
(***************************************************************************)
EXTENDS Integers, Sequences

PaymentStatuses == {"", "pending", "initiated", "paid", "failed"}

\* The members of the protobuf enum ShippingStatus, by the names the code
\* stores for them (MapShippingStatusToStr); the request's validator lets no
\* other number through (defined_only), as it lets no empty payment method.
RequestedStatuses ==
    {"unspecified", "waiting_for_payment", "waiting_for_shipment",
     "in_transit", "delivered", "cancelled"}

ShippingStatuses == {""} \cup RequestedStatuses

\* The enum's number of a stored status; everything unknown is UNSPECIFIED.
MapStrToShippingStatus(status) ==
    CASE status = "waiting_for_payment"  -> 1
      [] status = "waiting_for_shipment" -> 2
      [] status = "in_transit"           -> 3
      [] status = "delivered"            -> 4
      [] status = "cancelled"            -> 5
      [] OTHER                           -> 0

-----------------------------------------------------------------------------
(* Events *)

PlainEventTypes ==
    {"order_placed", "order_payment_initiated", "order_paid",
     "order_payment_failed", "order_cancelled"}

EventTypes == PlainEventTypes \cup {"order_shipping_status_updated"}

Event == [type : EventTypes, status : ShippingStatuses]

PlainEvent(type) == [type |-> type, status |-> ""]

ShippingEvent(status) ==
    [type |-> "order_shipping_status_updated", status |-> status]

-----------------------------------------------------------------------------
(* The fold *)

Projection ==
    [method : BOOLEAN, payment : PaymentStatuses, shipping : ShippingStatuses]

EmptyProjection == [method |-> FALSE, payment |-> "", shipping |-> ""]

ApplyEvent(p, event) ==
    CASE event.type = "order_placed" ->
            [method |-> TRUE, payment |-> "pending",
             shipping |-> "waiting_for_payment"]
      [] event.type = "order_payment_initiated" ->
            [p EXCEPT !.payment = "initiated"]
      [] event.type = "order_paid" ->
            [p EXCEPT !.payment = "paid", !.shipping = "waiting_for_shipment"]
      [] event.type = "order_payment_failed" ->
            [p EXCEPT !.payment = "failed"]
      [] event.type = "order_cancelled" ->
            [p EXCEPT !.shipping = "cancelled"]
      [] event.type = "order_shipping_status_updated" ->
            IF event.status = "unspecified"
            THEN p
            ELSE [p EXCEPT !.shipping = event.status]

\* The projection after each prefix of an event list; [0] is the zero value.
Projections(events) ==
    LET f[n \in 0..Len(events)] ==
            IF n = 0 THEN EmptyProjection ELSE ApplyEvent(f[n-1], events[n])
    IN  f

ReduceToProjection(events) == Projections(events)[Len(events)]

-----------------------------------------------------------------------------
(* Faulty variants of the validators: the runs that replace a definition by  *)
(* its variant show which property would notice.                            *)

FaultyInitPendingPaymentAnyStatus(p) == p.method

FaultyProcessPaymentNeedsPending(p) == p.method /\ p.payment = "pending"

FaultyProcessPaymentAcceptsPaid(p) == p.method /\ p.payment \in {"initiated", "paid"}

FaultyUpdateShippingNoRankCheck(p, status) ==
    p.payment = "paid" /\ status # "cancelled"

-----------------------------------------------------------------------------
(* The validators: what each command requires of the projection it read *)

ValidateInitPendingPayment(p) == p.method /\ p.payment = "pending"

ValidateProcessPayment(p) == p.method /\ p.payment = "initiated"

ValidateCancelOrder(p) == p.shipping \notin {"cancelled", "delivered"}

ValidateUpdateShippingStatus(p, status) ==
    /\ p.payment = "paid"
    /\ status # "cancelled"
    /\ MapStrToShippingStatus(p.shipping) <= MapStrToShippingStatus(status)

\* Which events a command may write after a history that folds to p.
Validate(p, event) ==
    CASE event.type = "order_payment_initiated" -> ValidateInitPendingPayment(p)
      [] event.type = "order_paid" -> ValidateProcessPayment(p)
      [] event.type = "order_cancelled" -> ValidateCancelOrder(p)
      [] event.type = "order_shipping_status_updated" ->
            ValidateUpdateShippingStatus(p, event.status)
      [] OTHER -> FALSE

\* What one command at a time may append to an order's events: PlaceOrder
\* starts them, every other command validates what came before.
Accepts(events, event) ==
    IF events = <<>> THEN event = PlainEvent("order_placed")
                     ELSE Validate(ReduceToProjection(events), event)
=============================================================================
