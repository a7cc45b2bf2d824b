----------------------------- MODULE OrderStatus -----------------------------
(***************************************************************************)
(* What an order is to who reads it: a payment status that goes one way and *)
(* a shipping status that starts to move when the order is paid.            *)
(*                                                                         *)
(* A cancellation ends the shipping of a paid order for good.  Of an unpaid *)
(* one it ends nothing: the payment goes on, and a payment puts the order   *)
(* back into waiting for its shipment.  The promise ends, as that of        *)
(* OrderHistory does, when an event of the order is revoked.                *)
(***************************************************************************)
CONSTANT Orders

VARIABLES
    statuses,   \* order -> its payment and shipping status, "" when not placed
    revoked     \* order -> whether an event of it was revoked

vars == <<statuses, revoked>>

At(payment, shipping) == [payment |-> payment, shipping |-> shipping]

Init ==
    /\ statuses = [o \in Orders |-> At("", "")]
    /\ revoked = [o \in Orders |-> FALSE]

Move(o, payment, shipping) ==
    /\ ~revoked[o]
    /\ statuses' = [statuses EXCEPT ![o] = At(payment, shipping)]
    /\ UNCHANGED revoked

Place(o) ==
    /\ statuses[o] = At("", "")
    /\ Move(o, "pending", "waiting_for_payment")

Initiate(o) ==
    /\ statuses[o].payment = "pending"
    /\ Move(o, "initiated", statuses[o].shipping)

Pay(o) ==
    /\ statuses[o].payment = "initiated"
    /\ Move(o, "paid", "waiting_for_shipment")

\* Where a paid order's shipping may go from a status.
Onward(status) ==
    CASE status = "waiting_for_shipment" -> {"in_transit", "delivered"}
      [] status = "in_transit"           -> {"delivered"}
      [] OTHER                           -> {}

Ship(o) ==
    /\ statuses[o].payment = "paid"
    /\ \E status \in Onward(statuses[o].shipping) : Move(o, "paid", status)

Cancel(o) ==
    /\ statuses[o].shipping \notin {"", "delivered", "cancelled"}
    /\ Move(o, statuses[o].payment, "cancelled")

\* An event of the order is taken back; nothing is promised of it any more.
Revoke(o) ==
    /\ revoked' = [revoked EXCEPT ![o] = TRUE]
    /\ \A p \in Orders \ {o} : statuses'[p] = statuses[p]

\* (Every move changes the statuses: saying so first spares TLC the rest in
\* most steps of a specification that implements this one.)
Next ==
    \E o \in Orders :
        \/ Revoke(o)
        \/ /\ statuses' # statuses
           /\ \/ Place(o)
              \/ Initiate(o)
              \/ Pay(o)
              \/ Ship(o)
              \/ Cancel(o)

Spec == Init /\ [][Next]_vars
=============================================================================
