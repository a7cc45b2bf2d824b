------------------------ MODULE OrderPaymentProofs ------------------------
(***************************************************************************)
(* What the projection of a serial log can be: ChargedOnce,                 *)
(* ShippingForward, and the refinement of OrderStatus, StatusMachine.       *)
(*                                                                         *)
(* The fold is first unfolded by one event (the recursive function that     *)
(* defines it exists because a least length without one is impossible).     *)
(* Then Charges, which every commit keeps, says in which combinations of    *)
(* payment and shipping status a log without deletions can leave an order,  *)
(* and AcceptedMove to which other statuses an accepted event can take it.  *)
(***************************************************************************)
EXTENDS OrderSerialProofs, FiniteSetTheorems

-----------------------------------------------------------------------------
(* The fold *)

\* f is the fold of the first m events.
IsFold(f, events, m) ==
    f = [n \in 0..m |->
           IF n = 0 THEN EmptyProjection ELSE ApplyEvent(f[n - 1], events[n])]

\* A set of naturals that holds 0 and with n - 1 holds n is all of Nat.
LEMMA LeastCounterexample ==
    ASSUME NEW T, 0 \in T,
           \A n \in Nat \ {0} : n - 1 \in T => n \in T
    PROVE  \A n \in Nat : n \in T
<1> DEFINE Bad == Nat \ T
           Less == OpToRel(<, Nat)
<1>1. SUFFICES ASSUME Bad # {} PROVE FALSE
  OBVIOUS
<1>2. IsWellFoundedOn(Less, Nat) /\ Bad \subseteq Nat
  BY NatLessThanWellFounded
<1>3. PICK m \in Bad : \A n \in Bad : ~ (<<n, m>> \in Less)
  BY <1>1, <1>2, WFMin
<1>4. m \in Nat \ {0}
  OBVIOUS
<1>5. m - 1 \in Nat /\ <<m - 1, m>> \in Less
  BY <1>4 DEF OpToRel
<1>6. m - 1 \in T
  BY <1>3, <1>5
<1> QED
  BY <1>3, <1>4, <1>6

LEMMA FoldExists ==
    ASSUME NEW events, NEW m \in Nat
    PROVE  \E f : IsFold(f, events, m)
<1> DEFINE T == {n \in Nat : \E f : IsFold(f, events, n)}
<1>1. 0 \in T
  <2> DEFINE f == [n \in 0..0 |-> EmptyProjection]
  <2>1. IsFold(f, events, 0)
    BY DEF IsFold
  <2> QED
    BY <2>1
<1>2. ASSUME NEW n \in Nat \ {0}, n - 1 \in T PROVE n \in T
  <2>1. PICK g : IsFold(g, events, n - 1)
    BY <1>2
  <2> DEFINE f == [i \in 0..n |->
                     IF i = n THEN ApplyEvent(g[n - 1], events[n]) ELSE g[i]]
  <2>2. ASSUME NEW i \in 0..n
        PROVE  f[i] = IF i = 0 THEN EmptyProjection
                               ELSE ApplyEvent(f[i - 1], events[i])
    <3>1. CASE i = 0
      BY <2>1, <3>1 DEF IsFold
    <3>2. CASE i = n
      <4>1. n - 1 \in 0..n /\ n - 1 # n /\ n # 0 /\ n \in 0..n
        OBVIOUS
      <4>2. f[n - 1] = g[n - 1]
        BY <4>1
      <4> QED
        BY <3>2, <4>1, <4>2
    <3>3. CASE i # 0 /\ i # n
      <4>1. i \in 0..(n - 1) /\ i - 1 \in 0..n /\ i - 1 # n
        BY <3>3
      <4>2. f[i] = g[i] /\ f[i - 1] = g[i - 1]
        BY <3>3, <4>1
      <4>3. g[i] = ApplyEvent(g[i - 1], events[i])
        BY <2>1, <3>3, <4>1 DEF IsFold
      <4> QED
        BY <3>3, <4>2, <4>3
    <3> QED
      BY <3>1, <3>2, <3>3
  <2>3. DOMAIN f = 0..n /\ f = [i \in 0..n |-> f[i]]
    OBVIOUS
  <2> HIDE DEF f
  <2>4. IsFold(f, events, n)
    BY <2>2, <2>3 DEF IsFold
  <2> QED
    BY <2>4
<1> HIDE DEF T
<1>3. m \in T
  BY <1>1, <1>2, LeastCounterexample
<1> QED
  BY <1>3 DEF T

LEMMA ProjectionsAreFold ==
    ASSUME NEW events, Len(events) \in Nat
    PROVE  IsFold(Projections(events), events, Len(events))
<1>1. \E f : IsFold(f, events, Len(events))
  BY FoldExists
<1>2. Projections(events) = CHOOSE f : IsFold(f, events, Len(events))
  BY DEF Projections, IsFold
<1> QED
  BY <1>1, <1>2

\* The projection of a log without rows, and of one with a row more.
LEMMA ProjectionOfEmpty ==
    ASSUME NEW s \in Seq(Row), Len(s) = 0
    PROVE  ProjectionOf(s) = EmptyProjection
<1>1. Len(EventsOf(s)) = 0
  BY EventsOfSeq
<1>2. IsFold(Projections(EventsOf(s)), EventsOf(s), 0)
  BY <1>1, ProjectionsAreFold
<1>3. Projections(EventsOf(s))[0] = EmptyProjection
  BY <1>2 DEF IsFold
<1> QED
  BY <1>1, <1>3 DEF ProjectionOf, ReduceToProjection

LEMMA ProjectionOfAppend ==
    ASSUME NEW s \in Seq(Row), NEW t \in Seq(Row), Len(t) = Len(s) + 1,
           \A i \in 1..Len(s) : t[i] = s[i]
    PROVE  ProjectionOf(t) = ApplyEvent(ProjectionOf(s), t[Len(t)].event)
<1> DEFINE m == Len(s)
           fs == Projections(EventsOf(s))
           ft == Projections(EventsOf(t))
<1>1. /\ m \in Nat
      /\ Len(EventsOf(s)) = m /\ Len(EventsOf(t)) = m + 1
      /\ \A i \in 1..m : EventsOf(s)[i] = s[i].event
      /\ \A i \in 1..(m + 1) : EventsOf(t)[i] = t[i].event
  BY EventsOfSeq, LenProperties
<1>2. IsFold(fs, EventsOf(s), m) /\ IsFold(ft, EventsOf(t), m + 1)
  BY <1>1, ProjectionsAreFold
<1> HIDE DEF m, fs, ft
<1>3. /\ fs[0] = EmptyProjection /\ ft[0] = EmptyProjection
      /\ \A n \in 1..m : fs[n] = ApplyEvent(fs[n - 1], s[n].event)
      /\ \A n \in 1..(m + 1) : ft[n] = ApplyEvent(ft[n - 1], t[n].event)
  BY <1>1, <1>2 DEF IsFold
<1> DEFINE T == {n \in Nat : n <= m => fs[n] = ft[n]}
<1>4. 0 \in T
  BY <1>3
<1>5. ASSUME NEW n \in Nat \ {0}, n - 1 \in T PROVE n \in T
  <2>1. SUFFICES ASSUME n <= m PROVE fs[n] = ft[n]
    OBVIOUS
  <2>2. n \in 1..m /\ n \in 1..(m + 1) /\ n - 1 <= m
    BY <1>1, <2>1
  <2>3. fs[n - 1] = ft[n - 1]
    BY <1>5, <2>2
  <2> QED
    BY <1>3, <2>2, <2>3 DEF m
<1> HIDE DEF T
<1>6. m \in T
  BY <1>1, <1>4, <1>5, LeastCounterexample
<1>7. fs[m] = ft[m]
  BY <1>1, <1>6 DEF T
<1>8. ft[m + 1] = ApplyEvent(fs[m], t[m + 1].event)
  <2>1. m + 1 \in 1..(m + 1) /\ (m + 1) - 1 = m
    BY <1>1
  <2> QED
    BY <1>3, <1>7, <2>1
<1>9. ProjectionOf(s) = fs[m] /\ ProjectionOf(t) = ft[m + 1]
  BY <1>1 DEF ProjectionOf, ReduceToProjection, fs, ft
<1> QED
  BY <1>8, <1>9 DEF m

-----------------------------------------------------------------------------
(* The statuses an order without deletions can have *)

\* Not placed; placed and unpaid, perhaps cancelled; paid.
Unpaid == [method : {TRUE}, payment : {"pending", "initiated"},
           shipping : {"waiting_for_payment", "cancelled"}]

Paid == [method : {TRUE}, payment : {"paid"},
         shipping : {"waiting_for_shipment", "in_transit", "delivered", "cancelled"}]

\* A projection and the number of payments agree.
Charges ==
    \A o \in Unrevoked :
        \/ /\ log[o] = <<>>
           /\ PaidRows(o) = {}
        \/ /\ log[o] # <<>>
           /\ ProjectionOf(log[o]) \in Unpaid
           /\ PaidRows(o) = {}
        \/ /\ log[o] # <<>>
           /\ ProjectionOf(log[o]) \in Paid
           /\ \E n \in 1..Len(log[o]) : PaidRows(o) = {n}

LEMMA Ranks ==
    ASSUME NEW status
    PROVE  /\ status = "waiting_for_payment" => MapStrToShippingStatus(status) = 1
           /\ status = "waiting_for_shipment" => MapStrToShippingStatus(status) = 2
           /\ status = "in_transit" => MapStrToShippingStatus(status) = 3
           /\ status = "delivered" => MapStrToShippingStatus(status) = 4
           /\ status = "cancelled" => MapStrToShippingStatus(status) = 5
           /\ status \in {"unspecified", ""} => MapStrToShippingStatus(status) = 0
BY DEF MapStrToShippingStatus

\* Which updates of its shipping status a paid order accepts.
LEMMA AcceptedStatus ==
    ASSUME NEW from \in {"waiting_for_shipment", "in_transit", "delivered", "cancelled"},
           NEW to \in ShippingStatuses, to # "cancelled",
           MapStrToShippingStatus(from) <= MapStrToShippingStatus(to)
    PROVE  /\ to \in {"waiting_for_shipment", "in_transit", "delivered"}
           /\ from # "cancelled"
           /\ from = "delivered" => to = "delivered"
           /\ from = "in_transit" => to \in {"in_transit", "delivered"}
<1> DEFINE old == MapStrToShippingStatus(from)
           new == MapStrToShippingStatus(to)
<1>1. to \in RequestedStatuses \cup {""}
  BY DEF ShippingStatuses
<1>2. /\ to \in {"waiting_for_payment", "unspecified", ""} => new \in {0, 1}
      /\ to = "waiting_for_shipment" => new = 2
      /\ to = "in_transit" => new = 3
      /\ to = "delivered" => new = 4
  BY Ranks
<1>3. /\ from = "waiting_for_shipment" => old = 2
      /\ from = "in_transit" => old = 3
      /\ from = "delivered" => old = 4
      /\ from = "cancelled" => old = 5
  BY Ranks
<1> HIDE DEF old, new
<1>4. old <= new /\ old \in {2, 3, 4, 5}
  BY <1>3 DEF old, new
<1>5. /\ new # 0 /\ new # 1
      /\ old = 3 => new # 2
      /\ old = 4 => new # 2 /\ new # 3
      /\ old = 5 => new # 2 /\ new # 3 /\ new # 4
  BY <1>4
<1>6. to \in {"waiting_for_shipment", "in_transit", "delivered"}
  BY <1>1, <1>2, <1>5 DEF RequestedStatuses
<1>7. new = 2 \/ new = 3 \/ new = 4
  BY <1>2, <1>6
<1>8. from # "cancelled"
  BY <1>3, <1>5, <1>7
<1> QED
  BY <1>2, <1>3, <1>5, <1>6, <1>8

\* What an accepted command does to an order that is placed.
LEMMA AcceptedEvent ==
    ASSUME NEW p \in Unpaid \cup Paid, NEW event \in Event, Validate(p, event)
    PROVE  LET q == ApplyEvent(p, event)
           IN  /\ event.type = "order_paid" => p \in Unpaid /\ q \in Paid
               /\ event.type # "order_paid" => (p \in Unpaid /\ q \in Unpaid)
                                                  \/ (p \in Paid /\ q \in Paid)
               /\ p.shipping # "cancelled" =>
                    /\ MapStrToShippingStatus(q.shipping)
                         >= MapStrToShippingStatus(p.shipping)
                    /\ p.shipping = "delivered" => q.shipping = "delivered"
<1> DEFINE q == ApplyEvent(p, event)
<1>1. event.type \in EventTypes /\ event.status \in ShippingStatuses
  BY DEF Event
<1>2. /\ p = [method |-> p.method, payment |-> p.payment, shipping |-> p.shipping]
      /\ p.method = TRUE
      /\ p \in Unpaid => /\ p.payment \in {"pending", "initiated"}
                         /\ p.shipping \in {"waiting_for_payment", "cancelled"}
      /\ p \in Paid => /\ p.payment = "paid"
                       /\ p.shipping \in {"waiting_for_shipment", "in_transit",
                                          "delivered", "cancelled"}
  BY DEF Unpaid, Paid
<1>3. CASE event.type = "order_payment_initiated"
  <2>1. p \in Unpaid
    BY <1>2, <1>3 DEF Validate, ValidateInitPendingPayment
  <2>2. q = [method |-> TRUE, payment |-> "initiated", shipping |-> p.shipping]
    BY <1>2, <1>3 DEF ApplyEvent
  <2>3. q \in Unpaid /\ q.shipping = p.shipping
    BY <1>2, <2>1, <2>2 DEF Unpaid
  <2>4. MapStrToShippingStatus(p.shipping) \in {1, 5}
    BY <1>2, <2>1, Ranks
  <2> HIDE DEF q
  <2> QED
    BY <1>3, <2>1, <2>3, <2>4 DEF q
<1>4. CASE event.type = "order_paid"
  <2>1. p \in Unpaid
    BY <1>2, <1>4 DEF Validate, ValidateProcessPayment
  <2>2. q = [method |-> TRUE, payment |-> "paid", shipping |-> "waiting_for_shipment"]
    BY <1>2, <1>4 DEF ApplyEvent
  <2>3. q \in Paid /\ q.shipping = "waiting_for_shipment"
    BY <2>2 DEF Paid
  <2>4. /\ p.shipping # "delivered"
        /\ p.shipping # "cancelled" => MapStrToShippingStatus(p.shipping) = 1
    BY <1>2, <2>1, Ranks
  <2>5. MapStrToShippingStatus(q.shipping) = 2
    BY <2>3, Ranks
  <2> HIDE DEF q
  <2> QED
    BY <1>4, <2>1, <2>3, <2>4, <2>5 DEF q
<1>5. CASE event.type = "order_cancelled"
  <2>1. p.shipping \notin {"cancelled", "delivered"}
    BY <1>5 DEF Validate, ValidateCancelOrder
  <2>2. q = [method |-> TRUE, payment |-> p.payment, shipping |-> "cancelled"]
    BY <1>2, <1>5 DEF ApplyEvent
  <2>3. (p \in Unpaid /\ q \in Unpaid) \/ (p \in Paid /\ q \in Paid)
    <3>1. ASSUME p \in Unpaid PROVE q \in Unpaid
      BY <1>2, <2>2, <3>1 DEF Unpaid
    <3>2. ASSUME p \in Paid PROVE q \in Paid
      BY <1>2, <2>2, <3>2 DEF Paid
    <3> QED
      BY <3>1, <3>2
  <2>4. MapStrToShippingStatus(p.shipping) \in {1, 2, 3}
    BY <1>2, <2>1, Ranks
  <2>5. MapStrToShippingStatus(q.shipping) = 5
    <3>1. q.shipping = "cancelled"
      BY <2>2
    <3> QED
      BY <3>1, Ranks
  <2> HIDE DEF q
  <2> QED
    BY <1>5, <2>1, <2>3, <2>4, <2>5 DEF q
<1>6. CASE event.type = "order_shipping_status_updated"
  <2>1. /\ p \in Paid
        /\ event.status # "cancelled"
        /\ MapStrToShippingStatus(p.shipping) <= MapStrToShippingStatus(event.status)
    <3>1. ValidateUpdateShippingStatus(p, event.status)
      BY <1>6 DEF Validate
    <3> QED
      BY <1>2, <3>1 DEF ValidateUpdateShippingStatus
  <2>2. MapStrToShippingStatus(p.shipping) \in {2, 3, 4, 5}
    BY <1>2, <2>1, Ranks
  <2>3. /\ event.status \in {"waiting_for_shipment", "in_transit", "delivered"}
        /\ p.shipping # "cancelled"
        /\ p.shipping = "delivered" => event.status = "delivered"
    BY <1>1, <1>2, <2>1, AcceptedStatus
  <2>4. q = [method |-> TRUE, payment |-> p.payment, shipping |-> event.status]
    BY <1>2, <1>6, <2>3 DEF ApplyEvent
  <2>5. q \in Paid /\ q.shipping = event.status
    BY <1>2, <2>1, <2>3, <2>4 DEF Paid
  <2>6. MapStrToShippingStatus(event.status) \in {2, 3, 4}
    BY <2>3, Ranks
  <2> HIDE DEF q
  <2> QED
    BY <1>6, <2>1, <2>2, <2>3, <2>5, <2>6 DEF q
<1>7. CASE event.type \in {"order_placed", "order_payment_failed"}
  BY <1>7 DEF Validate
<1> QED
  BY <1>1, <1>3, <1>4, <1>5, <1>6, <1>7 DEF EventTypes, PlainEventTypes

-----------------------------------------------------------------------------
(* Steps *)

\* An order without deletions only grows, by the row of a commit.
LEMMA UnrevokedStep ==
    ASSUME TypeInv, [Next]_vars, NEW o \in Unrevoked'
    PROVE  /\ o \in Orders /\ o \in Unrevoked
           /\ \/ log'[o] = log[o]
              \/ \E a \in Actors : CommitRow(a) /\ job[a].order = o
<1>1. o \in Orders
  BY DEF Unrevoked
<1>2. CASE UNCHANGED <<log, removed>>
  BY <1>2 DEF Unrevoked
<1>3. CASE ~UNCHANGED <<log, removed>>
  <2>1. PICK a \in Actors : Command(a) \/ Progress(a) \/ Failure(a)
    BY <1>3 DEF Next, vars, LateDelivery
  <2>2. Commit(a) \/ CommitUnknown(a) \/ RemoveEvent(a)
    BY <1>3, <2>1 DEF Command, Progress, Failure, PlaceOrder, PaymentInitializer,
       InitializePendingPayment, PaymentProcessor, ProcessPayment, CancelOrder,
       UpdateShippingStatus, Decide, Insert, InsertConflict, Publish, PublishFails,
       TransactionFails, RemoveFails, Crash
  <2>3. CASE RemoveEvent(a)
    <3>1. PICK k : RowDeleted(job[a].order, k)
      BY <2>3, RemoveEventProperties DEF TypeInv
    <3>2. /\ removed' = [removed EXCEPT ![job[a].order] = @ \cup {job[a].row.id}]
          /\ removed \in [Orders -> SUBSET Nat]
      BY <2>3 DEF RemoveEvent, TypeInv, TypeOK
    <3>3. o # job[a].order /\ o \in Unrevoked
      BY <1>1, <3>2 DEF Unrevoked
    <3> QED
      BY <1>1, <3>1, <3>3 DEF RowDeleted
  <2>4. CASE Commit(a) \/ CommitUnknown(a)
    <3>1. CommitRow(a) /\ UNCHANGED removed
      BY <2>4 DEF Commit, CommitUnknown
    <3>2. PICK k : RowInserted(job[a].order, job[a].row, k)
      BY <3>1, CommitRowProperties DEF TypeInv
    <3>3. o # job[a].order => log'[o] = log[o]
      BY <1>1, <3>2 DEF RowInserted
    <3> QED
      BY <1>1, <3>1, <3>3 DEF Unrevoked
  <2> QED
    BY <2>2, <2>3, <2>4
<1> QED
  BY <1>2, <1>3

\* The row of a commit is what its command was accepted for.
LEMMA CommitProjection ==
    ASSUME TypeInv, Serial, NEW a \in Actors, CommitRow(a),
           NEW o \in Unrevoked, o = job[a].order, NEW event, event = job[a].row.event
    PROVE  /\ event \in Event
           /\ log'[o] # <<>>
           /\ Len(log[o]) \in Nat
           /\ Len(log'[o]) = Len(log[o]) + 1
           /\ ProjectionOf(log'[o]) = ApplyEvent(ProjectionOf(log[o]), event)
           /\ log[o] = <<>> => /\ event = PlainEvent("order_placed")
                               /\ ProjectionOf(log[o]) = EmptyProjection
           /\ log[o] # <<>> => Validate(ProjectionOf(log[o]), event)
           /\ Len(log[o]) + 1 \in 1..Len(log'[o])
           /\ PaidRows(o)' = IF event.type = "order_paid"
                             THEN PaidRows(o) \cup {Len(log[o]) + 1}
                             ELSE PaidRows(o)
<1> DEFINE s == log[o]
           t == log'[o]
<1>1. o \in Orders /\ s \in Seq(Row) /\ Len(s) \in Nat /\ event \in Event
  BY ActiveSend, LenProperties DEF Unrevoked, TypeInv, TypeOK, CommitRow, Row
<1>2. /\ Len(t) = Len(s) + 1
      /\ t \in Seq(Row)
      /\ \A i \in 1..Len(s) : t[i] = s[i]
      /\ t[Len(s) + 1].event = event
      /\ Accepts(EventsOf(SubSeq(s, 1, Len(s))), event)
  <2> DEFINE row == job[a].row
  <2> HIDE DEF row
  <2>1. row = job[a].row
    BY DEF row
  <2>2. event = row.event
    BY <2>1
  <2>3. /\ Len(log'[o]) = Len(log[o]) + 1
        /\ log'[o] \in Seq(Row)
        /\ \A i \in 1..Len(log[o]) : log'[o][i] = log[o][i]
        /\ log'[o][Len(log[o]) + 1] = row
        /\ Accepts(EventsOf(SubSeq(log[o], 1, Len(log[o]))), row.event)
    BY ONLY TypeInv, Serial, a \in Actors, CommitRow(a), o \in Unrevoked,
       o = job[a].order, <2>1, CommitAppends
  <2> QED
    BY <2>2, <2>3
<1>3. EventsOf(SubSeq(s, 1, Len(s))) = EventsOf(s)
  <2>1. Len(s) \in 0..Len(s)
    BY <1>1
  <2> QED
    BY <1>1, <2>1, EventsOfPrefix DEF EventsOf
<1>4. PaidRows(o) = {n \in 1..Len(s) : s[n].event.type = "order_paid"}
  BY DEF PaidRows
<1>5. PaidRows(o)' = {n \in 1..Len(t) : t[n].event.type = "order_paid"}
  BY DEF PaidRows
<1> HIDE DEF s, t
<1>6. PaidRows(o)' = IF event.type = "order_paid"
                     THEN PaidRows(o) \cup {Len(s) + 1}
                     ELSE PaidRows(o)
  <2>1. \A n : n \in 1..Len(t) <=> n \in 1..Len(s) \/ n = Len(s) + 1
    BY <1>1, <1>2
  <2>2. \A n : n \in PaidRows(o)' <=>
           n \in PaidRows(o) \/ (n = Len(s) + 1 /\ event.type = "order_paid")
    BY <1>2, <1>4, <1>5, <2>1
  <2> QED
    BY <2>2
<1>7. ProjectionOf(t) = ApplyEvent(ProjectionOf(s), event)
  BY <1>1, <1>2, ProjectionOfAppend
<1>8. ASSUME s = <<>>
      PROVE  event = PlainEvent("order_placed") /\ ProjectionOf(s) = EmptyProjection
  <2>1. Len(s) = 0
    BY <1>8
  <2>2. EventsOf(s) = <<>>
    BY <2>1 DEF EventsOf
  <2> QED
    BY <1>1, <1>2, <1>3, <2>1, <2>2, ProjectionOfEmpty DEF Accepts
<1>9. ASSUME s # <<>> PROVE Validate(ProjectionOf(s), event)
  <2>1. Len(s) \in Nat \ {0}
    BY <1>1, <1>9, EmptySeq
  <2>2. EventsOf(s) # <<>>
    BY <1>1, <2>1, EventsOfSeq
  <2> QED
    BY <1>2, <1>3, <2>2 DEF Accepts, ProjectionOf
<1>10. t # <<>> /\ Len(s) + 1 \in 1..Len(t)
  BY <1>1, <1>2
<1> QED
  BY <1>1, <1>2, <1>6, <1>7, <1>8, <1>9, <1>10 DEF s, t

LEMMA PlacedEvent == PlainEvent("order_placed").type = "order_placed"
BY DEF PlainEvent

LEMMA InitCharges == Init => Charges
BY DEF Init, Charges, Unrevoked, PaidRows

LEMMA NextCharges == TypeInv /\ Serial /\ Charges /\ [Next]_vars => Charges'
<1> SUFFICES ASSUME TypeInv, Serial, Charges, [Next]_vars, NEW o \in Unrevoked'
             PROVE  \/ log'[o] = <<>> /\ PaidRows(o)' = {}
                    \/ /\ log'[o] # <<>>
                       /\ ProjectionOf(log'[o]) \in Unpaid
                       /\ PaidRows(o)' = {}
                    \/ /\ log'[o] # <<>>
                       /\ ProjectionOf(log'[o]) \in Paid
                       /\ \E n \in 1..Len(log'[o]) : PaidRows(o)' = {n}
  BY DEF Charges
<1>1. o \in Unrevoked
  BY UnrevokedStep
<1>2. CASE log'[o] = log[o]
  BY <1>1, <1>2 DEF Charges, PaidRows
<1>3. CASE log'[o] # log[o]
  <2>1. PICK a \in Actors : CommitRow(a) /\ job[a].order = o
    BY <1>3, UnrevokedStep
  <2> DEFINE event == job[a].row.event
             p == ProjectionOf(log[o])
  <2>2. /\ event \in Event
        /\ log'[o] # <<>>
        /\ ProjectionOf(log'[o]) = ApplyEvent(p, event)
        /\ log[o] = <<>> => event = PlainEvent("order_placed") /\ p = EmptyProjection
        /\ log[o] # <<>> => Validate(p, event)
        /\ Len(log[o]) + 1 \in 1..Len(log'[o])
        /\ PaidRows(o)' = IF event.type = "order_paid"
                          THEN PaidRows(o) \cup {Len(log[o]) + 1}
                          ELSE PaidRows(o)
    BY <1>1, <2>1, CommitProjection
  <2> HIDE DEF event, p
  <2>3. CASE log[o] = <<>>
    <3>1. ApplyEvent(p, event) \in Unpaid /\ event.type # "order_paid"
      <4>1. event.type = "order_placed"
        BY <2>2, <2>3, PlacedEvent
      <4>2. ApplyEvent(p, event) = [method |-> TRUE, payment |-> "pending",
                                    shipping |-> "waiting_for_payment"]
        BY <4>1 DEF ApplyEvent
      <4> QED
        BY <4>1, <4>2 DEF Unpaid
    <3>2. PaidRows(o) = {}
      BY <1>1, <2>3 DEF Charges
    <3> QED
      BY <2>2, <3>1, <3>2
  <2>4. CASE log[o] # <<>>
    <3>1. \/ p \in Unpaid /\ PaidRows(o) = {}
          \/ p \in Paid /\ \E n \in 1..Len(log[o]) : PaidRows(o) = {n}
      BY <1>1, <2>4 DEF Charges, p
    <3>2. /\ event.type = "order_paid" => p \in Unpaid /\ ApplyEvent(p, event) \in Paid
          /\ event.type # "order_paid" =>
                \/ p \in Unpaid /\ ApplyEvent(p, event) \in Unpaid
                \/ p \in Paid /\ ApplyEvent(p, event) \in Paid
      BY <2>2, <2>4, <3>1, AcceptedEvent
    <3>3. ~(p \in Unpaid /\ p \in Paid)
      BY DEF Unpaid, Paid
    <3>4. CASE event.type = "order_paid"
      BY <2>2, <3>1, <3>2, <3>3, <3>4
    <3>5. CASE event.type # "order_paid"
      <4>1. 1..Len(log[o]) \subseteq 1..Len(log'[o])
        <5>1. Len(log[o]) \in Nat /\ Len(log'[o]) = Len(log[o]) + 1
          BY <1>1, <2>1, CommitProjection
        <5> QED
          BY <5>1
      <4> QED
        BY <2>2, <3>1, <3>2, <3>3, <3>5, <4>1
    <3> QED
      BY <3>4, <3>5
  <2> QED
    BY <2>3, <2>4
<1> QED
  BY <1>2, <1>3

-----------------------------------------------------------------------------
(* The theorems *)

LEMMA ChargesInductive == Spec => [](TypeInv /\ Serial /\ Charges)
<1>1. Init => Charges
  BY InitCharges
<1>2. TypeInv /\ Serial /\ Charges /\ [Next]_vars => Charges'
  BY NextCharges
<1> QED
  BY <1>1, <1>2, SerialInductive, PTL DEF Spec

\* An order that lost no event is paid at most once, and never shipped unpaid,
\* however many consumers handle its messages and however often.
THEOREM PaidAtMostOnce == Spec => []ChargedOnce
<1>1. TypeInv /\ Charges => ChargedOnce
  <2> SUFFICES ASSUME TypeInv, Charges, NEW o \in Unrevoked
               PROVE  /\ Cardinality(PaidRows(o)) <= 1
                      /\ ProjectionOf(log[o]).shipping \in {"in_transit", "delivered"} =>
                             Cardinality(PaidRows(o)) = 1
    BY DEF ChargedOnce
  <2>1. CASE PaidRows(o) = {}
    <3>1. log[o] = <<>> \/ ProjectionOf(log[o]) \in Unpaid
      BY <2>1 DEF Charges
    <3>2. log[o] = <<>> => ProjectionOf(log[o]) = EmptyProjection
      BY ProjectionOfEmpty DEF TypeInv, TypeOK, Unrevoked
    <3>3. ProjectionOf(log[o]).shipping \notin {"in_transit", "delivered"}
      <4>1. CASE log[o] = <<>>
        <5>1. ProjectionOf(log[o]) = EmptyProjection
          BY <3>2, <4>1
        <5>2. EmptyProjection.shipping = ""
          BY DEF EmptyProjection
        <5> QED
          BY <5>1, <5>2
      <4>2. CASE ProjectionOf(log[o]) \in Unpaid
        BY <4>2 DEF Unpaid
      <4> QED
        BY <3>1, <4>1, <4>2
    <3>4. Cardinality(PaidRows(o)) = 0
      BY <2>1, FS_EmptySet
    <3> QED
      BY <3>3, <3>4
  <2>2. CASE PaidRows(o) # {}
    <3>1. PICK n : PaidRows(o) = {n}
      BY <2>2 DEF Charges
    <3>2. Cardinality(PaidRows(o)) = 1
      BY <3>1, FS_Singleton
    <3> QED
      BY <3>2
  <2> QED
    BY <2>1, <2>2
<1> QED
  BY <1>1, ChargesInductive, PTL

\* The shipping status of an order that lost no event and is not cancelled
\* never goes back, and a delivered order stays delivered.
THEOREM ShippingNeverGoesBack == Spec => ShippingForward
<1> DEFINE Forward(o) ==
        removed'[o] = {} /\ ProjectionOf(log[o]).shipping # "cancelled" =>
            /\ ShippingRank(log'[o]) >= ShippingRank(log[o])
            /\ ProjectionOf(log[o]).shipping = "delivered" =>
                   ProjectionOf(log'[o]).shipping = "delivered"
<1>1. ASSUME TypeInv, Serial, Charges, [Next]_vars, NEW o \in Orders
      PROVE  Forward(o)
  <2>1. SUFFICES ASSUME o \in Unrevoked', ProjectionOf(log[o]).shipping # "cancelled"
                 PROVE  /\ ShippingRank(log'[o]) >= ShippingRank(log[o])
                        /\ ProjectionOf(log[o]).shipping = "delivered" =>
                               ProjectionOf(log'[o]).shipping = "delivered"
    BY DEF Unrevoked
  <2> DEFINE p == ProjectionOf(log[o])
             q == ProjectionOf(log'[o])
             rank(status) == MapStrToShippingStatus(status)
  <2>2. o \in Unrevoked
    BY <1>1, <2>1, UnrevokedStep
  <2>3. \/ p = EmptyProjection /\ log[o] = <<>>
        \/ p \in Unpaid \cup Paid /\ log[o] # <<>>
    BY <1>1, <2>2, ProjectionOfEmpty DEF Charges, TypeInv, TypeOK, Unrevoked
  <2>4. rank(p.shipping) \in 0..5
    <3>1. p.shipping \in {"", "waiting_for_payment", "cancelled",
                          "waiting_for_shipment", "in_transit", "delivered"}
      <4> HIDE DEF p
      <4>1. CASE p = EmptyProjection
        BY <4>1 DEF EmptyProjection
      <4>2. CASE p \in Unpaid
        BY <4>2 DEF Unpaid
      <4>3. CASE p \in Paid
        BY <4>3 DEF Paid
      <4> QED
        BY <2>3, <4>1, <4>2, <4>3 DEF p
    <3> DEFINE status == p.shipping
    <3> HIDE DEF p, status
    <3>2. status \in {"", "waiting_for_payment", "cancelled",
                      "waiting_for_shipment", "in_transit", "delivered"}
      BY <3>1 DEF status
    <3>3. MapStrToShippingStatus(status) \in 0..5
      BY DEF MapStrToShippingStatus
    <3> QED
      BY <3>3 DEF status, rank
  <2>5. CASE log'[o] = log[o]
    BY <2>4, <2>5 DEF ShippingRank
  <2>6. CASE log'[o] # log[o]
    <3>1. PICK a \in Actors : CommitRow(a) /\ job[a].order = o
      BY <1>1, <2>1, <2>6, UnrevokedStep
    <3> DEFINE event == job[a].row.event
    <3>2. /\ event \in Event
          /\ q = ApplyEvent(p, event)
          /\ log[o] = <<>> => event = PlainEvent("order_placed")
          /\ log[o] # <<>> => Validate(p, event)
      BY <1>1, <2>2, <3>1, CommitProjection
    <3> HIDE DEF event, p, q
    <3>3. CASE log[o] # <<>>
      BY <2>1, <2>3, <3>2, <3>3, AcceptedEvent DEF ShippingRank, p, q
    <3>4. CASE log[o] = <<>>
      <4>1. event.type = "order_placed" /\ p.shipping = ""
        <5>1. p = EmptyProjection
          BY <2>3, <3>4
        <5>2. EmptyProjection.shipping = ""
          BY DEF EmptyProjection
        <5> QED
          BY <3>2, <3>4, <5>1, <5>2, PlacedEvent
      <4>2. q.shipping = "waiting_for_payment"
        BY <3>2, <4>1 DEF ApplyEvent
      <4>3. rank(p.shipping) = 0 /\ rank(q.shipping) = 1
        BY <4>1, <4>2, Ranks
      <4>4. ShippingRank(log[o]) = 0 /\ ShippingRank(log'[o]) = 1
        BY <4>3 DEF ShippingRank, p, q, rank
      <4>5. ProjectionOf(log[o]).shipping # "delivered"
        BY <4>1 DEF p
      <4> QED
        BY <4>4, <4>5
    <3> QED
      BY <3>3, <3>4
  <2> QED
    BY <2>5, <2>6
<1>2. TypeInv /\ Serial /\ Charges /\ [Next]_vars => [\A o \in Orders : Forward(o)]_vars
  BY <1>1
<1> QED
  BY <1>2, ChargesInductive, PTL DEF Spec, ShippingForward

-----------------------------------------------------------------------------
(* Refinement of OrderStatus *)

\* OrderStatus's Onward, as a relation.
GoesOnward(from, to) ==
    \/ from = "waiting_for_shipment" /\ to \in {"in_transit", "delivered"}
    \/ from = "in_transit" /\ to = "delivered"

\* What a command does to the statuses of a placed order.
Moved(p, q) ==
    \/ /\ p.payment = "pending" /\ q.payment = "initiated"
       /\ q.shipping = p.shipping
    \/ /\ p.payment = "initiated" /\ q.payment = "paid"
       /\ q.shipping = "waiting_for_shipment"
    \/ /\ p.payment = "paid" /\ q.payment = "paid"
       /\ q.shipping = p.shipping \/ GoesOnward(p.shipping, q.shipping)
    \/ /\ p.shipping \notin {"", "delivered", "cancelled"}
       /\ q.payment = p.payment /\ q.shipping = "cancelled"

LogStatuses == [o \in Orders |-> StatusesOf(log[o])]

\* Every command that a placed order accepts moves its statuses as the status
\* machine allows, or not at all.
LEMMA AcceptedMove ==
    ASSUME NEW p \in Unpaid \cup Paid, NEW event \in Event, Validate(p, event),
           NEW q, q = ApplyEvent(p, event)
    PROVE  Moved(p, q)
<1>1. event.type \in EventTypes /\ event.status \in ShippingStatuses
  BY DEF Event
<1>2. /\ p = [method |-> p.method, payment |-> p.payment, shipping |-> p.shipping]
      /\ \/ /\ p.payment \in {"pending", "initiated"}
            /\ p.shipping \in {"waiting_for_payment", "cancelled"}
         \/ /\ p.payment = "paid"
            /\ p.shipping \in {"waiting_for_shipment", "in_transit",
                               "delivered", "cancelled"}
  BY DEF Unpaid, Paid
<1>3. CASE event.type = "order_payment_initiated"
  <2>1. p.payment = "pending"
    BY <1>3 DEF Validate, ValidateInitPendingPayment
  <2>2. q = [method |-> p.method, payment |-> "initiated", shipping |-> p.shipping]
    BY <1>2, <1>3 DEF ApplyEvent
  <2> QED
    BY <2>1, <2>2 DEF Moved
<1>4. CASE event.type = "order_paid"
  <2>1. p.payment = "initiated"
    BY <1>4 DEF Validate, ValidateProcessPayment
  <2>2. q = [method |-> p.method, payment |-> "paid", shipping |-> "waiting_for_shipment"]
    BY <1>2, <1>4 DEF ApplyEvent
  <2> QED
    BY <2>1, <2>2 DEF Moved
<1>5. CASE event.type = "order_cancelled"
  <2>1. p.shipping \notin {"cancelled", "delivered"}
    BY <1>5 DEF Validate, ValidateCancelOrder
  <2>2. q = [method |-> p.method, payment |-> p.payment, shipping |-> "cancelled"]
    BY <1>2, <1>5 DEF ApplyEvent
  <2>3. p.shipping # ""
    BY <1>2
  <2>4. q.payment = p.payment /\ q.shipping = "cancelled"
    BY <2>2
  <2> QED
    BY <2>1, <2>3, <2>4 DEF Moved
<1>6. CASE event.type = "order_shipping_status_updated"
  <2>1. /\ p.payment = "paid"
        /\ event.status # "cancelled"
        /\ MapStrToShippingStatus(p.shipping) <= MapStrToShippingStatus(event.status)
    BY <1>6 DEF Validate, ValidateUpdateShippingStatus
  <2>2. p.shipping \in {"waiting_for_shipment", "in_transit", "delivered", "cancelled"}
    BY <1>2, <2>1
  <2>3. /\ event.status \in {"waiting_for_shipment", "in_transit", "delivered"}
        /\ p.shipping # "cancelled"
        /\ p.shipping = "delivered" => event.status = "delivered"
        /\ p.shipping = "in_transit" => event.status \in {"in_transit", "delivered"}
    BY <1>1, <2>1, <2>2, AcceptedStatus
  <2>4. q = [method |-> p.method, payment |-> p.payment, shipping |-> event.status]
    BY <1>2, <1>6, <2>3 DEF ApplyEvent
  <2>5. q.payment = "paid" /\ q.shipping = event.status
    BY <2>1, <2>4
  <2> DEFINE from == p.shipping
             to == event.status
  <2>6. q.shipping = p.shipping \/ GoesOnward(p.shipping, q.shipping)
    BY <2>2, <2>3, <2>5 DEF GoesOnward
  <2> QED
    BY <2>1, <2>5, <2>6 DEF Moved
<1>7. CASE event.type \in {"order_placed", "order_payment_failed"}
  BY <1>7 DEF Validate
<1> QED
  BY <1>1, <1>3, <1>4, <1>5, <1>6, <1>7 DEF EventTypes, PlainEventTypes

\* A commit is a move of the status machine or, after a deletion, Revoke.
LEMMA CommitMoves ==
    ASSUME TypeInv, Serial, Charges, NEW a \in Actors, CommitRow(a),
           UNCHANGED removed
    PROVE  [Status!Next]_(Status!vars)
<1>0. PICK o \in Orders : o = job[a].order
  BY CommitRowProperties DEF TypeInv
<1>1. PICK k \in 1..(Len(log[o]) + 1) : RowInserted(o, job[a].row, k)
  BY <1>0, CommitRowProperties DEF TypeInv
<1>2. \A p \in Orders \ {o} : log'[p] = log[p]
  BY <1>1 DEF RowInserted
<1> DEFINE p == ProjectionOf(log[o])
           q == ProjectionOf(log'[o])
           At(x) == [payment |-> x.payment, shipping |-> x.shipping]
<1>3. /\ LogStatuses' = [LogStatuses EXCEPT ![o] = At(q)]
      /\ LogStatuses'[o] = At(q) /\ LogStatuses[o] = At(p)
      /\ At(p) = At(q) => UNCHANGED LogStatuses
      /\ UNCHANGED Revoked
  BY <1>2 DEF LogStatuses, StatusesOf, Revoked
<1>4. CASE o \in Unrevoked
  <2> DEFINE event == job[a].row.event
  <2>1. /\ event \in Event
        /\ q = ApplyEvent(p, event)
        /\ log[o] = <<>> => event = PlainEvent("order_placed") /\ p = EmptyProjection
        /\ log[o] # <<>> => Validate(p, event)
    BY <1>0, <1>4, CommitProjection
  <2>2. ~Revoked[o]
    BY <1>4 DEF Revoked, Unrevoked
  <2> HIDE DEF event, p, q
  <2>3. ASSUME NEW pay, NEW ship, q.payment = pay, q.shipping = ship
        PROVE  Status!Move(o, pay, ship)
    BY <1>3, <2>2, <2>3 DEF Status!Move, Status!At, LogStatuses, Revoked
  <2>4a. At(q) # At(p) /\ (\/ Status!Place(o) \/ Status!Initiate(o) \/ Status!Pay(o)
                            \/ Status!Ship(o) \/ Status!Cancel(o))
         => Status!Next
    BY <1>0, <1>3 DEF Status!Next, LogStatuses
  <2>4. CASE log[o] = <<>>
    <3>1. event.type = "order_placed" /\ p.payment = "" /\ p.shipping = ""
      <4>1. EmptyProjection.payment = "" /\ EmptyProjection.shipping = ""
        BY DEF EmptyProjection
      <4> QED
        BY <2>1, <2>4, <4>1, PlacedEvent
    <3>2. q.payment = "pending" /\ q.shipping = "waiting_for_payment"
      BY <2>1, <3>1 DEF ApplyEvent
    <3>3. Status!Place(o)
      BY <1>3, <2>3, <3>1, <3>2 DEF Status!Place, Status!At, LogStatuses
    <3>4. At(q) # At(p)
      BY <3>1, <3>2
    <3> QED
      BY <2>4a, <3>3, <3>4
  <2>5. CASE log[o] # <<>>
    <3>1. p \in Unpaid \cup Paid
      BY <1>4, <2>5 DEF Charges, p
    <3>2. Moved(p, q)
      <4>1. event \in Event /\ Validate(p, event) /\ q = ApplyEvent(p, event)
        BY <2>1, <2>5
      <4> QED
        BY <3>1, <4>1, AcceptedMove
    <3>3. CASE /\ p.payment = "pending" /\ q.payment = "initiated"
               /\ q.shipping = p.shipping
      <4>1. Status!Initiate(o)
        BY <1>3, <2>3, <3>3 DEF Status!Initiate, LogStatuses
      <4>2. At(q) # At(p)
        BY <3>3
      <4> QED
        BY <2>4a, <4>1, <4>2
    <3>4. CASE /\ p.payment = "initiated" /\ q.payment = "paid"
               /\ q.shipping = "waiting_for_shipment"
      <4>1. Status!Pay(o)
        BY <1>3, <2>3, <3>4 DEF Status!Pay, LogStatuses
      <4>2. At(q) # At(p)
        BY <3>4
      <4> QED
        BY <2>4a, <4>1, <4>2
    <3>5. CASE /\ p.payment = "paid" /\ q.payment = "paid"
               /\ GoesOnward(p.shipping, q.shipping)
      <4>1. Status!Ship(o)
        <5>1. Status!Move(o, "paid", q.shipping) /\ LogStatuses[o].payment = "paid"
          BY <1>3, <2>3, <3>5
        <5>2. LogStatuses[o].shipping = p.shipping
          BY <1>3
        <5>3. q.shipping \in Status!Onward(LogStatuses[o].shipping)
          BY <3>5, <5>2 DEF Status!Onward, GoesOnward
        <5> QED
          BY <5>1, <5>3 DEF Status!Ship, LogStatuses
      <4>2. At(q) # At(p)
        BY <3>5 DEF GoesOnward
      <4> QED
        BY <2>4a, <4>1, <4>2
    <3>6. CASE q.payment = p.payment /\ q.shipping = p.shipping
      BY <1>3, <3>6 DEF Status!vars, LogStatuses, Revoked
    <3>7. CASE /\ p.shipping \notin {"", "delivered", "cancelled"}
               /\ q.payment = p.payment /\ q.shipping = "cancelled"
      <4>1. Status!Cancel(o)
        <5>1. Status!Move(o, p.payment, "cancelled")
          BY <2>3, <3>7
        <5>2. LogStatuses[o].payment = p.payment /\ LogStatuses[o].shipping = p.shipping
          BY <1>3
        <5> QED
          BY <3>7, <5>1, <5>2 DEF Status!Cancel, LogStatuses
      <4>2. At(q) # At(p)
        BY <3>7
      <4> QED
        BY <2>4a, <4>1, <4>2
    <3> QED
      BY <3>2, <3>3, <3>4, <3>5, <3>6, <3>7 DEF Moved
  <2> QED
    BY <2>4, <2>5
<1>5. CASE o \notin Unrevoked
  <2>1. Revoked' = [Revoked EXCEPT ![o] = TRUE]
    BY <1>5 DEF Revoked, Unrevoked
  <2>2. \A x \in Orders \ {o} : LogStatuses'[x] = LogStatuses[x]
    BY <1>2 DEF LogStatuses
  <2>3. Status!Revoke(o)
    BY <2>1, <2>2 DEF Status!Revoke, LogStatuses, Revoked
  <2> QED
    BY <2>3 DEF Status!Next
<1> QED
  BY <1>4, <1>5

LEMMA RemoveRevokes ==
    ASSUME TypeInv, NEW a \in Actors, RemoveEvent(a)
    PROVE  Status!Next
<1>0. PICK o \in Orders : o = job[a].order
  BY RemoveEventProperties DEF TypeInv
<1>1. PICK k : RowDeleted(o, k)
  BY <1>0, RemoveEventProperties DEF TypeInv
<1>2. \A x \in Orders \ {o} : LogStatuses'[x] = LogStatuses[x]
  BY <1>1 DEF LogStatuses, RowDeleted
<1>3. Revoked' = [Revoked EXCEPT ![o] = TRUE]
  <2>1. /\ removed' = [removed EXCEPT ![o] = @ \cup {job[a].row.id}]
        /\ removed \in [Orders -> SUBSET Nat]
    BY <1>0 DEF RemoveEvent, TypeInv, TypeOK
  <2> QED
    BY <2>1 DEF Revoked
<1>4. Status!Revoke(o)
  BY <1>2, <1>3 DEF Status!Revoke, LogStatuses, Revoked
<1> QED
  BY <1>4 DEF Status!Next

LEMMA StepMoves ==
    TypeInv /\ Serial /\ Charges /\ [Next]_vars => [Status!Next]_(Status!vars)
<1> SUFFICES ASSUME TypeInv, Serial, Charges, [Next]_vars
             PROVE  [Status!Next]_(Status!vars)
  OBVIOUS
<1>1. CASE UNCHANGED <<log, removed>>
  BY <1>1 DEF Status!vars, LogStatuses, Revoked
<1>2. CASE ~UNCHANGED <<log, removed>>
  <2>1. PICK a \in Actors : Command(a) \/ Progress(a) \/ Failure(a)
    BY <1>2 DEF Next, vars, LateDelivery
  <2>2. Commit(a) \/ CommitUnknown(a) \/ RemoveEvent(a)
    BY <1>2, <2>1 DEF Command, Progress, Failure, PlaceOrder, PaymentInitializer,
       InitializePendingPayment, PaymentProcessor, ProcessPayment, CancelOrder,
       UpdateShippingStatus, Decide, Insert, InsertConflict, Publish, PublishFails,
       TransactionFails, RemoveFails, Crash
  <2>3. CASE Commit(a) \/ CommitUnknown(a)
    BY <2>3, CommitMoves DEF Commit, CommitUnknown
  <2> QED
    BY <2>2, <2>3, RemoveRevokes
<1> QED
  BY <1>1, <1>2

LEMMA InitMoves == Init => Status!Init
<1> SUFFICES ASSUME Init PROVE Status!Init
  OBVIOUS
<1>1. /\ <<>> \in Seq(Row) /\ Len(<<>>) = 0
      /\ EmptyProjection.payment = "" /\ EmptyProjection.shipping = ""
  BY DEF EmptyProjection
<1>2. ProjectionOf(<<>>) = EmptyProjection
  BY <1>1, ProjectionOfEmpty
<1>3. \A o \in Orders : log[o] = <<>> /\ removed[o] = {}
  BY DEF Init
<1>4. \A o \in Orders : ProjectionOf(log[o]) = EmptyProjection
  BY <1>2, <1>3
<1> QED
  BY <1>1, <1>3, <1>4 DEF Status!Init, Status!At, StatusesOf

\* However commands race, an order that lost no event lives by the status
\* machine: it is placed, its payment initiated and made in this order, shipped
\* only when paid and only onward, and cancelled only before delivery.
THEOREM OrdersLiveByStatusMachine == Spec => StatusMachine
<1>1. Init => Status!Init
  BY InitMoves
<1>2. TypeInv /\ Serial /\ Charges /\ [Next]_vars => [Status!Next]_(Status!vars)
  BY StepMoves
<1> QED
  BY <1>1, <1>2, ChargesInductive, PTL DEF Spec, StatusMachine, Status!Spec
=============================================================================
