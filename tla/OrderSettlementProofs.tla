------------------------ MODULE OrderSettlementProofs ------------------------
(***************************************************************************)
(* The payment consumers leave nothing behind: PaidAtRest.                  *)
(*                                                                         *)
(* A consumer drops a message for good when its validator refuses or when   *)
(* its insert loses the race for a sequence number.  Stages says why that   *)
(* does no harm: each accepted event brings the order a stage further, and  *)
(* whoever took the sequence number has brought it past the stage that the  *)
(* message asks for.  Settling follows an order without faults through the  *)
(* topic: its rows are announced, and what a consumer took is either done   *)
(* or being done by a Send that only a fault can stop.                      *)
(***************************************************************************)
EXTENDS OrderSystemProofs

\* The payment was initiated, or need not be.
Begun(p) == p.payment \in {"initiated", "paid"} \/ p.shipping = "cancelled"

\* The order is paid, or need not be.
Ended(p) == p.payment = "paid" \/ p.shipping = "cancelled"

HasRow(o, type) == \E n \in 1..Len(log[o]) : log[o][n].event.type = type

\* How far an order without deletions has come, by the length of its log.
Stages ==
    \A o \in Unrevoked : log[o] # <<>> =>
        LET p == ProjectionOf(log[o])
        IN  /\ HasRow(o, "order_placed")
            /\ Len(log[o]) = 1 =>
                   p.payment = "pending" /\ p.shipping = "waiting_for_payment"
            /\ Len(log[o]) >= 2 => Begun(p)
            /\ Len(log[o]) >= 3 => Ended(p)
            /\ HasRow(o, "order_payment_initiated") =>
                   p.payment \in {"initiated", "paid"}
            /\ p.payment = "initiated" => HasRow(o, "order_payment_initiated")

-----------------------------------------------------------------------------
(* Stages *)

\* Neither stage is lost by what an order accepts, and one is won.
LEMMA MoveStages ==
    ASSUME NEW p \in Unpaid \cup Paid, NEW q, Moved(p, q)
    PROVE  /\ Begun(p) => Begun(q)
           /\ Ended(p) => Ended(q)
           /\ p.payment = "pending" => Begun(q)
           /\ Begun(p) => Ended(q)
           /\ p.payment \in {"initiated", "paid"} => q.payment \in {"initiated", "paid"}
<1>1. /\ p.payment \in {"pending", "initiated", "paid"}
      /\ p.payment = "paid" => p.shipping # "waiting_for_payment"
  BY DEF Unpaid, Paid
<1>2. CASE /\ p.payment = "pending" /\ q.payment = "initiated"
           /\ q.shipping = p.shipping
  BY <1>2 DEF Begun, Ended
<1>3. CASE /\ p.payment = "initiated" /\ q.payment = "paid"
           /\ q.shipping = "waiting_for_shipment"
  BY <1>3 DEF Begun, Ended
<1>4. CASE /\ p.payment = "paid" /\ q.payment = "paid"
           /\ q.shipping = p.shipping \/ GoesOnward(p.shipping, q.shipping)
  BY <1>4 DEF Begun, Ended
<1>5. CASE /\ p.shipping \notin {"", "delivered", "cancelled"}
           /\ q.payment = p.payment /\ q.shipping = "cancelled"
  BY <1>5 DEF Begun, Ended
<1> QED
  BY <1>2, <1>3, <1>4, <1>5 DEF Moved

\* The payment is initiated by the event of that name and by no other.
LEMMA InitiatedBy ==
    ASSUME NEW p \in Unpaid \cup Paid \cup {EmptyProjection}, NEW event \in Event
    PROVE  LET q == ApplyEvent(p, event)
           IN  /\ event.type = "order_payment_initiated" => q.payment = "initiated"
               /\ q.payment = "initiated" =>
                      p.payment = "initiated" \/ event.type = "order_payment_initiated"
               /\ event.type = "order_paid" => q.payment = "paid"
<1>1. event.type \in EventTypes
  BY DEF Event
<1>2. p = [method |-> p.method, payment |-> p.payment, shipping |-> p.shipping]
  BY DEF Unpaid, Paid, EmptyProjection
<1>3. CASE event.type = "order_placed"
  BY <1>3 DEF ApplyEvent
<1>4. CASE event.type = "order_payment_initiated"
  BY <1>2, <1>4 DEF ApplyEvent
<1>5. CASE event.type = "order_paid"
  BY <1>2, <1>5 DEF ApplyEvent
<1>6. CASE event.type = "order_payment_failed"
  BY <1>2, <1>6 DEF ApplyEvent
<1>7. CASE event.type = "order_cancelled"
  BY <1>2, <1>7 DEF ApplyEvent
<1>8. CASE event.type = "order_shipping_status_updated"
  BY <1>2, <1>8 DEF ApplyEvent
<1> QED
  BY <1>1, <1>3, <1>4, <1>5, <1>6, <1>7, <1>8 DEF EventTypes, PlainEventTypes

\* The log of o gets a row of this type.
Gains(o, type) ==
    \A other : HasRow(o, other)' <=> HasRow(o, other) \/ other = type

LEMMA CommitGains ==
    ASSUME TypeInv, Serial, NEW a \in Actors, CommitRow(a), NEW o \in Unrevoked,
           o = job[a].order, NEW event, event = job[a].row.event
    PROVE  Gains(o, event.type)
<1>1. /\ Len(log[o]) \in Nat /\ Len(log'[o]) = Len(log[o]) + 1
  BY CommitProjection
<1>2. /\ \A i \in 1..Len(log[o]) : log'[o][i] = log[o][i]
      /\ log'[o][Len(log[o]) + 1].event = event
  <2> DEFINE row == job[a].row
  <2>1. row = job[a].row /\ row.event = event
    OBVIOUS
  <2> HIDE DEF row
  <2>2. /\ \A i \in 1..Len(log[o]) : log'[o][i] = log[o][i]
        /\ log'[o][Len(log[o]) + 1] = row
    BY ONLY TypeInv, Serial, a \in Actors, CommitRow(a), o \in Unrevoked,
       o = job[a].order, <2>1, CommitAppends
  <2> QED
    BY <2>1, <2>2
<1>3. \A n : n \in 1..Len(log'[o]) <=> n \in 1..Len(log[o]) \/ n = Len(log[o]) + 1
  BY <1>1
<1> QED
  BY <1>2, <1>3 DEF Gains, HasRow

LEMMA InitStages == Init => Stages
BY DEF Init, Stages, Unrevoked

LEMMA NextStages ==
    ASSUME TypeInv, Serial, Charges, Stages, [Next]_vars
    PROVE  Stages'
<1> DEFINE q(o) == ProjectionOf(log'[o])
<1> SUFFICES ASSUME NEW o \in Unrevoked', log'[o] # <<>>
             PROVE  /\ HasRow(o, "order_placed")'
                    /\ Len(log'[o]) = 1 => /\ q(o).payment = "pending"
                                           /\ q(o).shipping = "waiting_for_payment"
                    /\ Len(log'[o]) >= 2 => Begun(q(o))
                    /\ Len(log'[o]) >= 3 => Ended(q(o))
                    /\ HasRow(o, "order_payment_initiated")' =>
                           q(o).payment \in {"initiated", "paid"}
                    /\ q(o).payment = "initiated" =>
                           HasRow(o, "order_payment_initiated")'
  BY DEF Stages, Begun, Ended
<1>1. /\ o \in Orders /\ o \in Unrevoked
      /\ Len(log[o]) \in Nat /\ Len(log'[o]) \in Nat
      /\ \A i \in 1..Len(log[o]) : log'[o][i] = log[o][i]
  BY LogGrows
<1>2. CASE log'[o] = log[o]
  BY <1>1, <1>2 DEF Stages, HasRow
<1>3. CASE log'[o] # log[o]
  <2>1. PICK a \in Actors : CommitRow(a) /\ job[a].order = o
    BY <1>3, UnrevokedStep
  <2> DEFINE event == job[a].row.event
             p == ProjectionOf(log[o])
             qo == q(o)
  <2>2. /\ event \in Event
        /\ qo = ApplyEvent(p, event)
        /\ log[o] = <<>> => event = PlainEvent("order_placed") /\ p = EmptyProjection
        /\ log[o] # <<>> => Validate(p, event)
        /\ Len(log'[o]) = Len(log[o]) + 1
    BY <1>1, <2>1, CommitProjection
  <2>3. o = job[a].order /\ event = job[a].row.event
    BY <2>1
  <2> HIDE DEF event, p, q, qo
  <2>4. Gains(o, event.type)
    BY <1>1, <2>1, <2>3, CommitGains
  <2>5. CASE log[o] = <<>>
    <3>1. /\ event.type = "order_placed" /\ Len(log[o]) = 0
          /\ p = EmptyProjection
      BY <2>2, <2>5, PlacedEvent
    <3>2. qo.payment = "pending" /\ qo.shipping = "waiting_for_payment"
      BY <2>2, <3>1 DEF ApplyEvent
    <3>3. ~HasRow(o, "order_payment_initiated")
      BY <3>1 DEF HasRow
    <3> QED
      BY <2>2, <2>4, <3>1, <3>2, <3>3 DEF Gains, qo
  <2>6. CASE log[o] # <<>>
    <3>1. p \in Unpaid \cup Paid
      BY <1>1, <2>6 DEF Charges, p
    <3>2. Moved(p, qo)
      BY <2>2, <2>6, <3>1, AcceptedMove
    <3>3. /\ Begun(p) => Begun(qo)
          /\ Ended(p) => Ended(qo)
          /\ p.payment = "pending" => Begun(qo)
          /\ Begun(p) => Ended(qo)
          /\ p.payment \in {"initiated", "paid"} => qo.payment \in {"initiated", "paid"}
      BY <3>1, <3>2, MoveStages
    <3>4. /\ event.type = "order_payment_initiated" => qo.payment = "initiated"
          /\ qo.payment = "initiated" =>
                 p.payment = "initiated" \/ event.type = "order_payment_initiated"
      BY <2>2, <3>1, InitiatedBy
    <3>5. /\ HasRow(o, "order_placed")
          /\ Len(log[o]) = 1 =>
                 p.payment = "pending" /\ p.shipping = "waiting_for_payment"
          /\ Len(log[o]) >= 2 => Begun(p)
          /\ Len(log[o]) >= 3 => Ended(p)
          /\ HasRow(o, "order_payment_initiated") => p.payment \in {"initiated", "paid"}
          /\ p.payment = "initiated" => HasRow(o, "order_payment_initiated")
      BY <1>1, <2>6 DEF Stages, p
    <3>6. Len(log[o]) >= 1
      BY <1>1, <2>6, EmptySeq DEF TypeInv, TypeOK
    <3>7. HasRow(o, "order_placed")'
      BY <2>4, <3>5 DEF Gains
    <3>8. Len(log'[o]) # 1
      BY <1>1, <2>2, <3>6
    <3>9. Begun(qo)
      <4>1. p.payment \in {"pending", "initiated", "paid"}
        BY <3>1 DEF Unpaid, Paid
      <4> QED
        BY <3>3, <4>1 DEF Begun
    <3>10. Len(log'[o]) >= 3 => Ended(qo)
      BY <1>1, <2>2, <3>3, <3>5
    <3>11. HasRow(o, "order_payment_initiated")' => qo.payment \in {"initiated", "paid"}
      BY <2>4, <3>3, <3>4, <3>5 DEF Gains
    <3>12. qo.payment = "initiated" => HasRow(o, "order_payment_initiated")'
      BY <2>4, <3>4, <3>5 DEF Gains
    <3> QED
      BY <3>7, <3>8, <3>9, <3>10, <3>11, <3>12 DEF qo
  <2> QED
    BY <2>5, <2>6
<1> QED
  BY <1>2, <1>3

\* No stage is lost.
LEMMA StagesKept ==
    ASSUME TypeInv, Serial, Charges, [Next]_vars, NEW o \in Unrevoked',
           log[o] # <<>>
    PROVE  /\ Begun(ProjectionOf(log[o])) => Begun(ProjectionOf(log'[o]))
           /\ Ended(ProjectionOf(log[o])) => Ended(ProjectionOf(log'[o]))
<1>1. o \in Unrevoked
  BY UnrevokedStep
<1>2. CASE log'[o] # log[o]
  <2>1. PICK a \in Actors : CommitRow(a) /\ job[a].order = o
    BY <1>2, UnrevokedStep
  <2> DEFINE event == job[a].row.event
             p == ProjectionOf(log[o])
  <2>2. /\ event \in Event
        /\ ProjectionOf(log'[o]) = ApplyEvent(p, event)
        /\ Validate(p, event)
    BY <1>1, <2>1, CommitProjection
  <2> HIDE DEF event
  <2>3. p \in Unpaid \cup Paid
    BY <1>1 DEF Charges
  <2> HIDE DEF p
  <2>4. Moved(p, ApplyEvent(p, event))
    BY <2>2, <2>3, AcceptedMove
  <2>5. /\ Begun(p) => Begun(ApplyEvent(p, event))
        /\ Ended(p) => Ended(ApplyEvent(p, event))
    BY <2>3, <2>4, MoveStages
  <2> QED
    BY <2>2, <2>5 DEF p
<1> QED
  BY <1>2

\* Whoever took the sequence number of a payment event brought the order past
\* the stage that the event is for: a lost race is no lost payment.
LEMMA LostRace ==
    ASSUME TypeInv, Serial, Stages, NEW a \in Actors, InsertConflict(a),
           NEW o \in Unrevoked, o = job[a].order, NEW event, event = job[a].row.event
    PROVE  /\ event.type = "order_payment_initiated" => Begun(ProjectionOf(log[o]))
           /\ event.type = "order_paid" => Ended(ProjectionOf(log[o]))
<1> DEFINE seq == job[a].row.seq
           rows == SubSeq(log[o], 1, seq)
<1>1. /\ o \in Orders /\ seq \in Nat
      /\ log[o] \in Seq(Row) /\ Len(log[o]) \in Nat
  BY ActiveSend, LenProperties DEF Unrevoked, TypeInv, TypeOK, InsertConflict, Row
<1>2. /\ seq <= Len(log[o])
      /\ Accepts(EventsOf(rows), event)
      /\ InOrder(o)
  BY DEF Serial, Decided, InsertConflict
<1>3. seq + 1 <= Len(log[o])
  <2>1. PICK n \in 1..Len(log[o]) : log[o][n].seq = seq
    BY DEF InsertConflict
  <2>2. seq = n - 1
    BY <1>2, <2>1 DEF InOrder
  <2> QED
    BY <1>1, <2>2
<1>4. SUFFICES ASSUME event.type \in {"order_payment_initiated", "order_paid"}
               PROVE  /\ event.type = "order_payment_initiated" =>
                             Begun(ProjectionOf(log[o]))
                      /\ event.type = "order_paid" => Ended(ProjectionOf(log[o]))
  OBVIOUS
<1> HIDE DEF seq
<1>5. EventsOf(rows) # <<>> /\ Validate(ProjectionOf(rows), event)
  <2>1. event # PlainEvent("order_placed")
    BY <1>4, PlacedEvent
  <2> QED
    BY <1>2, <2>1 DEF Accepts, ProjectionOf
<1>6. ASSUME NEW s, s = log[o], NEW n \in 0..Len(s)
      PROVE  /\ EventsOf(SubSeq(s, 1, n)) = [i \in 1..n |-> s[i].event]
             /\ n = 0 => EventsOf(SubSeq(s, 1, n)) = <<>>
  <2>1. EventsOf(SubSeq(s, 1, n)) = [i \in 1..n |-> s[i].event]
    BY <1>1, <1>6, EventsOfPrefix
  <2> QED
    BY <2>1
<1>7. 0 \in 0..Len(log[o]) /\ EventsOf(SubSeq(log[o], 1, 0)) = <<>> /\ seq >= 1
  <2>1. 0 \in 0..Len(log[o])
    BY <1>1
  <2>2. EventsOf(SubSeq(log[o], 1, 0)) = <<>>
    BY <1>6, <2>1
  <2>3. seq # 0
    BY <1>5, <2>2
  <2> QED
    BY <1>1, <2>1, <2>2, <2>3
<1>8. log[o] # <<>>
  BY <1>1, <1>3
<1>9. CASE event.type = "order_payment_initiated"
  <2>1. Len(log[o]) >= 2
    BY <1>1, <1>3, <1>7
  <2> QED
    BY <1>8, <1>9, <2>1 DEF Stages
<1>10. CASE event.type = "order_paid"
  <2>1. ProjectionOf(rows).payment = "initiated"
    BY <1>5, <1>10 DEF Validate, ValidateProcessPayment
  <2>2. ASSUME seq = 1 PROVE FALSE
    <3>1. Accepts(EventsOf(SubSeq(log[o], 1, 0)), log[o][1].event)
      <4>1. 1 \in 1..Len(log[o]) /\ 1 - 1 = 0
        BY <1>1, <1>3, <2>2
      <4> QED
        BY <1>2, <4>1 DEF InOrder
    <3>2. log[o][1].event = PlainEvent("order_placed")
      BY <1>7, <3>1 DEF Accepts
    <3>3. /\ rows \in Seq(Row) /\ Len(rows) = 1 /\ rows[1] = log[o][1]
          /\ <<>> \in Seq(Row) /\ Len(<<>>) = 0
      BY <1>1, <1>3, <2>2, SubSeqProperties
    <3>4. ProjectionOf(rows) = ApplyEvent(ProjectionOf(<<>>), log[o][1].event)
      <4> DEFINE none == <<>>
      <4>1. /\ none \in Seq(Row) /\ Len(none) = 0 /\ Len(rows) = Len(none) + 1
            /\ \A i \in 1..Len(none) : rows[i] = none[i]
        BY <3>3
      <4> HIDE DEF rows, none
      <4>2. ProjectionOf(rows) = ApplyEvent(ProjectionOf(none), rows[Len(rows)].event)
        BY <3>3, <4>1, ProjectionOfAppend
      <4> QED
        BY <3>3, <4>2 DEF none
    <3>5. ProjectionOf(rows).payment = "pending"
      BY <3>2, <3>4, PlacedEvent DEF ApplyEvent
    <3> QED
      BY <2>1, <3>5
  <2>3. Len(log[o]) >= 3
    BY <1>1, <1>3, <1>7, <2>2
  <2> QED
    BY <1>8, <1>10, <2>3 DEF Stages
<1> QED
  BY <1>4, <1>9, <1>10

-----------------------------------------------------------------------------
(* An order that no fault struck *)

\* What is in the topic of the order, and what a consumer group had of it.
InTopic(o, type) == \E m \in topic : m.order = o /\ m.type = type

Had(group, o, type) == \E m \in taken[group] : m.order = o /\ m.type = type

\* A Send on its way to such an event, past its commit, or undoing it.
Writing(j, o, type) ==
    j.pc \in {"insert", "commit"} /\ j.order = o /\ j.row.event.type = type

Publishing(j, o, type) ==
    j.pc = "publish" /\ j.order = o /\ j.row.event.type = type

Removing(j, o) == j.pc = "remove" /\ j.order = o

\* Nothing of the order was, is or could be undone.
Clean(o) ==
    /\ removed[o] = {}
    /\ \A a \in Actors : ~Removing(job[a], o)
    /\ \A m \in inflight : m.order # o

\* What is stored is published, or about to be.
Announced(o) ==
    \A type : HasRow(o, type) <=>
        InTopic(o, type) \/ \E a \in Actors : Publishing(job[a], o, type)

\* What a payment consumer had is done, or is being done.
Attended(o) ==
    /\ Had("payment-initializer", o, "order_placed") =>
           \/ Begun(ProjectionOf(log[o]))
           \/ \E a \in Actors : Writing(job[a], o, "order_payment_initiated")
    /\ Had("payment-processor", o, "order_payment_initiated") =>
           \/ Ended(ProjectionOf(log[o]))
           \/ \E a \in Actors : Writing(job[a], o, "order_paid")

Settling(o) == Clean(o) /\ Announced(o) /\ Attended(o)

-----------------------------------------------------------------------------
(* Steps that leave the order alone *)

On(j, o) == j # Idle /\ j.order = o

\* Neither the log, nor the messages, nor the Sends of the order change.
Untouched(o) ==
    /\ log'[o] = log[o] /\ removed'[o] = removed[o]
    /\ \A m : m.order = o => /\ m \in topic' <=> m \in topic
                             /\ m \in inflight' <=> m \in inflight
    /\ \A a \in Actors : On(job[a], o) \/ On(job'[a], o) => job'[a] = job[a]

\* What the payment consumers are handed of the order is done or being done.
Heeded(o) ==
    /\ Had("payment-initializer", o, "order_placed")' =>
           \/ Had("payment-initializer", o, "order_placed")
           \/ Begun(ProjectionOf(log'[o]))
           \/ \E a \in Actors : Writing(job'[a], o, "order_payment_initiated")
    /\ Had("payment-processor", o, "order_payment_initiated")' =>
           \/ Had("payment-processor", o, "order_payment_initiated")
           \/ Ended(ProjectionOf(log'[o]))
           \/ \E a \in Actors : Writing(job'[a], o, "order_paid")

LEMMA WorkIsOn ==
    ASSUME NEW j, NEW o
    PROVE  /\ \A type : Writing(j, o, type) \/ Publishing(j, o, type) => On(j, o)
           /\ Removing(j, o) => On(j, o)
BY DEF Writing, Publishing, Removing, On, Idle

LEMMA UntouchedSettling ==
    ASSUME NEW o, Settling(o), Untouched(o), Heeded(o)
    PROVE  Settling(o)'
<1>1. ASSUME NEW a \in Actors
      PROVE  /\ \A type : /\ Writing(job'[a], o, type) <=> Writing(job[a], o, type)
                          /\ Publishing(job'[a], o, type) <=> Publishing(job[a], o, type)
             /\ Removing(job'[a], o) <=> Removing(job[a], o)
  BY WorkIsOn DEF Untouched
<1>2. Clean(o)'
  BY <1>1 DEF Settling, Clean, Untouched
<1>3. \A type : HasRow(o, type)' <=> HasRow(o, type)
  BY DEF Untouched, HasRow
<1>4. \A type : InTopic(o, type)' <=> InTopic(o, type)
  BY DEF Untouched, InTopic
<1>5. Announced(o)'
  BY <1>1, <1>3, <1>4 DEF Settling, Announced
<1>6. Attended(o)'
  BY <1>1 DEF Settling, Attended, Heeded, Untouched
<1> QED
  BY <1>2, <1>5, <1>6 DEF Settling

\* A step of Send concerns the order of that Send and no other.
LEMMA SendElsewhere ==
    ASSUME TypeInv, NEW a \in Actors, Progress(a) \/ Failure(a),
           NEW o \in Orders, job[a].order # o
    PROVE  Untouched(o)
<1>1. /\ \A b \in Actors \ {a} : job'[b] = job[b]
      /\ job'[a] = Idle \/ job'[a].order = job[a].order
      /\ job[a] # Idle
  <2>1. job[a] # Idle
    <3>1. job[a] # Idle \/ job[a].pc \in {"insert", "commit", "publish", "remove"}
      BY Zenon DEF Progress, Failure, Insert, InsertConflict, Commit, Publish,
         PublishFails, RemoveEvent, TransactionFails, CommitUnknown, CommitRow,
         RemoveFails, Crash
    <3> QED
      BY <3>1 DEF Idle
  <2>2. job[a] \in Send
    BY <2>1 DEF TypeInv, TypeOK
  <2>3. CASE job' = [job EXCEPT ![a] = Idle]
    BY <2>1, <2>3 DEF TypeInv, TypeOK
  <2>4. ASSUME NEW pc, job' = [job EXCEPT ![a].pc = pc]
        PROVE  job'[a].order = job[a].order /\ \A b \in Actors \ {a} : job'[b] = job[b]
    BY <2>2, <2>4 DEF TypeInv, TypeOK, Send
  <2>5. CASE Insert(a)
    <3>1. job' = [job EXCEPT ![a] = [job[a] EXCEPT !.pc = "commit",
                                                   !.row = [@ EXCEPT !.id = nextId]]]
      BY <2>5 DEF Insert, TypeInv, TypeOK
    <3> QED
      BY <2>1, <2>2, <3>1 DEF TypeInv, TypeOK, Send
  <2>6. CASE Commit(a) \/ PublishFails(a)
    BY <2>1, <2>4, <2>6 DEF Commit, PublishFails
  <2> QED
    BY <2>1, <2>3, <2>5, <2>6 DEF Progress, Failure, InsertConflict, Publish,
       RemoveEvent, TransactionFails, CommitUnknown, RemoveFails, Crash
<1>2. /\ \A m : m.order = o => (m \in topic' <=> m \in topic)
      /\ \A m : m.order = o => (m \in inflight' <=> m \in inflight)
  <2>1. MessageOf(job[a]).order # o
    BY DEF MessageOf
  <2>2. /\ topic' = topic \/ topic' = topic \cup {MessageOf(job[a])}
        /\ inflight' = inflight \/ inflight' = inflight \cup {MessageOf(job[a])}
    BY DEF Progress, Failure, Insert, InsertConflict, Commit, Publish, PublishFails,
       RemoveEvent, TransactionFails, CommitUnknown, RemoveFails, Crash
  <2> QED
    BY <2>1, <2>2
<1>3. log'[o] = log[o] /\ removed'[o] = removed[o]
  <2>1. CASE UNCHANGED <<log, removed>>
    BY <2>1
  <2>2. CASE Commit(a) \/ CommitUnknown(a)
    <3>1. CommitRow(a) /\ UNCHANGED removed
      BY <2>2 DEF Commit, CommitUnknown
    <3>2. PICK k : RowInserted(job[a].order, job[a].row, k)
      BY <3>1, CommitRowProperties DEF TypeInv
    <3> QED
      BY <3>1, <3>2 DEF RowInserted
  <2>3. CASE RemoveEvent(a)
    BY <2>3 DEF RemoveEvent, TypeInv, TypeOK
  <2> QED
    BY <2>1, <2>2, <2>3 DEF Progress, Failure, Insert, InsertConflict, Publish,
       PublishFails, TransactionFails, RemoveFails, Crash
<1>4. \A b \in Actors : On(job[b], o) \/ On(job'[b], o) => job'[b] = job[b]
  BY <1>1 DEF On
<1> QED
  BY <1>2, <1>3, <1>4 DEF Untouched

\* A command that starts does nothing but start its Send.
LEMMA CommandStarts ==
    ASSUME TypeInv, NEW a \in Actors, NEW o, NEW event,
           Decide(a, o, event) \/ (PlaceOrder(a, o) /\ event = PlainEvent("order_placed"))
    PROVE  /\ UNCHANGED <<log, topic, inflight, removed>>
           /\ job[a] = Idle
           /\ \A b \in Actors \ {a} : job'[b] = job[b]
           /\ job'[a].pc = "insert" /\ job'[a].order = o /\ job'[a].row.event = event
BY DEF Decide, PlaceOrder, StartSend, TypeInv, TypeOK

\* It adds to the work that is done on its order.
LEMMA CommandSettling ==
    ASSUME TypeInv, NEW a \in Actors, NEW p, NEW event,
           Decide(a, p, event) \/ (PlaceOrder(a, p) /\ event = PlainEvent("order_placed")),
           NEW o \in Orders, Settling(o), Heeded(o)
    PROVE  Settling(o)'
<1>1. /\ UNCHANGED <<log, topic, inflight, removed>>
      /\ job[a] = Idle
      /\ \A b \in Actors \ {a} : job'[b] = job[b]
      /\ job'[a].pc = "insert"
  BY CommandStarts
<1>2. \A b \in Actors :
        /\ \A type : /\ Writing(job[b], o, type) => Writing(job'[b], o, type)
                     /\ Publishing(job'[b], o, type) <=> Publishing(job[b], o, type)
        /\ Removing(job'[b], o) <=> Removing(job[b], o)
  BY <1>1 DEF Writing, Publishing, Removing, Idle
<1>3. Clean(o)'
  BY <1>1, <1>2 DEF Settling, Clean
<1>4. Announced(o)'
  BY <1>1, <1>2 DEF Settling, Announced, HasRow, InTopic
<1>5. Attended(o)'
  BY <1>1, <1>2 DEF Settling, Attended, Heeded
<1> QED
  BY <1>3, <1>4, <1>5 DEF Settling

-----------------------------------------------------------------------------
(* Steps that concern the order *)

LEMMA InsertSettling ==
    ASSUME TypeInv, NEW a \in Actors, Insert(a), UNCHANGED taken,
           NEW o \in Orders, job[a].order = o, Settling(o)
    PROVE  Settling(o)'
<1>1. job[a] \in Send /\ job[a].row \in Row /\ job[a].pc = "insert"
  BY ActiveSend DEF TypeInv, Insert
<1>2. job' = [job EXCEPT ![a] = [job[a] EXCEPT !.pc = "commit",
                                               !.row = [@ EXCEPT !.id = nextId]]]
  BY DEF Insert, TypeInv, TypeOK
<1>3. /\ \A b \in Actors \ {a} : job'[b] = job[b]
      /\ job'[a].pc = "commit" /\ job'[a].order = o
      /\ job'[a].row.event = job[a].row.event
  BY <1>1, <1>2 DEF TypeInv, TypeOK, Send, Row
<1>4. \A b \in Actors :
        /\ \A type : /\ Writing(job'[b], o, type) <=> Writing(job[b], o, type)
                     /\ Publishing(job'[b], o, type) <=> Publishing(job[b], o, type)
        /\ Removing(job'[b], o) <=> Removing(job[b], o)
  BY <1>1, <1>3 DEF Writing, Publishing, Removing
<1>5. UNCHANGED <<log, removed, topic, inflight>>
  BY DEF Insert
<1>6. Clean(o)'
  BY <1>4, <1>5 DEF Settling, Clean
<1>7. Announced(o)'
  BY <1>4, <1>5 DEF Settling, Announced, HasRow, InTopic
<1>8. Attended(o)'
  BY <1>4, <1>5 DEF Settling, Attended, Had
<1> QED
  BY <1>6, <1>7, <1>8 DEF Settling

LEMMA ConflictSettling ==
    ASSUME TypeInv, Serial, Stages, NEW a \in Actors, InsertConflict(a),
           UNCHANGED taken, NEW o \in Orders, job[a].order = o, Settling(o)
    PROVE  Settling(o)'
<1>1. /\ \A b \in Actors \ {a} : job'[b] = job[b]
      /\ job'[a] = Idle /\ job[a].pc = "insert"
      /\ UNCHANGED <<log, removed, topic, inflight>>
  BY DEF InsertConflict, TypeInv, TypeOK
<1>2. \A b \in Actors :
        /\ \A type : Publishing(job'[b], o, type) <=> Publishing(job[b], o, type)
        /\ Removing(job'[b], o) <=> Removing(job[b], o)
  BY <1>1 DEF Publishing, Removing, Idle
<1>3. Clean(o)'
  BY <1>1, <1>2 DEF Settling, Clean
<1>4. Announced(o)'
  BY <1>1, <1>2 DEF Settling, Announced, HasRow, InTopic
<1>5. o \in Unrevoked
  BY DEF Settling, Clean, Unrevoked
<1>6. /\ Writing(job[a], o, "order_payment_initiated") => Begun(ProjectionOf(log[o]))
      /\ Writing(job[a], o, "order_paid") => Ended(ProjectionOf(log[o]))
  BY <1>5, LostRace DEF Writing
<1>7. \A type : (\E b \in Actors : Writing(job[b], o, type)) =>
        \/ \E b \in Actors : Writing(job'[b], o, type)
        \/ Writing(job[a], o, type)
  BY <1>1
<1>8. Attended(o)'
  BY <1>1, <1>6, <1>7 DEF Settling, Attended, Had
<1> QED
  BY <1>3, <1>4, <1>8 DEF Settling

LEMMA CommitSettling ==
    ASSUME TypeInv, Serial, Charges, NEW a \in Actors, Commit(a), [Next]_vars,
           UNCHANGED taken, NEW o \in Orders, o = job[a].order, Settling(o)
    PROVE  Settling(o)'
<1> DEFINE event == job[a].row.event
<1>1. /\ o \in Unrevoked /\ o \in Unrevoked'
      /\ UNCHANGED <<removed, topic, inflight>>
      /\ CommitRow(a) /\ job[a].pc = "commit"
  BY DEF Settling, Clean, Unrevoked, Commit, CommitRow
<1>2. /\ \A b \in Actors \ {a} : job'[b] = job[b]
      /\ job'[a].pc = "publish" /\ job'[a].order = o /\ job'[a].row.event = event
  <2>1. job[a] \in Send
    BY <1>1, ActiveSend DEF TypeInv
  <2> QED
    BY <2>1 DEF Commit, TypeInv, TypeOK, Send
<1>3. /\ event \in Event
      /\ ProjectionOf(log'[o]) = ApplyEvent(ProjectionOf(log[o]), event)
      /\ log[o] = <<>> => ProjectionOf(log[o]) = EmptyProjection
  BY <1>1, CommitProjection
<1>4. event = job[a].row.event
  OBVIOUS
<1> HIDE DEF event
<1>5. ProjectionOf(log[o]) \in Unpaid \cup Paid \cup {EmptyProjection}
  BY <1>1, <1>3 DEF Charges
<1>6. Gains(o, event.type)
  BY <1>1, <1>4, CommitGains
<1>7. Clean(o)'
  <2>1. \A b \in Actors : Removing(job'[b], o) => Removing(job[b], o)
    BY <1>2 DEF Removing
  <2> QED
    BY <1>1, <2>1 DEF Settling, Clean
<1>8. Announced(o)'
  <2>1. \A type : (\E b \in Actors : Publishing(job'[b], o, type)) <=>
                  (\E b \in Actors : Publishing(job[b], o, type)) \/ type = event.type
    <3>1. \A type : /\ Publishing(job'[a], o, type) <=> type = event.type
                    /\ ~Publishing(job[a], o, type)
      BY <1>1, <1>2 DEF Publishing
    <3> QED
      BY <1>2, <3>1
  <2>2. \A type : InTopic(o, type)' <=> InTopic(o, type)
    BY <1>1 DEF InTopic
  <2> QED
    BY <1>6, <2>1, <2>2 DEF Settling, Announced, Gains
<1>9. /\ event.type = "order_payment_initiated" => Begun(ProjectionOf(log'[o]))
      /\ event.type = "order_paid" => Ended(ProjectionOf(log'[o]))
  BY <1>3, <1>5, InitiatedBy DEF Begun, Ended
<1>10. /\ Begun(ProjectionOf(log[o])) => Begun(ProjectionOf(log'[o]))
       /\ Ended(ProjectionOf(log[o])) => Ended(ProjectionOf(log'[o]))
  <2>1. ~Begun(EmptyProjection) /\ ~Ended(EmptyProjection)
    BY DEF Begun, Ended, EmptyProjection
  <2> QED
    BY <1>1, <1>3, <2>1, StagesKept
<1>11. ASSUME NEW type, \E b \in Actors : Writing(job[b], o, type)
       PROVE  (\E b \in Actors : Writing(job'[b], o, type)) \/ event.type = type
  BY <1>2, <1>11 DEF Writing, event
<1>12. Attended(o)'
  <2>1. \A g, type : Had(g, o, type)' <=> Had(g, o, type)
    BY DEF Had
  <2>2. ASSUME Had("payment-initializer", o, "order_placed")
        PROVE  \/ Begun(ProjectionOf(log'[o]))
               \/ \E b \in Actors : Writing(job'[b], o, "order_payment_initiated")
    <3>1. \/ Begun(ProjectionOf(log[o]))
          \/ \E b \in Actors : Writing(job[b], o, "order_payment_initiated")
      BY <2>2 DEF Settling, Attended
    <3> QED
      BY <1>9, <1>10, <1>11, <3>1
  <2>3. ASSUME Had("payment-processor", o, "order_payment_initiated")
        PROVE  \/ Ended(ProjectionOf(log'[o]))
               \/ \E b \in Actors : Writing(job'[b], o, "order_paid")
    <3>1. \/ Ended(ProjectionOf(log[o]))
          \/ \E b \in Actors : Writing(job[b], o, "order_paid")
      BY <2>3 DEF Settling, Attended
    <3> QED
      BY <1>9, <1>10, <1>11, <3>1
  <2> QED
    BY <2>1, <2>2, <2>3 DEF Attended
<1> QED
  BY <1>7, <1>8, <1>12 DEF Settling

LEMMA PublishSettling ==
    ASSUME TypeInv, NEW a \in Actors, Publish(a), UNCHANGED taken,
           NEW o \in Orders, job[a].order = o, Settling(o)
    PROVE  Settling(o)'
<1> DEFINE type0 == job[a].row.event.type
<1>1. /\ \A b \in Actors \ {a} : job'[b] = job[b]
      /\ job'[a] = Idle /\ job[a].pc = "publish"
      /\ UNCHANGED <<log, removed, inflight>>
      /\ topic' = topic \cup {MessageOf(job[a])}
  BY DEF Publish, TypeInv, TypeOK
<1>2. \A b \in Actors :
        /\ \A type : Writing(job'[b], o, type) <=> Writing(job[b], o, type)
        /\ Removing(job'[b], o) <=> Removing(job[b], o)
  BY <1>1 DEF Writing, Removing, Idle
<1>3. Clean(o)'
  BY <1>1, <1>2 DEF Settling, Clean
<1>4. \A type : InTopic(o, type)' <=> InTopic(o, type) \/ type = type0
  <2>1. MessageOf(job[a]).order = o /\ MessageOf(job[a]).type = type0
    BY DEF MessageOf
  <2> HIDE DEF type0
  <2> QED
    BY <1>1, <2>1 DEF InTopic
<1>5. \A type : (\E b \in Actors : Publishing(job[b], o, type)) <=>
                (\E b \in Actors : Publishing(job'[b], o, type)) \/ type = type0
  <2>1. \A type : /\ Publishing(job[a], o, type) <=> type = type0
                  /\ ~Publishing(job'[a], o, type)
    BY <1>1 DEF Publishing, Idle
  <2> HIDE DEF type0
  <2> QED
    BY <1>1, <2>1
<1> HIDE DEF type0
<1>6. Announced(o)'
  <2>1. \A type : HasRow(o, type)' <=> HasRow(o, type)
    BY <1>1 DEF HasRow
  <2> QED
    BY <1>4, <1>5, <2>1 DEF Settling, Announced
<1>7. Attended(o)'
  BY <1>1, <1>2 DEF Settling, Attended, Had
<1> QED
  BY <1>3, <1>6, <1>7 DEF Settling

\* A fault is counted for good.
LEMMA FaultCounted ==
    ASSUME ListenersOK, NEW o \in Orders, faults'[o] = 0
    PROVE  /\ ~Fault(o)
           /\ \A p : Fault(p) => faults[o] = 0
           /\ UNCHANGED faults => faults[o] = 0
<1>1. faults[o] \in Nat
  BY MaxFaultsAssumption DEF ListenersOK
<1>2. ASSUME NEW p, Fault(p)
      PROVE  faults[o] = 0 /\ p # o
  <2>1. faults'[o] = IF p = o THEN faults[o] + 1 ELSE faults[o]
    BY <1>2 DEF ListenersOK, Fault
  <2> QED
    BY <1>1, <2>1
<1> QED
  BY <1>2

LEMMA FaultsStay ==
    ASSUME ListenersOK, [SysNext]_sysVars, NEW o \in Orders, faults'[o] = 0
    PROVE  faults[o] = 0
<1>1. UNCHANGED faults \/ \E p : Fault(p)
  <2>1. ASSUME NEW p, NEW what, FaultIf(p, what)
        PROVE  UNCHANGED faults \/ \E q : Fault(q)
    BY <2>1 DEF FaultIf
  <2>2. ASSUME NEW a, NEW m, Initializer(a, m) \/ Processor(a, m)
        PROVE  UNCHANGED faults \/ \E p : Fault(p)
    BY <2>1, <2>2 DEF Initializer, Processor, Handle, Decline
  <2>3. ASSUME NEW a, Client(a) \/ SendStep(a) \/ SendFault(a)
        PROVE  UNCHANGED faults \/ \E p : Fault(p)
    BY <2>3 DEF Client, SendStep, SendFault, listeners
  <2>4. ASSUME NEW i, NEW m, IndexRead(i, m)
        PROVE  UNCHANGED faults \/ \E p : Fault(p)
    BY <2>1, <2>4 DEF IndexRead, IndexRows
  <2>5. ASSUME NEW i, IndexUpsert(i) \/ IndexFails(i)
        PROVE  UNCHANGED faults \/ \E p : Fault(p)
    BY <2>5 DEF IndexUpsert, IndexFails
  <2>6. UNCHANGED listeners => UNCHANGED faults
    BY DEF listeners
  <2>7. UNCHANGED sysVars => UNCHANGED faults
    BY DEF sysVars, listeners
  <2> QED
    BY <2>2, <2>3, <2>4, <2>5, <2>6, <2>7, Zenon DEF SysNext
<1> QED
  BY <1>1, FaultCounted

\* A message that its consumer declines asks for nothing that is still to do.
LEMMA Declined ==
    ASSUME ListenersOK, Charges, Stages, NEW a, NEW g, NEW m \in topic, NEW type,
           NEW event, Decline(a, g, m, type, event),
           NEW o \in Orders, o = m.order, Settling(o), faults'[o] = 0
    PROVE  /\ m.type = type /\ HasRow(o, type) /\ log[o] # <<>>
           /\ ~Validate(ProjectionOf(log[o]), event)
<1>1. m.type = type /\ HasRow(o, type)
  <2>1. InTopic(o, m.type)
    BY DEF InTopic
  <2> QED
    BY <2>1 DEF Decline, Settling, Announced
<1>2. log[o] # <<>>
  BY <1>1 DEF HasRow
<1>3. PICK rows \in ListByAggregateID(o) :
        /\ rows = <<>> \/ ~Validate(ProjectionOf(rows), event)
        /\ FaultIf(o, rows # log[o])
  BY FaultCounted DEF Decline
<1>4. rows = log[o]
  BY <1>3, FaultCounted DEF FaultIf
<1> QED
  BY <1>1, <1>2, <1>3, <1>4

LEMMA InitializerHeeds ==
    ASSUME TypeInv, ListenersOK, Charges, Stages, NEW a \in Actors, NEW m \in topic,
           Initializer(a, m), NEW o \in Orders, Settling(o), faults'[o] = 0
    PROVE  Heeded(o)
<1>1. /\ Take("payment-initializer", m)
      /\ taken' = [taken EXCEPT !["payment-initializer"] = @ \cup {m}]
      /\ taken \in [Groups -> SUBSET Message]
  BY DEF Initializer, Handle, Decline, Take, ListenersOK
<1>2. /\ taken'["payment-processor"] = taken["payment-processor"]
      /\ taken'["payment-initializer"] = taken["payment-initializer"] \cup {m}
  BY <1>1 DEF Groups
<1>3. CASE m.order # o
  BY <1>2, <1>3 DEF Heeded, Had
<1>4. CASE m.order = o /\ Handle(a, "payment-initializer", m)
  <2>1. Decide(a, o, PlainEvent("order_payment_initiated"))
    BY <1>4 DEF Handle, PaymentInitializer, InitializePendingPayment
  <2>2. /\ job'[a].pc = "insert" /\ job'[a].order = o
        /\ job'[a].row.event = PlainEvent("order_payment_initiated")
    BY <2>1, CommandStarts
  <2>3. Writing(job'[a], o, "order_payment_initiated")
    <3>1. PlainEvent("order_payment_initiated").type = "order_payment_initiated"
      BY DEF PlainEvent
    <3> QED
      BY <2>2, <3>1 DEF Writing
  <2> QED
    BY <1>2, <2>3 DEF Heeded, Had
<1>5. CASE m.order = o /\ ~Handle(a, "payment-initializer", m)
  <2> DEFINE p == ProjectionOf(log[o])
  <2>1. Decline(a, "payment-initializer", m, "order_placed",
                PlainEvent("order_payment_initiated"))
    BY <1>5 DEF Initializer
  <2>2. log[o] # <<>> /\ ~Validate(p, PlainEvent("order_payment_initiated"))
    BY <1>5, <2>1, Declined
  <2>3. p \in Unpaid \cup Paid
    BY <2>2 DEF Charges, Settling, Clean, Unrevoked
  <2>4. UNCHANGED log
    BY <2>1 DEF Decline, vars
  <2> HIDE DEF p
  <2>5. Begun(p)
    BY <2>2, <2>3 DEF Validate, ValidateInitPendingPayment, PlainEvent, Begun,
       Unpaid, Paid
  <2> QED
    BY <1>2, <2>4, <2>5 DEF Heeded, Had, p
<1> QED
  BY <1>3, <1>4, <1>5

LEMMA ProcessorHeeds ==
    ASSUME TypeInv, ListenersOK, Charges, Stages, NEW a \in Actors, NEW m \in topic,
           Processor(a, m), NEW o \in Orders, Settling(o), faults'[o] = 0
    PROVE  Heeded(o)
<1>1. /\ taken' = [taken EXCEPT !["payment-processor"] = @ \cup {m}]
      /\ taken \in [Groups -> SUBSET Message]
  BY DEF Processor, Handle, Decline, Take, ListenersOK
<1>2. /\ taken'["payment-initializer"] = taken["payment-initializer"]
      /\ taken'["payment-processor"] = taken["payment-processor"] \cup {m}
  BY <1>1 DEF Groups
<1>3. CASE m.order # o
  BY <1>2, <1>3 DEF Heeded, Had
<1>4. CASE m.order = o /\ Handle(a, "payment-processor", m)
  <2>1. Decide(a, o, PlainEvent("order_paid"))
    BY <1>4 DEF Handle, PaymentProcessor, ProcessPayment
  <2>2. /\ job'[a].pc = "insert" /\ job'[a].order = o
        /\ job'[a].row.event = PlainEvent("order_paid")
    BY <2>1, CommandStarts
  <2>3. Writing(job'[a], o, "order_paid")
    <3>1. PlainEvent("order_paid").type = "order_paid"
      BY DEF PlainEvent
    <3> QED
      BY <2>2, <3>1 DEF Writing
  <2> QED
    BY <1>2, <2>3 DEF Heeded, Had
<1>5. CASE m.order = o /\ ~Handle(a, "payment-processor", m)
  <2> DEFINE p == ProjectionOf(log[o])
  <2>1. Decline(a, "payment-processor", m, "order_payment_initiated",
                PlainEvent("order_paid"))
    BY <1>5 DEF Processor
  <2>2. /\ HasRow(o, "order_payment_initiated") /\ log[o] # <<>>
        /\ ~Validate(p, PlainEvent("order_paid"))
    BY <1>5, <2>1, Declined
  <2>3. o \in Unrevoked
    BY DEF Settling, Clean, Unrevoked
  <2>4. p \in Unpaid \cup Paid /\ p.payment \in {"initiated", "paid"}
    BY <2>2, <2>3 DEF Charges, Stages
  <2>5. UNCHANGED log
    BY <2>1 DEF Decline, vars
  <2> HIDE DEF p
  <2>6. Ended(p)
    BY <2>2, <2>4 DEF Validate, ValidateProcessPayment, PlainEvent, Ended,
       Unpaid, Paid
  <2> QED
    BY <1>2, <2>5, <2>6 DEF Heeded, Had, p
<1> QED
  BY <1>3, <1>4, <1>5

\* A step of Send, on the order or on another.
LEMMA SendSettling ==
    ASSUME TypeInv, Serial, Charges, Stages, [Next]_vars, NEW a \in Actors,
           SendStep(a), NEW o \in Orders, Settling(o)
    PROVE  Settling(o)'
<1>1. UNCHANGED taken
  BY DEF SendStep, listeners
<1>2. CASE job[a].order # o
  <2>1. Untouched(o)
    BY <1>2, SendElsewhere DEF SendStep, Progress
  <2> QED
    BY <1>1, <2>1, UntouchedSettling DEF Heeded, Had
<1>3. CASE o = job[a].order
  <2>1. ~RemoveEvent(a)
    BY <1>3 DEF Settling, Clean, Removing, RemoveEvent
  <2> QED
    BY <1>1, <1>3, <2>1, InsertSettling, ConflictSettling, CommitSettling,
       PublishSettling DEF SendStep
<1> QED
  BY <1>2, <1>3

LEMMA NextSettling ==
    ASSUME TypeInv, Serial, ListenersOK, Charges, Stages, [SysNext]_sysVars,
           NEW o \in Orders, faults[o] = 0 => Settling(o), faults'[o] = 0
    PROVE  Settling(o)'
<1>1. Settling(o) /\ [Next]_vars
  BY FaultsStay, SysStep DEF TypeInv
<1>2. UNCHANGED taken => Heeded(o)
  BY DEF Heeded, Had
<1>3. UNCHANGED vars => Untouched(o)
  BY DEF vars, Untouched
<1>4. ASSUME NEW a \in Actors, Client(a) PROVE Settling(o)'
  <2>1. Heeded(o)
    BY <1>2, <1>4 DEF Client, listeners
  <2>2. \E p, event : \/ Decide(a, p, event)
                      \/ PlaceOrder(a, p) /\ event = PlainEvent("order_placed")
    BY <1>4 DEF Client, CancelOrder, UpdateShippingStatus
  <2> QED
    BY <1>1, <2>1, <2>2, CommandSettling
<1>5. ASSUME NEW a \in Actors, SendStep(a) PROVE Settling(o)'
  BY <1>1, <1>5, SendSettling
<1>6. ASSUME NEW a \in Actors, SendFault(a) PROVE Settling(o)'
  <2>1. job[a].order # o
    <3>1. CASE Fault(job[a].order)
      BY <3>1, FaultCounted
    <3>2. CASE RemoveFails(a)
      BY <1>1, <3>2 DEF RemoveFails, Settling, Clean, Removing
    <3> QED
      BY <1>6, <3>1, <3>2 DEF SendFault
  <2>2. Progress(a) \/ Failure(a)
    BY <1>6 DEF SendFault, Progress, Failure
  <2>3. Heeded(o)
    BY <1>2, <1>6 DEF SendFault
  <2> QED
    BY <1>1, <2>1, <2>2, <2>3, SendElsewhere, UntouchedSettling
<1>7. ASSUME NEW a \in Actors, NEW m \in topic, NEW g, NEW type, NEW event,
             Handle(a, g, m) \/ Decline(a, g, m, type, event), Heeded(o)
      PROVE  Settling(o)'
  <2>1. CASE Handle(a, g, m)
    <3>1. \E e : Decide(a, m.order, e)
      BY <2>1 DEF Handle, PaymentInitializer, InitializePendingPayment,
         PaymentProcessor, ProcessPayment
    <3> QED
      BY <1>1, <1>7, <3>1, CommandSettling
  <2>2. CASE Decline(a, g, m, type, event)
    BY <1>1, <1>3, <1>7, <2>2, UntouchedSettling DEF Decline
  <2> QED
    BY <1>7, <2>1, <2>2
<1>8. ASSUME NEW a \in Actors, NEW m \in topic, Initializer(a, m)
      PROVE  Settling(o)'
  <2>1. Heeded(o)
    BY <1>1, <1>8, InitializerHeeds
  <2> QED
    BY <1>7, <1>8, <2>1 DEF Initializer
<1>9. ASSUME NEW a \in Actors, NEW m \in topic, Processor(a, m)
      PROVE  Settling(o)'
  <2>1. Heeded(o)
    BY <1>1, <1>9, ProcessorHeeds
  <2> QED
    BY <1>7, <1>9, <2>1 DEF Processor
<1>10. ASSUME NEW i \in Indexers,
              \/ \E m \in topic : IndexRead(i, m)
              \/ IndexUpsert(i) \/ IndexFails(i)
       PROVE  Settling(o)'
  <2>1. UNCHANGED vars
    BY <1>10 DEF IndexRead, IndexRows, IndexUpsert, IndexFails
  <2>2. Heeded(o)
    <3>1. CASE UNCHANGED taken
      BY <1>2, <3>1
    <3>2. ASSUME NEW m, Take("projection-indexer", m)
          PROVE  \A g \in {"payment-initializer", "payment-processor"} :
                     taken'[g] = taken[g]
      BY <3>2 DEF Take, ListenersOK, Groups
    <3>3. CASE \E m \in topic : IndexRead(i, m)
      BY <3>2, <3>3 DEF IndexRead, IndexRows, Heeded, Had
    <3> QED
      BY <1>10, <3>1, <3>3 DEF IndexUpsert, IndexFails
  <2> QED
    BY <1>1, <1>3, <2>1, <2>2, UntouchedSettling
<1>11. ASSUME NEW m \in inflight, LateDelivery(m), UNCHANGED listeners
       PROVE  Settling(o)'
  <2>1. m.order # o
    BY <1>1 DEF Settling, Clean
  <2>2. Untouched(o)
    BY <1>11, <2>1 DEF LateDelivery, Untouched
  <2> QED
    BY <1>1, <1>2, <1>11, <2>2, UntouchedSettling DEF listeners
<1>12. CASE UNCHANGED sysVars
  BY <1>1, <1>2, <1>3, <1>12, UntouchedSettling DEF sysVars, listeners
<1>13. CASE SysNext
  <2>1. Initializers \subseteq Actors /\ Processors \subseteq Actors
        /\ Clients \subseteq Actors
    BY ConsumersAreActors DEF Clients
  <2> QED
    BY <1>4, <1>5, <1>6, <1>8, <1>9, <1>10, <1>11, <1>13, <2>1 DEF SysNext
<1> QED
  BY <1>12, <1>13

\* At rest, what is stored was handed to its consumer, and nothing is being
\* done: it is done.
LEMMA SettledAtRest ==
    ASSUME TypeInv, Charges, Stages, NEW o \in Orders, log[o] # <<>>,
           Settling(o), AtRest(o)
    PROVE  PaidOrCancelled(o)
<1> DEFINE p == ProjectionOf(log[o])
<1>1. o \in Unrevoked
  BY DEF Settling, Clean, Unrevoked
<1>2. \A a \in Actors : \A type : ~Writing(job[a], o, type) /\ ~Publishing(job[a], o, type)
  BY WorkIsOn DEF AtRest, On
<1>3. \A type : HasRow(o, type) => InTopic(o, type)
  BY <1>2 DEF Settling, Announced
<1>4. HasRow(o, "order_placed") => Begun(p)
  BY <1>2, <1>3 DEF Settling, Attended, Had, InTopic, AtRest
<1>5. HasRow(o, "order_payment_initiated") => Ended(p)
  BY <1>2, <1>3 DEF Settling, Attended, Had, InTopic, AtRest
<1>6. /\ HasRow(o, "order_placed")
      /\ p.payment = "initiated" => HasRow(o, "order_payment_initiated")
  BY <1>1 DEF Stages
<1> HIDE DEF p
<1>7. Ended(p)
  BY <1>4, <1>5, <1>6 DEF Begun, Ended
<1> QED
  BY <1>7 DEF PaidOrCancelled, Ended, p

LEMMA InitSettling ==
    ASSUME SysInit, NEW o \in Orders
    PROVE  Settling(o)
<1>1. /\ log[o] = <<>> /\ topic = {} /\ inflight = {} /\ removed[o] = {}
      /\ \A a \in Actors : job[a] = Idle
      /\ \A g \in Groups : taken[g] = {}
  BY DEF SysInit, Init
<1>2. \A a \in Actors : ~Removing(job[a], o) /\ \A type : ~Publishing(job[a], o, type)
  BY <1>1, WorkIsOn DEF On
<1>3. Clean(o)
  BY <1>1, <1>2 DEF Clean
<1>4. Announced(o)
  BY <1>1, <1>2 DEF Announced, HasRow, InTopic
<1>5. Attended(o)
  BY <1>1 DEF Attended, Had, Groups
<1> QED
  BY <1>3, <1>4, <1>5 DEF Settling

\* An order that no fault struck and on which nobody works, all its messages
\* having been handed to the payment consumers, is paid or cancelled, although
\* these drop what their validator refuses and what loses a sequence number.
THEOREM RestMeansPaid == SysSpec => []PaidAtRest
<1> DEFINE Inv == /\ SysInv /\ Charges /\ Stages
                  /\ \A o \in Orders : faults[o] = 0 => Settling(o)
<1>1. SysInit => Inv
  <2> SUFFICES ASSUME SysInit PROVE Inv
    OBVIOUS
  <2>1. SysInv
    BY InitTypeInv, InitSerial, InitDurable, InitListeners DEF SysInit, SysInv
  <2> QED
    BY <2>1, InitCharges, InitStages, InitSettling DEF SysInit
<1>2. Inv /\ [SysNext]_sysVars => Inv'
  <2> SUFFICES ASSUME Inv, [SysNext]_sysVars PROVE Inv'
    OBVIOUS
  <2>1. [Next]_vars /\ TypeInv /\ Serial /\ ListenersOK
    BY SysStep DEF SysInv, TypeInv
  <2>2. SysInv'
    BY <2>1, NextTypeInv, NextSerial, NextDurable, NextListeners DEF SysInv
  <2>3. ASSUME NEW o \in Orders, faults'[o] = 0 PROVE Settling(o)'
    BY <2>1, <2>3, NextSettling
  <2> QED
    BY <2>1, <2>2, <2>3, NextCharges, NextStages
<1>3. Inv => PaidAtRest
  BY SettledAtRest DEF PaidAtRest, SysInv
<1> QED
  BY <1>1, <1>2, <1>3, PTL DEF SysSpec
=============================================================================
