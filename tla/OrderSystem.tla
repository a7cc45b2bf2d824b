---------------------------- MODULE OrderSystem ----------------------------
(***************************************************************************)
(* The write path together with what listens to it: the payment consumers,  *)
(* which turn a published event into the next command, and the projection   *)
(* indexer, which copies the statuses of an order into order_projection,    *)
(* where ListOrders finds them.                                             *)
(*                                                                         *)
(* Each consumer group is handed every message of the topic at least once   *)
(* (ConsumerGroup).  Whatever Consume returns, the group goes on with the   *)
(* next message; a message comes back only by chance, after a restart or a  *)
(* rebalance.                                                               *)
(***************************************************************************)
EXTENDS OrderCommands

CONSTANTS
    Initializers,   \* actors that run the payment initializer
    Processors,     \* actors that run the payment processor
    Indexers,       \* goroutines that run the projection indexer
    MaxFaults       \* bound: faults that strike one order

ASSUME ConsumersAreActors == Initializers \cup Processors \subseteq Actors

ASSUME MaxFaultsAssumption == MaxFaults \in Nat

VARIABLES
    table,      \* order -> its row of order_projection
    index,      \* indexer -> the IndexProjection it executes, or Idle
    taken,      \* consumer group -> messages handed to it so far
    faults,     \* history: order -> failed steps of its Sends and consumers
    clobbered   \* history: orders that a failed, cut short or overlapping
                \* IndexProjection may have left with an old row

listeners == <<table, index, taken, faults, clobbered>>
sysVars == <<vars, listeners>>

-----------------------------------------------------------------------------
(* The state *)

Groups == {"payment-initializer", "payment-processor", "projection-indexer"}

Clients == Actors \ (Initializers \cup Processors)

Statuses == [payment : PaymentStatuses \cup {""}, shipping : ShippingStatuses \cup {""}]

\* The order is not in the table.
NoRow == [payment |-> "none", shipping |-> "none"]

IndexJob == [order : Orders, row : Statuses]

Busy(i, o) == index[i] # Idle /\ index[i].order = o

\* What consumers were handed is in the topic, and nothing but a message of an
\* order brings a row of it about.
FromTopic ==
    /\ \A g \in Groups : taken[g] \subseteq topic
    /\ \A o \in Orders :
         table[o] # NoRow \/ (\E i \in Indexers : Busy(i, o)) =>
             \E m \in taken["projection-indexer"] : m.order = o

SysTypeOK ==
    /\ TypeOK
    /\ table \in [Orders -> Statuses \cup {NoRow}]
    /\ index \in [Indexers -> IndexJob \cup {Idle}]
    /\ taken \in [Groups -> SUBSET Message]
    /\ faults \in [Orders -> 0..MaxFaults]
    /\ clobbered \in SUBSET Orders
    /\ FromTopic

SysInit ==
    /\ Init
    /\ table = [o \in Orders |-> NoRow]
    /\ index = [i \in Indexers |-> Idle]
    /\ taken = [g \in Groups |-> {}]
    /\ faults = [o \in Orders |-> 0]
    /\ clobbered = {}

Take(group, m) == taken' = [taken EXCEPT ![group] = @ \cup {m}]

\* A step of the order fails, or does not.
Fault(o) == faults[o] < MaxFaults /\ faults' = [faults EXCEPT ![o] = @ + 1]

FaultIf(o, what) == IF what THEN Fault(o) ELSE UNCHANGED faults

\* The command that a has just started saw fewer rows than there are.
SawLess(a) ==
    LET j == job'[a]
    IN  j.row.seq < Len(log[j.order])

-----------------------------------------------------------------------------
(* gRPC handlers *)

Client(a) ==
    /\ \E o \in Orders :
         \/ PlaceOrder(a, o)
         \/ CancelOrder(a, o)
         \/ UpdateShippingStatus(a, o)
    /\ UNCHANGED listeners

-----------------------------------------------------------------------------
(* Payment consumers *)

\* Consume starts the command that its message asks for.
Handle(a, group, m) ==
    /\ \/ /\ group = "payment-initializer"
          /\ m.type = "order_placed"
          /\ PaymentInitializer(a, m.order)
       \/ /\ group = "payment-processor"
          /\ m.type = "order_payment_initiated"
          /\ PaymentProcessor(a, m.order)
    /\ Take(group, m)
    /\ FaultIf(m.order, SawLess(a))
    /\ UNCHANGED <<table, index, clobbered>>

\* Consume ends before it writes: the order is not found, the validator refuses
\* (which counts as done already), or the read fails.
Decline(a, group, m, type, event) ==
    /\ job[a] = Idle
    /\ m.type = type
    /\ \/ \E rows \in ListByAggregateID(m.order) :
            /\ rows = <<>> \/ ~Validate(ProjectionOf(rows), event)
            /\ FaultIf(m.order, rows # log[m.order])
       \/ Fault(m.order)
    /\ Take(group, m)
    /\ UNCHANGED <<vars, table, index, clobbered>>

Initializer(a, m) ==
    \/ Handle(a, "payment-initializer", m)
    \/ Decline(a, "payment-initializer", m, "order_placed",
               PlainEvent("order_payment_initiated"))

\* Faulty variant (see OrderCommands): the processor listens to the wrong event.
FaultyProcessorWrongType(a, m) ==
    Decline(a, "payment-processor", m, "order_placed", PlainEvent("order_paid"))

Processor(a, m) ==
    \/ Handle(a, "payment-processor", m)
    \/ Decline(a, "payment-processor", m, "order_payment_initiated",
               PlainEvent("order_paid"))

-----------------------------------------------------------------------------
(* TransactionProducer.Send *)

SendStep(a) ==
    /\ \/ Insert(a)
       \/ InsertConflict(a)
       \/ Commit(a)
       \/ Publish(a)
       \/ RemoveEvent(a)
    /\ UNCHANGED listeners

\* A Send fails, and the order may wait for ever for what should have come of
\* it.  The fault that failed the publish may fail the removal too.
SendFault(a) ==
    /\ \/ /\ \/ TransactionFails(a)
             \/ CommitUnknown(a)
             \/ PublishFails(a)
             \/ Crash(a)
          /\ Fault(job[a].order)
       \/ RemoveFails(a) /\ UNCHANGED faults
    /\ UNCHANGED <<table, index, taken, clobbered>>

-----------------------------------------------------------------------------
(* Projection indexer *)

\* The rows that the indexer got for its message, and what it makes of them.
IndexRows(i, m, rows) ==
    /\ index[i] = Idle
    /\ m \in topic
    /\ rows \in ListByAggregateID(m.order)
    /\ Take("projection-indexer", m)
    /\ FaultIf(m.order, rows # log[m.order])
    /\ clobbered' =
         IF rows # log[m.order] \/ \E j \in Indexers : Busy(j, m.order)
         THEN clobbered \cup {m.order} ELSE clobbered
    /\ UNCHANGED <<vars, table>>

IndexTo(i, m, rows) ==
    index' = [index EXCEPT ![i] = [order |-> m.order, row |-> StatusesOf(rows)]]

\* Faulty variants: the projection is not checked for nil; only the first event
\* of an order is indexed.
FaultyIndexReadNoNilCheck(i, m) ==
    \E rows \in ListByAggregateID(m.order) : IndexRows(i, m, rows) /\ IndexTo(i, m, rows)

FaultyIndexReadPlacedOnly(i, m) ==
    /\ m.type = "order_placed"
    /\ \E rows \in ListByAggregateID(m.order) \ {<<>>} :
         IndexRows(i, m, rows) /\ IndexTo(i, m, rows)

\* Only the events up to the message's own are folded.
FaultyIndexReadUpToMessage(i, m) ==
    /\ IndexRows(i, m, log[m.order])
    /\ IndexTo(i, m, SelectSeq(log[m.order], LAMBDA row : row.id <= m.id))

\* IndexProjection reads the order, and is done when there is no such order.
IndexRead(i, m) ==
    \E rows \in ListByAggregateID(m.order) :
        /\ IndexRows(i, m, rows)
        /\ \/ rows = <<>> /\ UNCHANGED index
           \/ rows # <<>> /\ IndexTo(i, m, rows)

\* Faulty variant: the update of an existing row takes the one status column
\* from the other.
FaultyUpsertSwapsColumns(i) ==
    LET o == index[i].order
        row == index[i].row
    IN  table' = [table EXCEPT ![o] =
                    IF @ = NoRow THEN row
                    ELSE [payment |-> row.shipping, shipping |-> row.payment]]

\* INSERT ... ON CONFLICT (order_id) DO UPDATE, whatever the row was.
Upsert(i) == table' = [table EXCEPT ![index[i].order] = index[i].row]

\* Faulty variant: ON CONFLICT DO NOTHING.
FaultyIndexUpsertKeepsFirst(i) ==
    /\ index[i] # Idle
    /\ LET o == index[i].order
       IN  table' = [table EXCEPT ![o] = IF @ = NoRow THEN index[i].row ELSE @]
    /\ index' = [index EXCEPT ![i] = Idle]
    /\ UNCHANGED <<vars, taken, faults, clobbered>>

IndexUpsert(i) ==
    /\ index[i] # Idle
    /\ Upsert(i)
    /\ index' = [index EXCEPT ![i] = Idle]
    /\ UNCHANGED <<vars, taken, faults, clobbered>>

\* The transaction fails, its reply is lost, or the process dies.
IndexFails(i) ==
    /\ index[i] # Idle
    /\ Upsert(i) \/ UNCHANGED table
    /\ index' = [index EXCEPT ![i] = Idle]
    /\ Fault(index[i].order)
    /\ clobbered' = clobbered \cup {index[i].order}
    /\ UNCHANGED <<vars, taken>>

-----------------------------------------------------------------------------
(* The specification *)

SysNext ==
    \/ \E a \in Clients : Client(a)
    \/ \E a \in Actors : SendStep(a) \/ SendFault(a)
    \/ \E m \in topic :
         \/ \E a \in Initializers : Initializer(a, m)
         \/ \E a \in Processors : Processor(a, m)
         \/ \E i \in Indexers : IndexRead(i, m)
    \/ \E i \in Indexers : IndexUpsert(i) \/ IndexFails(i)
    \/ (\E m \in inflight : LateDelivery(m)) /\ UNCHANGED listeners

SysSpec == SysInit /\ [][SysNext]_sysVars

New(group) == topic \ taken[group]

\* Send goes on, each consumer is handed what its group has not had, and an
\* IndexProjection ends.
SysFairSpec ==
    /\ SysSpec
    /\ \A a \in Actors : WF_sysVars(SendStep(a))
    /\ \A a \in Initializers :
         SF_sysVars(\E m \in New("payment-initializer") : Initializer(a, m))
    /\ \A a \in Processors :
         SF_sysVars(\E m \in New("payment-processor") : Processor(a, m))
    /\ \A i \in Indexers :
         /\ WF_sysVars(\E m \in New("projection-indexer") : IndexRead(i, m))
         /\ WF_sysVars(IndexUpsert(i))

-----------------------------------------------------------------------------
(* Queries *)

MapStrToPaymentStatus(status) ==
    CASE status = "pending" -> 1
      [] status = "initiated" -> 2
      [] status = "paid" -> 3
      [] status = "failed" -> 4
      [] OTHER -> 0

\* An order as the API shows it, by the part that comes from its statuses.
Item(o, row) ==
    [order |-> o,
     payment |-> MapStrToPaymentStatus(row.payment),
     shipping |-> MapStrToShippingStatus(row.shipping)]

\* All pages of the listing, from the table.
ListOrders == {Item(o, table[o]) : o \in {q \in Orders : table[q] # NoRow}}

\* A stored order, folded in the request.
GetOrder(o) == Item(o, StatusesOf(log[o]))

-----------------------------------------------------------------------------
(* Properties *)

\* On an unrevoked order the table never shows what the order never was: its
\* row is what GetOrder said at some point of the order's history.
RowIsAPrefix ==
    \A o \in Unrevoked : table[o] # NoRow =>
        \E n \in 1..Len(log[o]) : table[o] = StatusesOf(SubSeq(log[o], 1, n))

\* Every event of the order was published and handed to the indexer, and no
\* IndexProjection of the order is under way.
Indexed(o) ==
    /\ \A n \in 1..Len(log[o]) :
         \E m \in taken["projection-indexer"] : m.order = o /\ m.id = log[o][n].id
    /\ \A i \in Indexers : ~Busy(i, o)

\* Two steps with no version check are enough as long as the runs of one order
\* do not overlap (index_projection.go:16-25): an unrevoked order whose every
\* message was indexed is listed as GetOrder shows it, in whatever order the
\* messages came, unless a run failed, read less than there was, or overlapped.
CaughtUp ==
    \A o \in Unrevoked \ clobbered :
        log[o] # <<>> /\ Indexed(o) => GetOrder(o) \in ListOrders

PaidOrCancelled(o) ==
    LET p == ProjectionOf(log[o])
    IN  p.payment = "paid" \/ p.shipping = "cancelled"

\* An order whose placement is published is paid or cancelled in the end
\* (payment_initializer.go, payment_processor.go): lost races for a sequence
\* number and redeliveries do not stop the payment, though the loop never
\* retries a message; only a fault does.
PlacedIsPaid ==
    \A o \in Orders :
        (\E m \in topic : m.order = o /\ m.type = "order_placed") ~>
            (PaidOrCancelled(o) \/ faults[o] > 0)

\* Nobody works on the order, and the payment consumers had all that the topic
\* has for them.
AtRest(o) ==
    /\ \A a \in Actors : job[a] = Idle \/ job[a].order # o
    /\ \A m \in topic : m.order = o =>
         /\ m.type = "order_placed" => m \in taken["payment-initializer"]
         /\ m.type = "order_payment_initiated" => m \in taken["payment-processor"]

\* No message that a payment consumer drops is missed (consumer.go:108 goes on
\* with the next one): an order at rest that no fault struck is paid or
\* cancelled.  This is the part of PlacedIsPaid that needs no fairness.
PaidAtRest ==
    \A o \in Orders :
        log[o] # <<>> /\ faults[o] = 0 /\ AtRest(o) => PaidOrCancelled(o)

\* The listing does not go back in time (index_projection.go, Upsert compares no
\* versions) as long as the runs of an unrevoked order do not fail or overlap:
\* the payment status of its row never goes back, nor does the shipping status
\* unless the row shows a cancellation.
ListingForward ==
    [][\A o \in Unrevoked' \ clobbered' : table[o] # NoRow =>
         LET old == table[o]
             new == table'[o]
         IN  /\ MapStrToPaymentStatus(new.payment) >= MapStrToPaymentStatus(old.payment)
             /\ old.shipping # "cancelled" =>
                  MapStrToShippingStatus(new.shipping)
                      >= MapStrToShippingStatus(old.shipping)]_sysVars

\* The table is eventually consistent (README "Queries"): in the end the listing
\* shows the order as GetOrder does, unless a fault struck the order or runs of
\* the indexer overlapped.
TableCatchesUp ==
    \A o \in Orders :
        <>[](\/ o \in clobbered \/ faults[o] > 0
             \/ log[o] = <<>>
             \/ GetOrder(o) \in ListOrders)
=============================================================================
