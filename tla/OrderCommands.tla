--------------------------- MODULE OrderCommands ---------------------------
(***************************************************************************)
(* The write path: the commands of the order controller, the producer that  *)
(* commits an event and then publishes it, the transactor and the Postgres  *)
(* event table with its unique (sequence_number, aggregate_id).             *)
(*                                                                         *)
(* An actor is one goroutine that runs commands: a gRPC handler, or one of  *)
(* the two payment consumers, of any instance of the program.  A command    *)
(* reads the order's events, validates, and calls TransactionProducer.Send, *)
(* whose steps interleave with those of every other actor:                  *)
(*                                                                         *)
(*   "insert"  the row is decided and not yet inserted                      *)
(*   "commit"  inserted in an open transaction, invisible to readers        *)
(*   "publish" committed, not yet on the bus                                *)
(*   "remove"  the bus returned an error, the row is about to be deleted    *)
(***************************************************************************)
EXTENDS OrderProjection, SequencesExt

CONSTANTS
    Orders,     \* order ids that PlaceOrder may draw
    Actors,     \* goroutines that run commands
    MaxEvents   \* bound: how many event ids the table may hand out

ASSUME MaxEventsAssumption == MaxEvents \in Nat

VARIABLES
    log,        \* order -> committed rows of the event table, by event id
    nextId,     \* next value of the SERIAL event_id
    topic,      \* messages in the Kafka topic (each at least once)
    inflight,   \* messages whose write returned an error but may still land
    job,        \* actor -> the Send it executes, or Idle
    used,       \* order ids drawn so far
    acked,      \* history: event ids whose Send returned success
    removed     \* history: order -> event ids deleted by a failed Send

vars == <<log, nextId, topic, inflight, job, used, acked, removed>>

-----------------------------------------------------------------------------
(* The state *)

Row == [id : Nat, seq : Nat, event : Event]

\* A message carries the order and the event type; the event id is history.
Message == [order : Orders, type : EventTypes, id : Nat]

Idle == [pc |-> "idle"]

Send ==
    [pc : {"insert", "commit", "publish", "remove"}, order : Orders, row : Row]

TypeOK ==
    /\ log \in [Orders -> Seq(Row)]
    /\ nextId \in Nat \ {0}
    /\ topic \in SUBSET Message
    /\ inflight \in SUBSET Message
    /\ job \in [Actors -> Send \cup {Idle}]
    /\ used \in SUBSET Orders
    /\ acked \in SUBSET Nat
    /\ removed \in [Orders -> SUBSET Nat]

Init ==
    /\ log = [o \in Orders |-> <<>>]
    /\ nextId = 1
    /\ topic = {}
    /\ inflight = {}
    /\ job = [a \in Actors |-> Idle]
    /\ used = {}
    /\ acked = {}
    /\ removed = [o \in Orders |-> {}]

EventsOf(rows) == [n \in 1..Len(rows) |-> rows[n].event]

ProjectionOf(rows) == ReduceToProjection(EventsOf(rows))

CurrentSequenceNumber(rows) ==
    Max({0} \cup {rows[n].seq : n \in 1..Len(rows)})

MessageOf(j) == [order |-> j.order, type |-> j.row.event.type, id |-> j.row.id]

\* Every started Send will find an event id within the bound.
WithinBound ==
    nextId + Cardinality({a \in Actors : job[a].pc = "insert"}) <= MaxEvents

(* Faulty variants of definitions below, by which the runs' properties are   *)
(* tested; no behaviour of Spec uses them.                                  *)

\* Sequence numbers start one too low.
FaultyStartSendOffByOne(a, o, seq, event) ==
    /\ WithinBound
    /\ job' = [job EXCEPT ![a] =
                 [pc |-> "insert", order |-> o,
                  row |-> [id |-> 0, seq |-> seq - 1, event |-> event]]]

\* The table lacks its unique constraint.
FaultyInsertNotUnique(a) ==
    /\ job[a].pc = "insert"
    /\ job' = [job EXCEPT ![a].pc = "commit", ![a].row.id = nextId]
    /\ nextId' = nextId + 1
    /\ UNCHANGED <<log, topic, inflight, used, acked, removed>>

\* The sequence number comes from a second read, after the validation.
FaultyDecideReadsTwice(a, o, event) ==
    /\ job[a] = Idle
    /\ \E n \in 1..Len(log[o]) :
         /\ Validate(ProjectionOf(SubSeq(log[o], 1, n)), event)
         /\ job' = [job EXCEPT ![a] =
                      [pc |-> "insert", order |-> o,
                       row |-> [id |-> 0, seq |-> CurrentSequenceNumber(log[o]) + 1,
                                event |-> event]]]
    /\ WithinBound
    /\ UNCHANGED <<log, nextId, topic, inflight, used, acked, removed>>

\* A refused insert is retried with the same sequence number.
FaultyInsertConflictRetries(a) == job[a].pc = "insert" /\ UNCHANGED vars

\* The message is written inside the transaction's callback, before COMMIT.
FaultyPublishInTransaction(a) ==
    /\ job[a].pc \in {"commit", "publish"}
    /\ topic' = topic \cup {MessageOf(job[a])}
    /\ acked' = acked \cup {job[a].row.id}
    /\ job' = [job EXCEPT ![a] = Idle]
    /\ UNCHANGED <<log, nextId, inflight, used, removed>>

\* The compensation deletes the order's events from this one on.
FaultyRemoveEventsFrom(a) ==
    /\ job[a].pc = "remove"
    /\ LET o == job[a].order
           id == job[a].row.id
       IN  /\ log' = [log EXCEPT ![o] = SelectSeq(@, LAMBDA row : row.id < id)]
           /\ removed' = [removed EXCEPT ![o] = @ \cup {id}]
    /\ job' = [job EXCEPT ![a] = Idle]
    /\ UNCHANGED <<nextId, topic, inflight, used, acked>>

-----------------------------------------------------------------------------
(* Commands *)

StartSend(a, o, seq, event) ==
    /\ WithinBound
    /\ job' = [job EXCEPT ![a] =
                 [pc |-> "insert", order |-> o,
                  row |-> [id |-> 0, seq |-> seq, event |-> event]]]

PlaceOrder(a, o) ==
    /\ job[a] = Idle
    /\ o \notin used
    /\ used' = used \cup {o}
    /\ StartSend(a, o, 0, PlainEvent("order_placed"))
    /\ UNCHANGED <<log, nextId, topic, inflight, acked, removed>>

\* The rows a read returns, by event id.  rows.Err() is never asked, so a read
\* that breaks off returns what it got: any prefix of the log.
ListByAggregateID(o) == {SubSeq(log[o], 1, n) : n \in 0..Len(log[o])}

\* What every command but PlaceOrder does: GetProjection, where no rows mean
\* "not found", the validator, and Send with the next sequence number.
Decide(a, o, event) ==
    /\ job[a] = Idle
    /\ \E rows \in ListByAggregateID(o) \ {<<>>} :
         /\ Validate(ProjectionOf(rows), event)
         /\ StartSend(a, o, CurrentSequenceNumber(rows) + 1, event)
    /\ UNCHANGED <<log, nextId, topic, inflight, used, acked, removed>>

InitializePendingPayment(a, o) == Decide(a, o, PlainEvent("order_payment_initiated"))

ProcessPayment(a, o) == Decide(a, o, PlainEvent("order_paid"))

CancelOrder(a, o) == Decide(a, o, PlainEvent("order_cancelled"))

UpdateShippingStatus(a, o) ==
    \E status \in RequestedStatuses : Decide(a, o, ShippingEvent(status))

\* The payment consumers, on a message that may be late or redelivered.
PaymentInitializer(a, o) ==
    /\ \E m \in topic : m.order = o /\ m.type = "order_placed"
    /\ InitializePendingPayment(a, o)

PaymentProcessor(a, o) ==
    /\ \E m \in topic : m.order = o /\ m.type = "order_payment_initiated"
    /\ ProcessPayment(a, o)

-----------------------------------------------------------------------------
(* TransactionProducer.Send *)

SameKey(j, o, seq) == j.pc = "commit" /\ j.order = o /\ j.row.seq = seq

\* INSERT ... RETURNING event_id.  The unique index makes it wait while an
\* open transaction holds the same key.  Postgres draws the id before the wait,
\* the model after it.  Ids are only compared, and nothing of an unrevoked order
\* is committed while its next key is held, so that the order of its ids is the
\* same.
Insert(a) ==
    /\ job[a].pc = "insert"
    /\ LET o == job[a].order
           seq == job[a].row.seq
       IN  /\ \A n \in 1..Len(log[o]) : log[o][n].seq # seq
           /\ \A b \in Actors : ~SameKey(job[b], o, seq)
    /\ job' = [job EXCEPT ![a].pc = "commit", ![a].row.id = nextId]
    /\ nextId' = nextId + 1
    /\ UNCHANGED <<log, topic, inflight, used, acked, removed>>

\* The unique constraint refuses the row and the command fails.  The gap that
\* this leaves in the serial is left out.
InsertConflict(a) ==
    /\ job[a].pc = "insert"
    /\ LET o == job[a].order
       IN  \E n \in 1..Len(log[o]) : log[o][n].seq = job[a].row.seq
    /\ job' = [job EXCEPT ![a] = Idle]
    /\ UNCHANGED <<log, nextId, topic, inflight, used, acked, removed>>

\* BEGIN, INSERT or COMMIT fails and the transaction is rolled back.
TransactionFails(a) ==
    /\ job[a].pc \in {"insert", "commit"}
    /\ job' = [job EXCEPT ![a] = Idle]
    /\ UNCHANGED <<log, nextId, topic, inflight, used, acked, removed>>

\* COMMIT makes the row visible, in its place in the order of event ids.
CommitRow(a) ==
    /\ job[a].pc = "commit"
    /\ LET rows == log[job[a].order]
           row == job[a].row
       IN  \E k \in 1..(Len(rows) + 1) :
             /\ \A n \in 1..(k - 1) : rows[n].id < row.id
             /\ \A n \in k..Len(rows) : rows[n].id > row.id
             /\ log' = [log EXCEPT ![job[a].order] = InsertAt(rows, k, row)]

Commit(a) ==
    /\ CommitRow(a)
    /\ job' = [job EXCEPT ![a].pc = "publish"]
    /\ UNCHANGED <<nextId, topic, inflight, used, acked, removed>>

\* The server commits, but COMMIT returns an error (a lost reply): Send
\* returns that error and never publishes.
CommitUnknown(a) ==
    /\ CommitRow(a)
    /\ job' = [job EXCEPT ![a] = Idle]
    /\ UNCHANGED <<nextId, topic, inflight, used, acked, removed>>

Publish(a) ==
    /\ job[a].pc = "publish"
    /\ topic' = topic \cup {MessageOf(job[a])}
    /\ acked' = acked \cup {job[a].row.id}
    /\ job' = [job EXCEPT ![a] = Idle]
    /\ UNCHANGED <<log, nextId, inflight, used, removed>>

\* WriteMessages returns an error, at the latest after KafkaWriteTimeout; the
\* writer or the broker may still hold the message.
PublishFails(a) ==
    /\ job[a].pc = "publish"
    /\ inflight' = inflight \cup {MessageOf(job[a])}
    /\ job' = [job EXCEPT ![a].pc = "remove"]
    /\ UNCHANGED <<log, nextId, topic, used, acked, removed>>

\* DELETE ... WHERE event_id = the id this Send was given.
RemoveEvent(a) ==
    /\ job[a].pc = "remove"
    /\ LET o == job[a].order
           id == job[a].row.id
       IN  /\ \E k \in 1..Len(log[o]) :
                /\ log[o][k].id = id
                /\ log' = [log EXCEPT ![o] = RemoveAt(log[o], k)]
           /\ removed' = [removed EXCEPT ![o] = @ \cup {id}]
    /\ job' = [job EXCEPT ![a] = Idle]
    /\ UNCHANGED <<nextId, topic, inflight, used, acked>>

\* The deletion fails too, which is only logged.
RemoveFails(a) ==
    /\ job[a].pc = "remove"
    /\ job' = [job EXCEPT ![a] = Idle]
    /\ UNCHANGED <<log, nextId, topic, inflight, used, acked, removed>>

-----------------------------------------------------------------------------
(* The environment *)

\* A message whose write returned an error reaches the topic after all.
LateDelivery(m) ==
    /\ m \in inflight
    /\ topic' = topic \cup {m}
    /\ inflight' = inflight \ {m}
    /\ UNCHANGED <<log, nextId, job, used, acked, removed>>

\* The process that runs the actor dies: an open transaction is rolled back, a
\* committed row stays, its message may or may not have reached the broker.
Crash(a) ==
    /\ job[a] # Idle
    /\ job' = [job EXCEPT ![a] = Idle]
    /\ inflight' = IF job[a].pc = "publish"
                   THEN inflight \cup {MessageOf(job[a])}
                   ELSE inflight
    /\ UNCHANGED <<log, nextId, topic, used, acked, removed>>

-----------------------------------------------------------------------------
(* The specification *)

Command(a) ==
    \E o \in Orders :
        \/ PlaceOrder(a, o)
        \/ PaymentInitializer(a, o)
        \/ PaymentProcessor(a, o)
        \/ CancelOrder(a, o)
        \/ UpdateShippingStatus(a, o)

\* What Send does, and the bus's refusal, which has Send go on to the removal.
Progress(a) ==
    \/ Insert(a)
    \/ InsertConflict(a)
    \/ Commit(a)
    \/ Publish(a)
    \/ PublishFails(a)
    \/ RemoveEvent(a)

Failure(a) ==
    \/ TransactionFails(a)
    \/ CommitUnknown(a)
    \/ RemoveFails(a)
    \/ Crash(a)

Next ==
    \/ \E a \in Actors : Command(a) \/ Progress(a) \/ Failure(a)
    \/ \E m \in inflight : LateDelivery(m)

Spec == Init /\ [][Next]_vars

-----------------------------------------------------------------------------
(* Properties *)

\* Orders none of whose committed events was deleted by a failed Send.
Unrevoked == {o \in Orders : removed[o] = {}}

StoredIds(o) == {log[o][n].id : n \in 1..Len(log[o])}

\* Optimistic locking (README "Optimistic Locking", store.go Persist): however
\* the reads and writes of concurrent commands interleave, an unrevoked order's
\* log is one that commands running one after the other would have written:
\* sequence numbers are 0, 1, 2, ... in the order of event ids, and the
\* validator of every row's command accepts the rows before it.
SerialHistory ==
    \A o \in Unrevoked : \A n \in 1..Len(log[o]) :
        /\ log[o][n].seq = n - 1
        /\ \A k \in 1..(n - 1) : log[o][k].id < log[o][n].id
        /\ Accepts(EventsOf(SubSeq(log[o], 1, n - 1)), log[o][n].event)

\* The log as the abstract specification sees it: each command is one atomic
\* step that validates and appends, however Send's steps interleave, until the
\* first deletion of an event of that order.
History ==
    INSTANCE OrderHistory
        WITH history <- [o \in Orders |-> EventsOf(log[o])],
             revoked <- [o \in Orders |-> removed[o] # {}]

\* The write path implements atomic commands (README "Commands read the current
\* sequence number, validate business rules, then attempt to write").
AtomicCommands == History!Spec

\* A command that reported success is recorded and recoverable (README
\* "Reliability"): its event stays in the store and its message is in the
\* topic, whatever other Sends, crashes and compensations do.
AckedDurable ==
    \A id \in acked : \E m \in topic : m.id = id /\ id \in StoredIds(m.order)

\* Send commits to the store before it publishes (comment at producer.go:41):
\* a message that consumers see, or may see later, is for an event that is in
\* the store or that Send deleted after its write had failed.
CommittedBeforeBus ==
    \A m \in topic \cup inflight :
        m.id \in StoredIds(m.order) \cup removed[m.order]

PaidRows(o) == {n \in 1..Len(log[o]) : log[o][n].event.type = "order_paid"}

\* No double charge (README "Example Use Case") on an unrevoked order: two
\* processors of the same order, or one that is redelivered its message,
\* record one payment, and an order that left the warehouse has one.
ChargedOnce ==
    \A o \in Unrevoked :
        /\ Cardinality(PaidRows(o)) <= 1
        /\ ProjectionOf(log[o]).shipping \in {"in_transit", "delivered"} =>
               Cardinality(PaidRows(o)) = 1

ShippingRank(rows) == MapStrToShippingStatus(ProjectionOf(rows).shipping)

\* "Shipping status updates with progression rules" (README): on an unrevoked
\* order that is not cancelled no step lowers the shipping status, and a
\* delivered order stays delivered.
ShippingForward ==
    [][\A o \in Orders :
         removed'[o] = {} /\ ProjectionOf(log[o]).shipping # "cancelled" =>
             /\ ShippingRank(log'[o]) >= ShippingRank(log[o])
             /\ ProjectionOf(log[o]).shipping = "delivered" =>
                    ProjectionOf(log'[o]).shipping = "delivered"]_vars

StatusesOf(rows) ==
    LET p == ProjectionOf(rows)
    IN  [payment |-> p.payment, shipping |-> p.shipping]

\* An order's statuses as the abstract specification sees them.
Status ==
    INSTANCE OrderStatus
        WITH statuses <- [o \in Orders |-> StatusesOf(log[o])],
             revoked <- [o \in Orders |-> removed[o] # {}]

\* The order's life as README tells it ("Example Use Case", "Shipping status
\* updates with progression rules"): whatever commands race for an unrevoked
\* order, its statuses take no step that is not one of OrderStatus.
StatusMachine == Status!Spec

\* The keys of the event table (migration V0001) hold after deletions too: ids
\* are unique over all orders and ascend in each log, no two rows of an order
\* have one sequence number, and what was deleted does not come back.
KeysUnique ==
    /\ \A o \in Orders : \A n \in 1..Len(log[o]) :
         /\ \A k \in 1..(n - 1) :
              log[o][k].id < log[o][n].id /\ log[o][k].seq # log[o][n].seq
         /\ \A p \in Orders : log[o][n].id \notin removed[p]
    /\ \A o \in Orders : \A p \in Orders \ {o} : StoredIds(o) \cap StoredIds(p) = {}

\* Every Send returns (producer.go:37), although inserts of the same key wait for
\* one another, if Send's own steps are weakly fair.
SendTerminates == \A a \in Actors : job[a] # Idle ~> job[a] = Idle
=============================================================================
