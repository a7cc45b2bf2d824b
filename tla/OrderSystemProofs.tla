------------------------- MODULE OrderSystemProofs -------------------------
(***************************************************************************)
(* What the projection table shows: RowIsAPrefix, CaughtUp and              *)
(* ListingForward; and that the system implements OrderCommands.            *)
(*                                                                         *)
(* The consumers take no step that OrderCommands lacks (SysStep), so that   *)
(* what is proved of the log holds here too.  On an unrevoked order the log *)
(* only grows (LogGrows): a projection once read stays the fold of a prefix *)
(* (RowsArePrefixes).  As long as the runs of an order do not overlap, the  *)
(* row, or the run under way, has seen every message taken so far           *)
(* (UpToDate), and the run folds no fewer rows than the table shows         *)
(* (RunsForward), in which no status is behind that of an earlier prefix    *)
(* (PrefixesForward).                                                       *)
(***************************************************************************)
EXTENDS OrderSystem, OrderPaymentProofs, OrderDurabilityProofs

IndexGroup == "projection-indexer"

PrefixRow(o, n) == StatusesOf(SubSeq(log[o], 1, n))

IsPrefixRow(o, row) == \E n \in 1..Len(log[o]) : row = PrefixRow(o, n)

\* What is in the table, and what an indexer is about to put there.
RowsArePrefixes ==
    \A o \in Unrevoked :
        /\ table[o] # NoRow => IsPrefixRow(o, table[o])
        /\ \A i \in Indexers : Busy(i, o) => IsPrefixRow(o, index[i].row)

\* The messages of o that the indexer took are for the first n events.
TakenWithin(o, n) ==
    \A m \in taken[IndexGroup] : m.order = o => \E k \in 1..n : log[o][k].id = m.id

\* The row shows the first n events, and the messages taken are for these.
RowUpToDate(o) ==
    \/ table[o] = NoRow /\ TakenWithin(o, 0)
    \/ \E n \in 1..Len(log[o]) : table[o] = PrefixRow(o, n) /\ TakenWithin(o, n)

\* So does what i is about to write.
RunUpToDate(o, i) ==
    \E n \in 1..Len(log[o]) : index[i].row = PrefixRow(o, n) /\ TakenWithin(o, n)

UpToDate ==
    \A o \in Unrevoked \ clobbered :
        /\ (\A i \in Indexers : ~Busy(i, o)) => RowUpToDate(o)
        /\ \A i \in Indexers : Busy(i, o) =>
             /\ RunUpToDate(o, i)
             /\ \A j \in Indexers \ {i} : ~Busy(j, o)

ListenersOK ==
    /\ table \in [Orders -> Statuses \cup {NoRow}]
    /\ index \in [Indexers -> IndexJob \cup {Idle}]
    /\ taken \in [Groups -> SUBSET Message]
    /\ faults \in [Orders -> 0..MaxFaults]
    /\ clobbered \in SUBSET Orders

SysInv == TypeInv /\ Serial /\ Durable /\ ListenersOK

-----------------------------------------------------------------------------
(* Statuses *)

LEMMA ApplyEventTyped ==
    ASSUME NEW p \in Projection, NEW event \in Event
    PROVE  ApplyEvent(p, event) \in Projection
<1>1. /\ p.method \in BOOLEAN /\ p.payment \in PaymentStatuses
      /\ p.shipping \in ShippingStatuses /\ event.status \in ShippingStatuses
      /\ event.type \in EventTypes
  BY DEF Projection, Event
<1>2. ASSUME NEW payment \in PaymentStatuses, NEW shipping \in ShippingStatuses
      PROVE  /\ [p EXCEPT !.payment = payment] \in Projection
             /\ [p EXCEPT !.shipping = shipping] \in Projection
             /\ [p EXCEPT !.payment = payment, !.shipping = shipping] \in Projection
             /\ [method |-> TRUE, payment |-> payment, shipping |-> shipping]
                   \in Projection
  BY DEF Projection
<1>3. /\ {"pending", "initiated", "paid", "failed"} \subseteq PaymentStatuses
      /\ {"waiting_for_payment", "waiting_for_shipment", "cancelled"}
            \subseteq ShippingStatuses
  BY DEF PaymentStatuses, ShippingStatuses, RequestedStatuses
<1>4. CASE event.type = "order_placed"
  BY <1>2, <1>3, <1>4 DEF ApplyEvent
<1>5. CASE event.type = "order_payment_initiated"
  BY <1>2, <1>3, <1>5 DEF ApplyEvent
<1>6. CASE event.type = "order_paid"
  BY <1>2, <1>3, <1>6 DEF ApplyEvent
<1>7. CASE event.type = "order_payment_failed"
  BY <1>2, <1>3, <1>7 DEF ApplyEvent
<1>8. CASE event.type = "order_cancelled"
  BY <1>2, <1>3, <1>8 DEF ApplyEvent
<1>9. CASE event.type = "order_shipping_status_updated"
  BY <1>1, <1>2, <1>9 DEF ApplyEvent
<1> QED
  BY <1>1, <1>4, <1>5, <1>6, <1>7, <1>8, <1>9 DEF EventTypes, PlainEventTypes

LEMMA EmptyProjectionTyped == EmptyProjection \in Projection
BY DEF EmptyProjection, Projection, PaymentStatuses, ShippingStatuses

LEMMA ProjectionTyped ==
    ASSUME NEW s \in Seq(Row)
    PROVE  ProjectionOf(s) \in Projection
<1> DEFINE m == Len(s)
           f == Projections(EventsOf(s))
           T == {n \in Nat : n <= m => f[n] \in Projection}
<1>1. /\ m \in Nat /\ Len(EventsOf(s)) = m
      /\ \A i \in 1..m : EventsOf(s)[i] \in Event
  BY LenProperties, EventsOfSeq, ElementOfSeq
<1>2. IsFold(f, EventsOf(s), m)
  BY <1>1, ProjectionsAreFold
<1>3. 0 \in T
  <2>1. f[0] = EmptyProjection
    BY <1>1, <1>2 DEF IsFold
  <2> QED
    BY <2>1, EmptyProjectionTyped
<1>4. ASSUME NEW n \in Nat \ {0}, n - 1 \in T PROVE n \in T
  <2>1. CASE n <= m
    <3>1. f[n] = ApplyEvent(f[n - 1], EventsOf(s)[n])
      BY <1>1, <1>2, <2>1 DEF IsFold
    <3>2. f[n - 1] \in Projection /\ EventsOf(s)[n] \in Event
      BY <1>1, <1>4, <2>1
    <3> QED
      BY <3>1, <3>2, ApplyEventTyped
  <2> QED
    BY <2>1
<1>5. m \in T
  <2> HIDE DEF T
  <2> QED
    BY <1>1, <1>3, <1>4, LeastCounterexample
<1> QED
  BY <1>1, <1>5 DEF ProjectionOf, ReduceToProjection

\* No fold is mistaken for a missing row.
LEMMA StatusesTyped ==
    ASSUME NEW s \in Seq(Row)
    PROVE  StatusesOf(s) \in Statuses /\ StatusesOf(s) # NoRow
<1>1. ProjectionOf(s) \in Projection
  BY ProjectionTyped
<1>2. StatusesOf(s) \in Statuses
  BY <1>1 DEF StatusesOf, Statuses, Projection
<1>3. \A st \in Statuses : st # NoRow
  <2>1. \A st \in Statuses : st.payment # "none"
    BY DEF Statuses, PaymentStatuses
  <2> QED
    BY <2>1 DEF NoRow
<1> QED
  BY <1>2, <1>3

-----------------------------------------------------------------------------
(* Steps *)

LEMMA TopicMessages ==
    ASSUME TypeOK, NEW m \in topic
    PROVE  m \in Message /\ m.order \in Orders
BY DEF TypeOK, Message

\* To the write path, the composition is one more client of it.
LEMMA SysStep == TypeOK /\ [SysNext]_sysVars => [Next]_vars
<1> SUFFICES ASSUME TypeOK, SysNext PROVE [Next]_vars
  BY DEF sysVars, vars
<1>1. Initializers \subseteq Actors /\ Processors \subseteq Actors
  BY ConsumersAreActors
<1>2. ASSUME NEW a \in Clients, Client(a) PROVE Next
  <2>1. a \in Actors
    BY DEF Clients
  <2>2. Command(a)
    BY <1>2 DEF Client, Command
  <2> QED
    BY <2>1, <2>2 DEF Next
<1>3. ASSUME NEW a \in Actors, SendStep(a) PROVE Next
  BY <1>3 DEF SendStep, Next, Progress
<1>4. ASSUME NEW a \in Actors, SendFault(a) PROVE Next
  BY <1>4 DEF SendFault, Next, Progress, Failure
<1>5. ASSUME NEW a \in Actors, NEW g, NEW m \in topic, Handle(a, g, m) PROVE Next
  <2>1. m.order \in Orders
    BY TopicMessages
  <2>2. Command(a)
    BY <1>5, <2>1 DEF Handle, Command
  <2> QED
    BY <2>2 DEF Next
<1>6. ASSUME NEW a \in Initializers, NEW m \in topic, Initializer(a, m)
      PROVE  Next \/ UNCHANGED vars
  BY <1>1, <1>5, <1>6 DEF Initializer, Decline
<1>7. ASSUME NEW a \in Processors, NEW m \in topic, Processor(a, m)
      PROVE  Next \/ UNCHANGED vars
  BY <1>1, <1>5, <1>7 DEF Processor, Decline
<1>8. ASSUME NEW i \in Indexers, NEW m \in topic, IndexRead(i, m)
      PROVE  UNCHANGED vars
  BY <1>8 DEF IndexRead, IndexRows
<1>9. ASSUME NEW i \in Indexers, IndexUpsert(i) \/ IndexFails(i)
      PROVE  UNCHANGED vars
  BY <1>9 DEF IndexUpsert, IndexFails
<1>10. ASSUME NEW m \in inflight, LateDelivery(m) PROVE Next
  BY <1>10 DEF Next
<1> QED
  BY <1>2, <1>3, <1>4, <1>6, <1>7, <1>8, <1>9, <1>10 DEF SysNext

\* Nobody but the indexer touches the table or what the indexer took.
LEMMA ListenerStep ==
    ASSUME ListenersOK, [SysNext]_sysVars
    PROVE  \/ /\ UNCHANGED <<table, index, clobbered>>
              /\ taken'[IndexGroup] = taken[IndexGroup]
           \/ \E i \in Indexers, m \in topic : IndexRead(i, m)
           \/ \E i \in Indexers : IndexUpsert(i) \/ IndexFails(i)
<1> DEFINE Quiet == /\ UNCHANGED <<table, index, clobbered>>
                    /\ taken'[IndexGroup] = taken[IndexGroup]
<1>1. ASSUME NEW g \in {"payment-initializer", "payment-processor"}, NEW m, Take(g, m)
      PROVE  taken'[IndexGroup] = taken[IndexGroup]
  BY <1>1 DEF ListenersOK, Take, Groups, IndexGroup
<1>2. ASSUME NEW a, NEW m, Initializer(a, m) \/ Processor(a, m) PROVE Quiet
  BY <1>1, <1>2 DEF Initializer, Processor, Handle, Decline
<1>3. ASSUME NEW a, Client(a) \/ SendStep(a) \/ SendFault(a) PROVE Quiet
  BY <1>3 DEF Client, SendStep, SendFault, listeners
<1>4. ASSUME UNCHANGED sysVars PROVE Quiet
  BY <1>4 DEF sysVars, listeners
<1>5. ASSUME UNCHANGED listeners PROVE Quiet
  BY <1>5 DEF listeners
<1> HIDE DEF Quiet
<1>6. Quiet \/ (\E i \in Indexers, m \in topic : IndexRead(i, m))
            \/ (\E i \in Indexers : IndexUpsert(i) \/ IndexFails(i))
  <2>1. CASE SysNext
    BY <1>2, <1>3, <1>5, <2>1, Zenon DEF SysNext
  <2> QED
    BY <1>4, <2>1
<1> QED
  BY <1>6 DEF Quiet

\* Until an event of the order is deleted, the log keeps its rows and appends.
LEMMA LogGrows ==
    ASSUME TypeInv, Serial, [Next]_vars, NEW o \in Unrevoked'
    PROVE  /\ o \in Orders /\ o \in Unrevoked
           /\ Len(log[o]) \in Nat /\ Len(log'[o]) \in Nat
           /\ Len(log[o]) <= Len(log'[o])
           /\ \A n \in 1..Len(log[o]) :
                /\ log'[o][n] = log[o][n]
                /\ PrefixRow(o, n)' = PrefixRow(o, n)
<1>1. o \in Orders /\ o \in Unrevoked
  BY UnrevokedStep
<1>2. log[o] \in Seq(Row) /\ log'[o] \in Seq(Row)
  BY <1>1, NextTypeInv DEF TypeInv, TypeOK
<1>3. /\ Len(log[o]) <= Len(log'[o])
      /\ \A n \in 1..Len(log[o]) : log'[o][n] = log[o][n]
  <2>1. CASE log'[o] = log[o]
    BY <1>2, <2>1, LenProperties
  <2>2. CASE \E a \in Actors : CommitRow(a) /\ job[a].order = o
    <3>1. PICK a \in Actors : CommitRow(a) /\ job[a].order = o
      BY <2>2
    <3> QED
      BY <1>1, <1>2, <3>1, CommitAppends, LenProperties
  <2> QED
    BY <2>1, <2>2, UnrevokedStep
<1>4. ASSUME NEW n \in 1..Len(log[o])
      PROVE  SubSeq(log'[o], 1, n) = SubSeq(log[o], 1, n)
  BY <1>2, <1>3, LenProperties
<1>5. \A n \in 1..Len(log[o]) : PrefixRow(o, n)' = PrefixRow(o, n)
  BY <1>4 DEF PrefixRow, StatusesOf, ProjectionOf
<1> QED
  BY <1>1, <1>2, <1>3, <1>5, LenProperties

\* What an indexer reads are the first rows of the log, and it goes on with
\* one or more of them.
LEMMA ReadPrefix ==
    ASSUME TypeInv, NEW i \in Indexers, NEW m \in topic, IndexRead(i, m)
    PROVE  \E n \in 0..Len(log[m.order]) :
             /\ IndexRows(i, m, SubSeq(log[m.order], 1, n))
             /\ \/ n = 0 /\ UNCHANGED index
                \/ n > 0 /\ IndexTo(i, m, SubSeq(log[m.order], 1, n))
<1>1. log[m.order] \in Seq(Row)
  BY TopicMessages DEF TypeInv, TypeOK
<1>2. PICK n \in 0..Len(log[m.order]) :
        LET rows == SubSeq(log[m.order], 1, n)
        IN  /\ IndexRows(i, m, rows)
            /\ \/ rows = <<>> /\ UNCHANGED index
               \/ rows # <<>> /\ IndexTo(i, m, rows)
  BY DEF IndexRead, ListByAggregateID
<1>3. Len(SubSeq(log[m.order], 1, n)) = n
  BY <1>1, LenProperties
<1>4. SubSeq(log[m.order], 1, n) = <<>> <=> n = 0
  BY <1>1, <1>3, LenProperties
<1> QED
  BY <1>2, <1>4

\* Whom the indexer's step makes busy, with which row.
LEMMA ReadJob ==
    ASSUME ListenersOK, NEW i \in Indexers, NEW m, NEW rows, IndexTo(i, m, rows)
    PROVE  /\ \A j \in Indexers \ {i} : index'[j] = index[j]
           /\ index'[i] # Idle
           /\ index'[i].order = m.order /\ index'[i].row = StatusesOf(rows)
<1>1. index'[i] = [order |-> m.order, row |-> StatusesOf(rows)]
  BY DEF ListenersOK, IndexTo
<1>2. \A j \in Indexers \ {i} : index'[j] = index[j]
  BY DEF ListenersOK, IndexTo
<1>3. index'[i] # Idle
  BY <1>1 DEF Idle
<1> QED
  BY <1>1, <1>2, <1>3

\* The end of a run frees its indexer, and leaves every other order's row.
LEMMA RunEnds ==
    ASSUME ListenersOK, NEW i \in Indexers, IndexUpsert(i) \/ IndexFails(i)
    PROVE  /\ UNCHANGED <<vars, taken>>
           /\ \A j \in Indexers \ {i} : index'[j] = index[j]
           /\ index'[i] = Idle /\ index[i] # Idle
           /\ \A o \in Orders :
                table'[o] = table[o] \/ (Busy(i, o) /\ table'[o] = index[i].row)
           /\ \A o \in Orders : ~Busy(i, o) => table'[o] = table[o]
<1>1. index' = [index EXCEPT ![i] = Idle] /\ UNCHANGED <<vars, taken>> /\ index[i] # Idle
  BY DEF IndexUpsert, IndexFails
<1>2. \A o \in Orders : \/ table'[o] = table[o]
                        \/ o = index[i].order /\ table'[o] = index[i].row
  BY DEF IndexUpsert, IndexFails, Upsert, ListenersOK
<1> QED
  BY <1>1, <1>2 DEF ListenersOK, Busy

\* The topic only grows, and a group is handed what is in it.
LEMMA TakenStep ==
    ASSUME TypeOK, ListenersOK, [SysNext]_sysVars
    PROVE  /\ topic \subseteq topic'
           /\ \A g \in Groups :
                taken[g] \subseteq taken'[g] /\ taken'[g] \subseteq taken[g] \cup topic
<1>1. topic \subseteq topic'
  <2>1. [Next]_vars
    BY SysStep
  <2>2. ASSUME NEW a \in Actors, Command(a) PROVE UNCHANGED topic
    BY <2>2 DEF Command, PlaceOrder, PaymentInitializer, PaymentProcessor, CancelOrder,
                UpdateShippingStatus, InitializePendingPayment, ProcessPayment, Decide
  <2>3. ASSUME NEW a \in Actors, Progress(a) \/ Failure(a) PROVE topic \subseteq topic'
    BY <2>3 DEF Progress, Failure, Insert, InsertConflict, Commit, Publish, PublishFails,
                RemoveEvent, TransactionFails, CommitUnknown, RemoveFails, Crash
  <2>4. ASSUME NEW m \in inflight, LateDelivery(m) PROVE topic \subseteq topic'
    BY <2>4 DEF LateDelivery
  <2> QED
    BY <2>1, <2>2, <2>3, <2>4 DEF Next, vars
<1>2. ASSUME NEW h, NEW m \in topic, Take(h, m)
      PROVE  \A g \in Groups :
               taken[g] \subseteq taken'[g] /\ taken'[g] \subseteq taken[g] \cup topic
  BY <1>2 DEF Take, ListenersOK
<1>3. (\E h : \E m \in topic : Take(h, m)) \/ UNCHANGED taken
  <2>1. ASSUME NEW a, NEW m \in topic, Initializer(a, m) \/ Processor(a, m)
        PROVE  \E h : Take(h, m)
    BY <2>1 DEF Initializer, Processor, Handle, Decline
  <2>2. ASSUME NEW i \in Indexers, NEW m \in topic, IndexRead(i, m)
        PROVE  \E h : Take(h, m)
    BY <2>2 DEF IndexRead, IndexRows
  <2>3. ASSUME NEW i \in Indexers, IndexUpsert(i) \/ IndexFails(i) PROVE UNCHANGED taken
    BY <2>3 DEF IndexUpsert, IndexFails
  <2>4. ASSUME NEW a, Client(a) \/ SendStep(a) \/ SendFault(a) PROVE UNCHANGED taken
    BY <2>4 DEF Client, SendStep, SendFault, listeners
  <2> QED
    BY <2>1, <2>2, <2>3, <2>4 DEF SysNext, sysVars, listeners
<1> QED
  BY <1>1, <1>2, <1>3

-----------------------------------------------------------------------------
(* Types *)

LEMMA FaultTyped ==
    ASSUME ListenersOK, NEW o \in Orders, Fault(o) \/ UNCHANGED faults
    PROVE  faults' \in [Orders -> 0..MaxFaults]
<1>1. CASE UNCHANGED faults
  BY <1>1 DEF ListenersOK
<1>2. CASE Fault(o)
  <2>1. faults[o] \in 0..MaxFaults /\ faults[o] < MaxFaults /\ MaxFaults \in Nat
    BY <1>2, MaxFaultsAssumption DEF ListenersOK, Fault
  <2>2. faults[o] + 1 \in 0..MaxFaults
    BY <2>1
  <2> QED
    BY <1>2, <2>2 DEF ListenersOK, Fault
<1> QED
  BY <1>1, <1>2

LEMMA TakeTyped ==
    ASSUME ListenersOK, NEW g, NEW m \in Message, Take(g, m)
    PROVE  taken' \in [Groups -> SUBSET Message]
BY DEF ListenersOK, Take

LEMMA InitListeners == SysInit => ListenersOK
<1> SUFFICES ASSUME SysInit PROVE ListenersOK
  OBVIOUS
<1>1. 0 \in 0..MaxFaults
  BY MaxFaultsAssumption
<1> QED
  BY <1>1 DEF SysInit, ListenersOK

LEMMA ReadTyped ==
    ASSUME TypeInv, ListenersOK, NEW i \in Indexers, NEW m \in topic,
           IndexRead(i, m)
    PROVE  ListenersOK'
<1>1. m \in Message /\ m.order \in Orders /\ log[m.order] \in Seq(Row)
  BY TopicMessages DEF TypeInv, TypeOK
<1>2. PICK rows \in ListByAggregateID(m.order) :
        /\ IndexRows(i, m, rows)
        /\ (UNCHANGED index) \/ IndexTo(i, m, rows)
  BY DEF IndexRead
<1>3. rows \in Seq(Row)
  BY <1>1, LenProperties DEF ListByAggregateID
<1>4. StatusesOf(rows) \in Statuses
  BY <1>3, StatusesTyped
<1>5. [order |-> m.order, row |-> StatusesOf(rows)] \in IndexJob
  BY <1>1, <1>4 DEF IndexJob
<1>6. index' \in [Indexers -> IndexJob \cup {Idle}]
  BY <1>2, <1>5 DEF IndexTo, ListenersOK
<1>7. taken' \in [Groups -> SUBSET Message]
  BY <1>1, <1>2, TakeTyped DEF IndexRows
<1>8. faults' \in [Orders -> 0..MaxFaults]
  BY <1>1, <1>2, FaultTyped DEF IndexRows, FaultIf
<1>9. clobbered' \in SUBSET Orders /\ table' = table
  BY <1>1, <1>2 DEF IndexRows, ListenersOK
<1> QED
  BY <1>6, <1>7, <1>8, <1>9 DEF ListenersOK

LEMMA NextListeners ==
    ASSUME TypeInv, ListenersOK, [SysNext]_sysVars
    PROVE  ListenersOK'
<1>1. CASE UNCHANGED listeners
  BY <1>1 DEF listeners, ListenersOK
<1>2. ASSUME NEW a \in Actors, NEW m \in topic,
             Initializer(a, m) \/ Processor(a, m)
      PROVE  ListenersOK'
  <2>1. m \in Message /\ m.order \in Orders
    BY TopicMessages DEF TypeInv
  <2>2. UNCHANGED <<table, index, clobbered>> /\ \E g : Take(g, m)
    BY <1>2 DEF Initializer, Processor, Handle, Decline
  <2>3. Fault(m.order) \/ UNCHANGED faults
    BY <1>2 DEF Initializer, Processor, Handle, Decline, FaultIf
  <2> QED
    BY <2>1, <2>2, <2>3, FaultTyped, TakeTyped DEF ListenersOK
<1>3. ASSUME NEW a \in Actors, SendFault(a) PROVE ListenersOK'
  <2>1. UNCHANGED <<table, index, taken, clobbered>>
    BY <1>3 DEF SendFault
  <2>2. CASE UNCHANGED faults
    BY <2>1, <2>2 DEF ListenersOK
  <2>3. CASE Fault(job[a].order)
    <3>1. job[a] # Idle
      BY <1>3 DEF SendFault, TransactionFails, CommitUnknown, CommitRow,
                  PublishFails, Crash, RemoveFails, Idle
    <3>2. job[a].order \in Orders
      BY <3>1 DEF TypeInv, TypeOK, Send
    <3> QED
      BY <2>1, <2>3, <3>2, FaultTyped DEF ListenersOK
  <2> QED
    BY <1>3, <2>2, <2>3 DEF SendFault
<1>4. ASSUME NEW i \in Indexers, IndexUpsert(i) \/ IndexFails(i)
      PROVE  ListenersOK'
  <2>1. index[i] \in IndexJob
    BY <1>4 DEF ListenersOK, IndexUpsert, IndexFails
  <2>2. index[i].order \in Orders /\ index[i].row \in Statuses
    BY <2>1 DEF IndexJob
  <2>3. table' \in [Orders -> Statuses \cup {NoRow}]
    BY <1>4, <2>2 DEF ListenersOK, IndexUpsert, IndexFails, Upsert
  <2>4. index' \in [Indexers -> IndexJob \cup {Idle}]
    BY <1>4 DEF ListenersOK, IndexUpsert, IndexFails
  <2>5. UNCHANGED taken /\ clobbered' \in SUBSET Orders
    BY <1>4, <2>2 DEF ListenersOK, IndexUpsert, IndexFails
  <2>6. faults' \in [Orders -> 0..MaxFaults]
    BY <1>4, <2>2, FaultTyped DEF IndexUpsert, IndexFails
  <2> QED
    BY <2>3, <2>4, <2>5, <2>6 DEF ListenersOK
<1>5. ASSUME SysNext PROVE ListenersOK'
  <2>1. Initializers \subseteq Actors /\ Processors \subseteq Actors
    BY ConsumersAreActors
  <2> QED
    BY <1>1, <1>2, <1>3, <1>4, <1>5, <2>1, ReadTyped
    DEF SysNext, Client, SendStep
<1> QED
  BY <1>1, <1>5 DEF sysVars, listeners

LEMMA SysInductive == SysSpec => []SysInv
<1>1. SysInit => SysInv
  BY InitTypeInv, InitSerial, InitDurable, InitListeners DEF SysInit, SysInv
<1>2. SysInv /\ [SysNext]_sysVars => SysInv'
  <2> SUFFICES ASSUME SysInv, [SysNext]_sysVars PROVE SysInv'
    OBVIOUS
  <2>1. [Next]_vars
    BY SysStep DEF SysInv, TypeInv
  <2> QED
    BY <2>1, NextTypeInv, NextSerial, NextDurable, NextListeners DEF SysInv
<1> QED
  BY <1>1, <1>2, PTL DEF SysSpec

LEMMA NextFromTopic ==
    ASSUME TypeOK, ListenersOK, FromTopic, [SysNext]_sysVars
    PROVE  FromTopic'
<1>1. \A g \in Groups : taken'[g] \subseteq topic'
  BY TakenStep DEF FromTopic
<1>2. \A m \in taken[IndexGroup] : m \in taken'[IndexGroup]
  BY TakenStep DEF Groups, IndexGroup
<1>3. ASSUME NEW o \in Orders, table'[o] # NoRow \/ \E i \in Indexers : Busy(i, o)'
      PROVE  \E m \in taken'[IndexGroup] : m.order = o
  <2>1. ASSUME table[o] # NoRow \/ \E i \in Indexers : Busy(i, o)
        PROVE  \E m \in taken'[IndexGroup] : m.order = o
    BY <1>2, <2>1 DEF FromTopic, IndexGroup
  <2>2. CASE UNCHANGED <<table, index>>
    BY <1>3, <2>1, <2>2 DEF Busy
  <2>3. ASSUME NEW i \in Indexers, NEW m \in topic, IndexRead(i, m)
        PROVE  \E x \in taken'[IndexGroup] : x.order = o
    <3>1. PICK rows \in ListByAggregateID(m.order) :
            IndexRows(i, m, rows) /\ (UNCHANGED index \/ IndexTo(i, m, rows))
      BY <2>3 DEF IndexRead
    <3>2. m \in taken'[IndexGroup] /\ UNCHANGED table
      BY <3>1 DEF IndexRows, Take, ListenersOK, Groups, IndexGroup
    <3>3. CASE UNCHANGED index
      BY <2>2, <3>2, <3>3
    <3>4. CASE IndexTo(i, m, rows) /\ m.order # o
      <4>1. \A j \in Indexers : Busy(j, o)' => Busy(j, o)
        BY <3>4, ReadJob DEF Busy
      <4> QED
        BY <1>3, <2>1, <3>2, <4>1
    <3> QED
      BY <3>1, <3>2, <3>3, <3>4
  <2>4. ASSUME NEW i \in Indexers, IndexUpsert(i) \/ IndexFails(i)
        PROVE  \E m \in taken'[IndexGroup] : m.order = o
    <3>1. table'[o] # NoRow => table[o] # NoRow \/ Busy(i, o)
      BY <2>4, RunEnds
    <3>2. \A j \in Indexers : Busy(j, o)' => Busy(j, o)
      BY <2>4, RunEnds DEF Busy
    <3> QED
      BY <1>3, <2>1, <3>1, <3>2
  <2> QED
    BY <2>2, <2>3, <2>4, ListenerStep
<1> QED
  BY <1>1, <1>3 DEF FromTopic, IndexGroup

\* The types of the composition: what consumers were handed is in the topic,
\* and a row, which an indexer wrote or is about to, belongs to an order that
\* had a message (projection_indexer.go:32-47), also when reads are cut short
\* and steps fail.
THEOREM SystemTypes == SysSpec => []SysTypeOK
<1>1. SysInit => FromTopic
  BY DEF SysInit, FromTopic, Busy, Groups
<1>2. SysInv /\ FromTopic /\ [SysNext]_sysVars => FromTopic'
  BY NextFromTopic DEF SysInv, TypeInv
<1>3. SysInv /\ FromTopic => SysTypeOK
  BY DEF SysInv, TypeInv, ListenersOK, SysTypeOK
<1> QED
  BY <1>1, <1>2, <1>3, SysInductive, PTL DEF SysSpec

-----------------------------------------------------------------------------
(* The table shows only what the order was *)

\* A row or job that showed a prefix still does.
LEMMA PrefixRowStays ==
    ASSUME TypeInv, Serial, [Next]_vars, NEW o \in Unrevoked', NEW row,
           IsPrefixRow(o, row)
    PROVE  \E n \in 1..Len(log'[o]) : row = PrefixRow(o, n)'
<1>1. PICK n \in 1..Len(log[o]) : row = PrefixRow(o, n)
  BY DEF IsPrefixRow
<1>2. n \in 1..Len(log'[o]) /\ row = PrefixRow(o, n)'
  BY <1>1, LogGrows
<1> QED
  BY <1>2

LEMMA NextRows ==
    ASSUME SysInv, RowsArePrefixes, [SysNext]_sysVars
    PROVE  RowsArePrefixes'
<1>0. /\ TypeInv /\ TypeOK /\ Serial /\ ListenersOK
      /\ [Next]_vars
  BY SysStep DEF SysInv, TypeInv
<1> SUFFICES ASSUME NEW o \in Unrevoked'
             PROVE  /\ table'[o] # NoRow => IsPrefixRow(o, table[o])'
                    /\ \A i \in Indexers : Busy(i, o)' => IsPrefixRow(o, index[i].row)'
  BY DEF RowsArePrefixes
<1>1. o \in Orders /\ o \in Unrevoked
  BY <1>0, LogGrows
<1>2. ASSUME NEW row, IsPrefixRow(o, row)
      PROVE  \E n \in 1..Len(log'[o]) : row = PrefixRow(o, n)'
  BY <1>0, <1>2, PrefixRowStays
<1>3. CASE UNCHANGED <<table, index>>
  BY <1>1, <1>2, <1>3 DEF RowsArePrefixes, IsPrefixRow, Busy
<1>4. ASSUME NEW i \in Indexers, NEW m \in topic, IndexRead(i, m)
      PROVE  /\ table'[o] # NoRow => IsPrefixRow(o, table[o])'
             /\ \A j \in Indexers : Busy(j, o)' => IsPrefixRow(o, index[j].row)'
  <2>1. PICK n \in 0..Len(log[m.order]) :
          /\ IndexRows(i, m, SubSeq(log[m.order], 1, n))
          /\ \/ n = 0 /\ UNCHANGED index
             \/ n > 0 /\ IndexTo(i, m, SubSeq(log[m.order], 1, n))
    BY <1>0, <1>4, ReadPrefix
  <2>2. UNCHANGED table
    BY <2>1 DEF IndexRows
  <2>3. CASE UNCHANGED index
    BY <1>3, <2>2, <2>3
  <2>4. CASE n > 0 /\ IndexTo(i, m, SubSeq(log[m.order], 1, n))
    <3>1. table'[o] # NoRow => IsPrefixRow(o, table[o])'
      BY <1>1, <1>2, <2>2 DEF RowsArePrefixes, IsPrefixRow
    <3>2. ASSUME NEW j \in Indexers, Busy(j, o)' PROVE IsPrefixRow(o, index[j].row)'
      <4>1. /\ \A x \in Indexers \ {i} : index'[x] = index[x]
            /\ index'[i].order = m.order
            /\ index'[i].row = StatusesOf(SubSeq(log[m.order], 1, n))
        BY <1>0, <2>4, ReadJob
      <4>2. CASE j = i
        <5>1. m.order = o
          BY <3>2, <4>1, <4>2 DEF Busy
        <5>2. n \in 1..Len(log[o]) /\ index'[i].row = PrefixRow(o, n)
          BY <1>0, <1>1, <2>4, <4>1, <5>1, LogGrows DEF PrefixRow
        <5> QED
          BY <1>2, <4>2, <5>2 DEF IsPrefixRow
      <4>3. CASE j # i
        <5>1. Busy(j, o) /\ index'[j] = index[j]
          BY <3>2, <4>1, <4>3 DEF Busy
        <5> QED
          BY <1>1, <1>2, <5>1 DEF RowsArePrefixes, IsPrefixRow
      <4> QED
        BY <4>2, <4>3
    <3> QED
      BY <3>1, <3>2
  <2> QED
    BY <2>1, <2>3, <2>4
<1>5. ASSUME NEW i \in Indexers, IndexUpsert(i) \/ IndexFails(i)
      PROVE  /\ table'[o] # NoRow => IsPrefixRow(o, table[o])'
             /\ \A j \in Indexers : Busy(j, o)' => IsPrefixRow(o, index[j].row)'
  <2>1. /\ \A j \in Indexers \ {i} : index'[j] = index[j]
        /\ index'[i] = Idle
        /\ table'[o] = table[o] \/ (Busy(i, o) /\ table'[o] = index[i].row)
    BY <1>0, <1>1, <1>5, RunEnds
  <2>2. table'[o] # NoRow => IsPrefixRow(o, table[o])'
    BY <1>1, <1>2, <2>1 DEF RowsArePrefixes, IsPrefixRow
  <2>3. ASSUME NEW j \in Indexers, Busy(j, o)' PROVE IsPrefixRow(o, index[j].row)'
    <3>1. Busy(j, o) /\ index'[j] = index[j]
      BY <2>1, <2>3 DEF Busy
    <3> QED
      BY <1>1, <1>2, <3>1 DEF RowsArePrefixes, IsPrefixRow
  <2> QED
    BY <2>2, <2>3
<1> QED
  BY <1>0, <1>3, <1>4, <1>5, ListenerStep

\* However indexers race, fail and are redelivered their messages, the row of
\* an unrevoked order is what GetOrder said at some point of its history
\* (index_projection.go, projection_repo.go Upsert).
THEOREM TableShowsThePast == SysSpec => []RowIsAPrefix
<1>1. SysInit => RowsArePrefixes
  BY DEF SysInit, RowsArePrefixes, Busy, Unrevoked
<1>2. SysInv /\ RowsArePrefixes /\ [SysNext]_sysVars => RowsArePrefixes'
  BY NextRows
<1>3. RowsArePrefixes => RowIsAPrefix
  BY DEF RowsArePrefixes, RowIsAPrefix, IsPrefixRow, PrefixRow
<1> QED
  BY <1>1, <1>2, <1>3, SysInductive, PTL DEF SysSpec

-----------------------------------------------------------------------------
(* The table catches up *)

\* What the indexer has taken of an order stays within the same rows.
LEMMA TakenStays ==
    ASSUME TypeInv, Serial, [Next]_vars, NEW o \in Unrevoked',
           \A m \in taken'[IndexGroup] : m.order = o => m \in taken[IndexGroup]
    PROVE  /\ TakenWithin(o, 0) => TakenWithin(o, 0)'
           /\ \A n \in 1..Len(log[o]) :
                /\ n \in 1..Len(log'[o]) /\ PrefixRow(o, n)' = PrefixRow(o, n)
                /\ TakenWithin(o, n) => TakenWithin(o, n)'
<1>1. TakenWithin(o, 0) => TakenWithin(o, 0)'
  BY DEF TakenWithin
<1>2. ASSUME NEW n \in 1..Len(log[o])
      PROVE  /\ n \in 1..Len(log'[o]) /\ PrefixRow(o, n)' = PrefixRow(o, n)
             /\ TakenWithin(o, n) => TakenWithin(o, n)'
  <2>1. n \in 1..Len(log'[o]) /\ PrefixRow(o, n)' = PrefixRow(o, n)
    BY LogGrows
  <2>2. \A k \in 1..n : log'[o][k] = log[o][k]
    BY LogGrows
  <2>3. TakenWithin(o, n) => TakenWithin(o, n)'
    BY <2>2 DEF TakenWithin
  <2> QED
    BY <2>1, <2>3
<1> QED
  BY <1>1, <1>2

\* A step that leaves the order's row and jobs alone, and takes no message of it.
LEMMA OrderLeftAlone ==
    ASSUME TypeInv, Serial, [Next]_vars, NEW o \in Unrevoked',
           \A m \in taken'[IndexGroup] : m.order = o => m \in taken[IndexGroup]
    PROVE  /\ table'[o] = table[o] /\ RowUpToDate(o) => RowUpToDate(o)'
           /\ \A i \in Indexers :
                index'[i] = index[i] /\ RunUpToDate(o, i) => RunUpToDate(o, i)'
<1>1. ASSUME table'[o] = table[o], RowUpToDate(o) PROVE RowUpToDate(o)'
  <2>1. CASE table[o] = NoRow /\ TakenWithin(o, 0)
    BY <1>1, <2>1, TakenStays DEF RowUpToDate
  <2>2. CASE \E n \in 1..Len(log[o]) : table[o] = PrefixRow(o, n) /\ TakenWithin(o, n)
    <3>1. PICK n \in 1..Len(log[o]) : table[o] = PrefixRow(o, n) /\ TakenWithin(o, n)
      BY <2>2
    <3>2. n \in 1..Len(log'[o]) /\ table'[o] = PrefixRow(o, n)' /\ TakenWithin(o, n)'
      BY <1>1, <3>1, TakenStays
    <3> QED
      BY <3>2 DEF RowUpToDate
  <2> QED
    BY <1>1, <2>1, <2>2 DEF RowUpToDate
<1>2. ASSUME NEW i \in Indexers, index'[i] = index[i], RunUpToDate(o, i)
      PROVE  RunUpToDate(o, i)'
  <2>1. PICK n \in 1..Len(log[o]) : index[i].row = PrefixRow(o, n) /\ TakenWithin(o, n)
    BY <1>2 DEF RunUpToDate
  <2>2. n \in 1..Len(log'[o]) /\ index'[i].row = PrefixRow(o, n)' /\ TakenWithin(o, n)'
    BY <1>2, <2>1, TakenStays
  <2> QED
    BY <2>2 DEF RunUpToDate
<1> QED
  BY <1>1, <1>2

\* A message that the topic holds for an unrevoked order is for a stored event.
LEMMA TopicIsStored ==
    ASSUME CommittedBeforeBus, NEW o \in Unrevoked, NEW m \in topic, m.order = o
    PROVE  \E k \in 1..Len(log[o]) : log[o][k].id = m.id
BY DEF CommittedBeforeBus, Unrevoked, StoredIds

\* A read of the whole log, while no other run of the order is under way.
LEMMA ReadUpToDate ==
    ASSUME SysInv, UpToDate, NEW i \in Indexers, NEW m \in topic,
           IndexRead(i, m), m.order \in (Unrevoked \ clobbered)'
    PROVE  LET o == m.order
           IN  /\ index'[i] # Idle /\ index'[i].order = o
               /\ \A j \in Indexers \ {i} : index'[j] = index[j] /\ ~Busy(j, o)
               /\ RunUpToDate(o, i)'
<1> DEFINE o == m.order
<1>1. /\ TypeInv /\ ListenersOK /\ CommittedBeforeBus
      /\ o \in Orders /\ log[o] \in Seq(Row) /\ m \in Message
  BY TopicMessages DEF SysInv, TypeInv, TypeOK, Durable
<1>2. PICK n \in 0..Len(log[o]) :
        /\ IndexRows(i, m, SubSeq(log[o], 1, n))
        /\ \/ n = 0 /\ UNCHANGED index
           \/ n > 0 /\ IndexTo(i, m, SubSeq(log[o], 1, n))
  BY <1>1, ReadPrefix
<1>3. /\ SubSeq(log[o], 1, n) = log[o]
      /\ \A j \in Indexers : ~Busy(j, o)
      /\ o \in Unrevoked \ clobbered
      /\ UNCHANGED <<log, removed, table>>
      /\ taken'[IndexGroup] = taken[IndexGroup] \cup {m}
  <2>1. o \notin clobbered'
    OBVIOUS
  <2>2. UNCHANGED <<log, removed, table>> /\ Take("projection-indexer", m)
    BY <1>2 DEF IndexRows, vars
  <2>3. taken'[IndexGroup] = taken[IndexGroup] \cup {m}
    BY <1>1, <2>2 DEF Take, ListenersOK, Groups, IndexGroup
  <2>4. SubSeq(log[o], 1, n) = log[o] /\ (\A j \in Indexers : ~Busy(j, o))
    BY <1>1, <1>2, <2>1 DEF IndexRows, ListenersOK
  <2>5. o \notin clobbered
    BY <1>2, <2>1 DEF IndexRows
  <2> QED
    BY <1>1, <2>2, <2>3, <2>4, <2>5 DEF Unrevoked
<1>4. PICK k \in 1..Len(log[o]) : log[o][k].id = m.id
  BY <1>1, <1>3, TopicIsStored
<1>5. n = Len(log[o]) /\ n \in 1..Len(log[o])
  <2>1. Len(SubSeq(log[o], 1, n)) = n /\ Len(log[o]) \in Nat
    BY <1>1, LenProperties
  <2>2. n = Len(log[o])
    BY <1>3, <2>1
  <2> QED
    BY <1>4, <2>1, <2>2
<1>6. /\ \A j \in Indexers \ {i} : index'[j] = index[j]
      /\ index'[i] # Idle
      /\ index'[i].order = o /\ index'[i].row = PrefixRow(o, n)
  BY <1>1, <1>2, <1>5, ReadJob DEF PrefixRow
<1>7. TakenWithin(o, n)
  <2>1. RowUpToDate(o)
    BY <1>3 DEF UpToDate
  <2>2. \A k2 \in 1..Len(log[o]) : TakenWithin(o, k2) => TakenWithin(o, n)
    BY <1>5 DEF TakenWithin
  <2>3. TakenWithin(o, 0) => TakenWithin(o, n)
    BY <1>5 DEF TakenWithin
  <2> QED
    BY <2>1, <2>2, <2>3 DEF RowUpToDate
<1>8. TakenWithin(o, n)'
  BY <1>3, <1>4, <1>5, <1>7 DEF TakenWithin
<1>9. PrefixRow(o, n)' = PrefixRow(o, n)
  BY <1>3 DEF PrefixRow, StatusesOf, ProjectionOf
<1>10. RunUpToDate(o, i)'
  BY <1>3, <1>5, <1>6, <1>8, <1>9 DEF RunUpToDate
<1> QED
  BY <1>3, <1>6, <1>10

LEMMA NextUpToDate ==
    ASSUME SysInv, UpToDate, [SysNext]_sysVars
    PROVE  UpToDate'
<1>0. /\ TypeInv /\ TypeOK /\ Serial /\ ListenersOK
      /\ [Next]_vars
  BY SysStep DEF SysInv, TypeInv
<1> SUFFICES ASSUME NEW o \in Unrevoked', o \notin clobbered'
             PROVE  /\ (\A i \in Indexers : ~Busy(i, o)') => RowUpToDate(o)'
                    /\ \A i \in Indexers : Busy(i, o)' =>
                         /\ RunUpToDate(o, i)'
                         /\ \A j \in Indexers \ {i} : ~Busy(j, o)'
  BY DEF UpToDate
<1>1. o \in Orders /\ o \in Unrevoked
  BY <1>0, LogGrows
<1>2. ASSUME o \notin clobbered, table'[o] = table[o], index' = index,
             \A m \in taken'[IndexGroup] : m.order = o => m \in taken[IndexGroup]
      PROVE  /\ (\A i \in Indexers : ~Busy(i, o)') => RowUpToDate(o)'
             /\ \A i \in Indexers : Busy(i, o)' =>
                  /\ RunUpToDate(o, i)'
                  /\ \A j \in Indexers \ {i} : ~Busy(j, o)'
  <2>1. \A i \in Indexers : Busy(i, o)' <=> Busy(i, o)
    BY <1>2 DEF Busy
  <2>2. /\ RowUpToDate(o) => RowUpToDate(o)'
        /\ \A i \in Indexers : RunUpToDate(o, i) => RunUpToDate(o, i)'
    BY <1>0, <1>2, OrderLeftAlone
  <2> QED
    BY <1>1, <1>2, <2>1, <2>2 DEF UpToDate
<1>3. CASE /\ UNCHANGED <<table, index, clobbered>>
           /\ taken'[IndexGroup] = taken[IndexGroup]
  BY <1>2, <1>3
<1>4. ASSUME NEW i \in Indexers, NEW m \in topic, IndexRead(i, m), m.order = o
      PROVE  /\ (\A j \in Indexers : ~Busy(j, o)') => RowUpToDate(o)'
             /\ \A j \in Indexers : Busy(j, o)' =>
                  /\ RunUpToDate(o, j)'
                  /\ \A x \in Indexers \ {j} : ~Busy(x, o)'
  <2>1. /\ index'[i] # Idle /\ index'[i].order = o
        /\ \A j \in Indexers \ {i} : index'[j] = index[j] /\ ~Busy(j, o)
        /\ RunUpToDate(o, i)'
    BY <1>4, ReadUpToDate
  <2>2. Busy(i, o)' /\ \A j \in Indexers \ {i} : ~Busy(j, o)'
    BY <2>1 DEF Busy
  <2> QED
    BY <2>1, <2>2
<1>5. ASSUME NEW i \in Indexers, NEW m \in topic, IndexRead(i, m), m.order # o
      PROVE  /\ (\A j \in Indexers : ~Busy(j, o)') => RowUpToDate(o)'
             /\ \A j \in Indexers : Busy(j, o)' =>
                  /\ RunUpToDate(o, j)'
                  /\ \A x \in Indexers \ {j} : ~Busy(x, o)'
  <2>1. PICK n \in 0..Len(log[m.order]) :
          /\ IndexRows(i, m, SubSeq(log[m.order], 1, n))
          /\ \/ n = 0 /\ UNCHANGED index
             \/ n > 0 /\ IndexTo(i, m, SubSeq(log[m.order], 1, n))
    BY <1>0, <1>5, ReadPrefix
  <2>2. /\ UNCHANGED table /\ o \notin clobbered /\ index[i] = Idle
        /\ Take("projection-indexer", m)
    BY <2>1 DEF IndexRows
  <2>3. \A x \in taken'[IndexGroup] : x.order = o => x \in taken[IndexGroup]
    BY <1>0, <1>5, <2>2 DEF Take, ListenersOK, Groups, IndexGroup
  <2>4. \A j \in Indexers : Busy(j, o)' => index'[j] = index[j] /\ Busy(j, o)
    <3>1. CASE UNCHANGED index
      BY <3>1 DEF Busy
    <3>2. CASE IndexTo(i, m, SubSeq(log[m.order], 1, n))
      BY <1>0, <1>5, <3>2, ReadJob DEF Busy
    <3> QED
      BY <2>1, <3>1, <3>2
  <2>5. \A j \in Indexers : Busy(j, o) => Busy(j, o)'
    <3>1. CASE UNCHANGED index
      BY <3>1 DEF Busy
    <3>2. CASE IndexTo(i, m, SubSeq(log[m.order], 1, n))
      BY <1>0, <2>2, <3>2, ReadJob DEF Busy
    <3> QED
      BY <2>1, <3>1, <3>2
  <2>6. /\ RowUpToDate(o) => RowUpToDate(o)'
        /\ \A j \in Indexers :
             index'[j] = index[j] /\ RunUpToDate(o, j) => RunUpToDate(o, j)'
    BY <1>0, <2>2, <2>3, OrderLeftAlone
  <2> QED
    BY <1>1, <2>2, <2>4, <2>5, <2>6 DEF UpToDate
<1>6. ASSUME NEW i \in Indexers, IndexUpsert(i) \/ IndexFails(i)
      PROVE  /\ (\A j \in Indexers : ~Busy(j, o)') => RowUpToDate(o)'
             /\ \A j \in Indexers : Busy(j, o)' =>
                  /\ RunUpToDate(o, j)'
                  /\ \A x \in Indexers \ {j} : ~Busy(x, o)'
  <2>1. /\ UNCHANGED <<vars, taken>>
        /\ \A j \in Indexers \ {i} : index'[j] = index[j]
        /\ index'[i] = Idle /\ index[i] # Idle
        /\ ~Busy(i, o) => table'[o] = table[o]
    BY <1>0, <1>1, <1>6, RunEnds
  <2>2. o \notin clobbered
    BY <1>6 DEF IndexUpsert, IndexFails
  <2>3. /\ table'[o] = table[o] /\ RowUpToDate(o) => RowUpToDate(o)'
        /\ \A j \in Indexers :
             index'[j] = index[j] /\ RunUpToDate(o, j) => RunUpToDate(o, j)'
    BY <1>0, <2>1, OrderLeftAlone
  <2>4. CASE Busy(i, o)
    <3>1. RunUpToDate(o, i) /\ \A j \in Indexers \ {i} : ~Busy(j, o)
      BY <1>1, <2>2, <2>4 DEF UpToDate
    <3>2. \A j \in Indexers : ~Busy(j, o)'
      BY <2>1, <3>1 DEF Busy
    <3>3. table'[o] = index[i].row
      <4>1. IndexUpsert(i)
        BY <1>6, <2>4 DEF IndexFails, Busy
      <4> QED
        BY <1>0, <1>1, <2>4, <4>1 DEF IndexUpsert, Upsert, ListenersOK, Busy
    <3>4. PICK n \in 1..Len(log[o]) :
            index[i].row = PrefixRow(o, n) /\ TakenWithin(o, n)
      BY <3>1 DEF RunUpToDate
    <3>5. /\ n \in 1..Len(log'[o])
          /\ PrefixRow(o, n)' = PrefixRow(o, n) /\ TakenWithin(o, n)'
      BY <1>0, <2>1, <3>4, TakenStays
    <3> QED
      BY <3>2, <3>3, <3>4, <3>5 DEF RowUpToDate
  <2>5. CASE ~Busy(i, o)
    <3>1. \A j \in Indexers : Busy(j, o)' <=> Busy(j, o)
      BY <2>1, <2>5 DEF Busy
    <3>2. \A j \in Indexers : Busy(j, o) => index'[j] = index[j]
      BY <2>1, <2>5
    <3> QED
      BY <1>1, <2>1, <2>2, <2>3, <2>5, <3>1, <3>2 DEF UpToDate
  <2> QED
    BY <2>4, <2>5
<1> QED
  BY <1>0, <1>3, <1>4, <1>5, <1>6, ListenerStep

LEMMA InitUpToDate == SysInit => UpToDate
<1> SUFFICES ASSUME SysInit, NEW o \in Unrevoked \ clobbered
             PROVE  RowUpToDate(o) /\ \A i \in Indexers : ~Busy(i, o)
  BY DEF UpToDate
<1>1. o \in Orders
  BY DEF Unrevoked
<1>2. taken[IndexGroup] = {}
  BY DEF SysInit, Groups, IndexGroup
<1> QED
  BY <1>1, <1>2 DEF SysInit, RowUpToDate, TakenWithin, Busy

\* A row that shows fewer than all events has a message not taken yet: the one
\* of the last event.
LEMMA AllTakenAllShown ==
    ASSUME SysInv, UpToDate, NEW o \in Unrevoked \ clobbered,
           log[o] # <<>>, Indexed(o)
    PROVE  GetOrder(o) \in ListOrders
<1>1. /\ o \in Orders /\ log[o] \in Seq(Row) /\ Len(log[o]) \in Nat \ {0}
      /\ InOrder(o)
  <2>1. o \in Orders /\ log[o] \in Seq(Row) /\ InOrder(o)
    BY DEF SysInv, TypeInv, TypeOK, Serial, Unrevoked
  <2> QED
    BY <2>1, LenProperties
<1>2. PICK m \in taken[IndexGroup] : m.order = o /\ m.id = log[o][Len(log[o])].id
  <2>1. Len(log[o]) \in 1..Len(log[o])
    BY <1>1
  <2> QED
    BY <2>1 DEF Indexed, IndexGroup
<1>3. RowUpToDate(o)
  BY DEF UpToDate, Indexed
<1>4. ~TakenWithin(o, 0)
  BY <1>2 DEF TakenWithin
<1>5. PICK n \in 1..Len(log[o]) : table[o] = PrefixRow(o, n) /\ TakenWithin(o, n)
  BY <1>3, <1>4 DEF RowUpToDate
<1>6. PICK k \in 1..n : log[o][k].id = log[o][Len(log[o])].id
  BY <1>2, <1>5 DEF TakenWithin
<1>7. n = Len(log[o])
  <2>1. \A i \in 1..Len(log[o]) : log[o][i].id \in Nat
    <3>1. \A i \in 1..Len(log[o]) : log[o][i] \in Row
      BY <1>1, ElementOfSeq
    <3>2. \A row \in Row : row.id \in Nat
      BY DEF Row
    <3> QED
      BY <3>1, <3>2
  <2>2. \A i \in 1..(Len(log[o]) - 1) : log[o][i].id < log[o][Len(log[o])].id
    <3>1. Len(log[o]) \in 1..Len(log[o])
      BY <1>1
    <3>2. \A j \in 1..Len(log[o]) : \A i \in 1..(j - 1) : log[o][i].id < log[o][j].id
      BY <1>1, Zenon DEF InOrder
    <3> QED
      BY <3>1, <3>2, Zenon
  <2>3. k \notin 1..(Len(log[o]) - 1)
    <3>1. \A x \in Nat : ~ (x < x)
      OBVIOUS
    <3>2. Len(log[o]) \in 1..Len(log[o])
      BY <1>1
    <3> QED
      BY <1>6, <2>1, <2>2, <3>1, <3>2
  <2> QED
    BY <1>1, <1>5, <1>6, <2>3
<1>8. SubSeq(log[o], 1, n) = log[o]
  BY <1>1, <1>7, LenProperties
<1>9. table[o] = StatusesOf(log[o]) /\ table[o] # NoRow
  BY <1>1, <1>5, <1>8, StatusesTyped DEF PrefixRow
<1> QED
  BY <1>1, <1>9 DEF GetOrder, ListOrders

\* When every message of an unrevoked order was indexed, in whatever order they
\* came, the listing shows what GetOrder does, provided that the order's runs
\* of the indexer did not overlap, fail or read too little.
THEOREM TableShowsThePresent == SysSpec => []CaughtUp
<1>1. SysInit => UpToDate
  BY InitUpToDate
<1>2. SysInv /\ UpToDate /\ [SysNext]_sysVars => UpToDate'
  BY NextUpToDate
<1>3. SysInv /\ UpToDate => CaughtUp
  BY AllTakenAllShown DEF CaughtUp
<1> QED
  BY <1>1, <1>2, <1>3, SysInductive, PTL DEF SysSpec

-----------------------------------------------------------------------------
(* The listing does not go back *)

PrefixProjection(o, n) == ProjectionOf(SubSeq(log[o], 1, n))

\* Statuses r are those of the order at the time of s, or later.
NotBehind(s, r) ==
    /\ MapStrToPaymentStatus(r.payment) >= MapStrToPaymentStatus(s.payment)
    /\ s.shipping # "cancelled" =>
           MapStrToShippingStatus(r.shipping) >= MapStrToShippingStatus(s.shipping)

\* A longer prefix of a log without deletions is not behind a shorter one.
PrefixesForward ==
    \A o \in Unrevoked : \A n \in 1..Len(log[o]) :
        /\ PrefixProjection(o, n) \in Unpaid \cup Paid
        /\ \A k \in 1..n : NotBehind(PrefixProjection(o, k), PrefixProjection(o, n))

\* A run of the indexer that is under way is not behind the row it replaces.
RunsForward ==
    \A o \in Unrevoked \ clobbered : \A i \in Indexers :
        Busy(i, o) /\ table[o] # NoRow =>
            \E n \in 1..Len(log[o]) : \E k \in 1..n :
                table[o] = PrefixRow(o, k) /\ index[i].row = PrefixRow(o, n)

LEMMA PaymentRanks ==
    ASSUME NEW status
    PROVE  /\ status = "pending" => MapStrToPaymentStatus(status) = 1
           /\ status = "initiated" => MapStrToPaymentStatus(status) = 2
           /\ status = "paid" => MapStrToPaymentStatus(status) = 3
BY DEF MapStrToPaymentStatus

LEMMA RanksAreNumbers ==
    ASSUME NEW status
    PROVE  MapStrToPaymentStatus(status) \in Nat /\ MapStrToShippingStatus(status) \in Nat
BY DEF MapStrToPaymentStatus, MapStrToShippingStatus

LEMMA NotBehindItself ==
    ASSUME NEW s
    PROVE  NotBehind(s, s)
BY RanksAreNumbers DEF NotBehind

\* A cancellation followed by a payment is no way back: only an unpaid order
\* leaves the cancelled status, and does so to one beyond all that it had.
LEMMA MoveNotBehind ==
    ASSUME NEW s \in Unpaid \cup Paid, NEW p \in Unpaid \cup Paid,
           NEW q \in Unpaid \cup Paid, NotBehind(s, p), Moved(p, q)
    PROVE  NotBehind(s, q)
<1> DEFINE pay(x) == MapStrToPaymentStatus(x.payment)
           ship(x) == MapStrToShippingStatus(x.shipping)
<1>1. ASSUME NEW x \in Unpaid \cup Paid
      PROVE  /\ \/ /\ x.payment = "pending" /\ pay(x) = 1
                   /\ x.shipping \in {"waiting_for_payment", "cancelled"}
                \/ /\ x.payment = "initiated" /\ pay(x) = 2
                   /\ x.shipping \in {"waiting_for_payment", "cancelled"}
                \/ /\ x.payment = "paid" /\ pay(x) = 3
                   /\ x.shipping \in {"waiting_for_shipment", "in_transit",
                                      "delivered", "cancelled"}
             /\ x.shipping = "waiting_for_payment" => ship(x) = 1
             /\ x.shipping = "waiting_for_shipment" => ship(x) = 2
             /\ x.shipping = "in_transit" => ship(x) = 3
             /\ x.shipping = "delivered" => ship(x) = 4
             /\ x.shipping = "cancelled" => ship(x) = 5
  <2>1. \/ /\ x.payment \in {"pending", "initiated"}
           /\ x.shipping \in {"waiting_for_payment", "cancelled"}
        \/ /\ x.payment = "paid"
           /\ x.shipping \in {"waiting_for_shipment", "in_transit",
                              "delivered", "cancelled"}
    BY DEF Unpaid, Paid
  <2>2. /\ x.payment = "pending" => pay(x) = 1
        /\ x.payment = "initiated" => pay(x) = 2
        /\ x.payment = "paid" => pay(x) = 3
    BY PaymentRanks
  <2>3. /\ x.shipping = "waiting_for_payment" => ship(x) = 1
        /\ x.shipping = "waiting_for_shipment" => ship(x) = 2
        /\ x.shipping = "in_transit" => ship(x) = 3
        /\ x.shipping = "delivered" => ship(x) = 4
        /\ x.shipping = "cancelled" => ship(x) = 5
    BY Ranks
  <2> HIDE DEF pay, ship
  <2> QED
    BY <2>1, <2>2, <2>3
<1>2. /\ pay(p) >= pay(s)
      /\ s.shipping # "cancelled" => ship(p) >= ship(s)
  BY DEF NotBehind
<1> HIDE DEF pay, ship
<1>3. pay(q) >= pay(s) /\ (s.shipping # "cancelled" => ship(q) >= ship(s))
  <2>1. CASE /\ p.payment = "pending" /\ q.payment = "initiated"
             /\ q.shipping = p.shipping
    BY <1>1, <1>2, <2>1
  <2>2. CASE /\ p.payment = "initiated" /\ q.payment = "paid"
             /\ q.shipping = "waiting_for_shipment"
    BY <1>1, <1>2, <2>2
  <2>3. CASE /\ p.payment = "paid" /\ q.payment = "paid"
             /\ q.shipping = p.shipping \/ GoesOnward(p.shipping, q.shipping)
    BY <1>1, <1>2, <2>3 DEF GoesOnward
  <2>4. CASE /\ p.shipping \notin {"", "delivered", "cancelled"}
             /\ q.payment = p.payment /\ q.shipping = "cancelled"
    <3>1. pay(q) = pay(p)
      BY <2>4 DEF pay
    <3>2. q.shipping = "cancelled" => ship(q) = 5
      BY <1>1
    <3>3. s.shipping # "cancelled" => ship(s) \in 1..4
      BY <1>1
    <3>4. ship(q) = 5
      BY <2>4, <3>2
    <3>5. s.shipping # "cancelled" => ship(q) >= ship(s)
      BY <3>3, <3>4
    <3> QED
      BY <1>2, <3>1, <3>5
  <2> QED
    BY <2>1, <2>2, <2>3, <2>4 DEF Moved
<1> QED
  BY <1>3 DEF NotBehind, pay, ship

LEMMA NextPrefixes ==
    ASSUME TypeInv, Serial, Charges, PrefixesForward, [Next]_vars
    PROVE  PrefixesForward'
<1> SUFFICES ASSUME NEW o \in Unrevoked', NEW n \in 1..Len(log'[o])
             PROVE  /\ PrefixProjection(o, n)' \in Unpaid \cup Paid
                    /\ \A k \in 1..n :
                         NotBehind(PrefixProjection(o, k)', PrefixProjection(o, n)')
  BY DEF PrefixesForward, NotBehind
<1>1. /\ o \in Orders /\ o \in Unrevoked
      /\ Len(log[o]) \in Nat /\ Len(log'[o]) \in Nat
      /\ \A i \in 1..Len(log[o]) : log'[o][i] = log[o][i]
  BY LogGrows
<1>2. log[o] \in Seq(Row) /\ log'[o] \in Seq(Row)
  BY <1>1, NextTypeInv DEF TypeInv, TypeOK
<1>3. \A i \in 1..Len(log[o]) : PrefixProjection(o, i)' = PrefixProjection(o, i)
  <2>1. \A i \in 1..Len(log[o]) : SubSeq(log'[o], 1, i) = SubSeq(log[o], 1, i)
    <3>1. Len(log[o]) <= Len(log'[o])
      BY LogGrows
    <3> QED
      BY <1>1, <1>2, <3>1, LenProperties
  <2> QED
    BY <2>1 DEF PrefixProjection
<1>4. CASE n \in 1..Len(log[o])
  <2>1. \A k \in 1..n : k \in 1..Len(log[o])
    BY <1>1, <1>4
  <2> QED
    BY <1>1, <1>3, <1>4, <2>1 DEF PrefixesForward
<1>5. CASE n \notin 1..Len(log[o])
  <2>1. log'[o] # log[o]
    BY <1>5
  <2>2. PICK a \in Actors : CommitRow(a) /\ job[a].order = o
    BY <2>1, UnrevokedStep
  <2> DEFINE event == job[a].row.event
             p == ProjectionOf(log[o])
             q == ProjectionOf(log'[o])
  <2>3. /\ event \in Event
        /\ q = ApplyEvent(p, event)
        /\ log[o] # <<>> => Validate(p, event)
        /\ Len(log'[o]) = Len(log[o]) + 1
        /\ log'[o] # <<>>
    BY <1>1, <2>2, CommitProjection
  <2>4. n = Len(log'[o]) /\ PrefixProjection(o, n)' = q
    <3>1. n = Len(log'[o])
      BY <1>1, <1>5, <2>3
    <3>2. SubSeq(log'[o], 1, n) = log'[o]
      BY <1>1, <1>2, <3>1, LenProperties
    <3> QED
      BY <3>1, <3>2 DEF PrefixProjection
  <2>5. q \in Unpaid \cup Paid
    BY <2>3, NextCharges DEF Charges
  <2> HIDE DEF event, q
  <2>6. ASSUME NEW k \in 1..n PROVE NotBehind(PrefixProjection(o, k)', q)
    <3>1. CASE k = n
      BY <2>4, <3>1, NotBehindItself
    <3>2. CASE k # n
      <4>1. /\ k \in 1..Len(log[o]) /\ log[o] # <<>>
            /\ Len(log[o]) \in 1..Len(log[o])
        BY <1>1, <2>3, <2>4, <3>2
      <4>2. PrefixProjection(o, Len(log[o])) = p
        <5>1. SubSeq(log[o], 1, Len(log[o])) = log[o]
          BY <1>1, <1>2, LenProperties
        <5> QED
          BY <5>1 DEF PrefixProjection
      <4> HIDE DEF p
      <4>3. /\ p \in Unpaid \cup Paid
            /\ PrefixProjection(o, k) \in Unpaid \cup Paid
            /\ NotBehind(PrefixProjection(o, k), p)
        BY <1>1, <4>1, <4>2 DEF PrefixesForward
      <4>4. Moved(p, q)
        BY <2>3, <4>1, <4>3, AcceptedMove
      <4>5. NotBehind(PrefixProjection(o, k), q)
        BY <2>5, <4>3, <4>4, MoveNotBehind
      <4> QED
        BY <1>3, <4>1, <4>5
    <3> QED
      BY <3>1, <3>2
  <2> QED
    BY <2>4, <2>5, <2>6
<1> QED
  BY <1>4, <1>5

\* A run that reads the whole log is not behind the row in the table.
LEMMA NextRuns ==
    ASSUME SysInv, UpToDate, RowsArePrefixes, RunsForward, [SysNext]_sysVars
    PROVE  RunsForward'
<1>0. /\ TypeInv /\ TypeOK /\ Serial /\ ListenersOK
      /\ [Next]_vars
  BY SysStep DEF SysInv, TypeInv
<1> SUFFICES ASSUME NEW o \in Unrevoked', o \notin clobbered', NEW i \in Indexers,
                    Busy(i, o)', table'[o] # NoRow
             PROVE  \E n \in 1..Len(log'[o]) : \E k \in 1..n :
                      table'[o] = PrefixRow(o, k)' /\ index'[i].row = PrefixRow(o, n)'
  BY DEF RunsForward
<1>1. o \in Orders /\ o \in Unrevoked
  BY <1>0, LogGrows
<1>2. ASSUME o \notin clobbered, table'[o] = table[o], Busy(i, o),
             index'[i] = index[i]
      PROVE  \E n \in 1..Len(log'[o]) : \E k \in 1..n :
               table'[o] = PrefixRow(o, k)' /\ index'[i].row = PrefixRow(o, n)'
  <2>1. PICK n \in 1..Len(log[o]) : \E k \in 1..n :
          table[o] = PrefixRow(o, k) /\ index[i].row = PrefixRow(o, n)
    BY <1>1, <1>2 DEF RunsForward
  <2>2. PICK k \in 1..n : table[o] = PrefixRow(o, k) /\ index[i].row = PrefixRow(o, n)
    BY <2>1
  <2>3. Len(log[o]) \in Nat /\ k \in 1..Len(log[o])
    <3>1. Len(log[o]) \in Nat
      BY <1>0, LogGrows
    <3> QED
      BY <3>1
  <2>4. n \in 1..Len(log'[o])
    BY <1>0, LogGrows
  <2>5. PrefixRow(o, n)' = PrefixRow(o, n) /\ PrefixRow(o, k)' = PrefixRow(o, k)
    BY <1>0, <2>3, LogGrows
  <2> QED
    BY <1>2, <2>2, <2>4, <2>5
<1>3. CASE UNCHANGED <<table, index, clobbered>>
  BY <1>2, <1>3 DEF Busy
<1>4. ASSUME NEW j \in Indexers, NEW m \in topic, IndexRead(j, m)
      PROVE  \E n \in 1..Len(log'[o]) : \E k \in 1..n :
               table'[o] = PrefixRow(o, k)' /\ index'[i].row = PrefixRow(o, n)'
  <2>1. PICK n \in 0..Len(log[m.order]) :
          /\ IndexRows(j, m, SubSeq(log[m.order], 1, n))
          /\ \/ n = 0 /\ UNCHANGED index
             \/ n > 0 /\ IndexTo(j, m, SubSeq(log[m.order], 1, n))
    BY <1>0, <1>4, ReadPrefix
  <2>2. UNCHANGED <<table, log>> /\ o \notin clobbered
    BY <2>1 DEF IndexRows, vars
  <2>3. CASE UNCHANGED index
    BY <1>2, <2>2, <2>3 DEF Busy
  <2>4. CASE n > 0 /\ IndexTo(j, m, SubSeq(log[m.order], 1, n))
    <3>1. /\ \A x \in Indexers \ {j} : index'[x] = index[x]
          /\ index'[j].order = m.order
          /\ index'[j].row = StatusesOf(SubSeq(log[m.order], 1, n))
      BY <1>0, <2>4, ReadJob
    <3>2. CASE i # j
      BY <1>2, <2>2, <3>1, <3>2 DEF Busy
    <3>3. CASE i = j
      <4>1. m.order = o
        BY <3>1, <3>3 DEF Busy
      <4>2. SubSeq(log[o], 1, n) = log[o]
        BY <1>0, <1>1, <2>1, <4>1 DEF IndexRows, ListenersOK
      <4>3. log[o] \in Seq(Row) /\ Len(log[o]) \in Nat
        BY <1>0, <1>1, LenProperties DEF TypeOK
      <4>4. n = Len(log[o]) /\ n \in 1..Len(log[o])
        <5>1. Len(SubSeq(log[o], 1, n)) = n
          BY <2>1, <4>1, <4>3, LenProperties
        <5> QED
          BY <2>4, <4>2, <4>3, <5>1
      <4>5. PICK k \in 1..Len(log[o]) : table[o] = PrefixRow(o, k)
        BY <1>1, <2>2 DEF RowsArePrefixes, IsPrefixRow
      <4>6. index'[i].row = PrefixRow(o, n)
        BY <3>1, <3>3, <4>1 DEF PrefixRow
      <4>7. \A x : PrefixRow(o, x)' = PrefixRow(o, x)
        BY <2>2 DEF PrefixRow, StatusesOf, ProjectionOf
      <4>8. k \in 1..n /\ n \in 1..Len(log'[o])
        BY <2>2, <4>4
      <4> QED
        BY <2>2, <4>5, <4>6, <4>7, <4>8
    <3> QED
      BY <3>2, <3>3
  <2> QED
    BY <2>1, <2>3, <2>4
<1>5. ASSUME NEW j \in Indexers, IndexUpsert(j) \/ IndexFails(j)
      PROVE  \E n \in 1..Len(log'[o]) : \E k \in 1..n :
               table'[o] = PrefixRow(o, k)' /\ index'[i].row = PrefixRow(o, n)'
  <2>1. /\ \A x \in Indexers \ {j} : index'[x] = index[x]
        /\ index'[j] = Idle
        /\ ~Busy(j, o) => table'[o] = table[o]
    BY <1>0, <1>1, <1>5, RunEnds
  <2>2. o \notin clobbered
    BY <1>5 DEF IndexUpsert, IndexFails
  <2>3. i # j /\ index'[i] = index[i] /\ Busy(i, o)
    BY <2>1 DEF Busy
  <2>4. ~Busy(j, o)
    BY <1>1, <2>2, <2>3 DEF UpToDate
  <2> QED
    BY <1>2, <2>1, <2>2, <2>3, <2>4
<1> QED
  BY <1>0, <1>3, <1>4, <1>5, ListenerStep

\* Only the end of a run changes a row, and writes what is not behind it.
LEMMA StepForward ==
    ASSUME SysInv, PrefixesForward, RunsForward, [SysNext]_sysVars,
           NEW o \in Unrevoked' \ clobbered', table[o] # NoRow
    PROVE  NotBehind(table[o], table'[o])
<1>0. TypeInv /\ Serial /\ ListenersOK /\ [Next]_vars
  BY SysStep DEF SysInv, TypeInv
<1>1. o \in Orders /\ o \in Unrevoked
  BY <1>0, LogGrows
<1>2. CASE table'[o] = table[o]
  BY <1>2, NotBehindItself
<1>3. CASE table'[o] # table[o]
  <2>1. PICK i \in Indexers : IndexUpsert(i) \/ IndexFails(i)
    <3>1. ASSUME NEW i \in Indexers, NEW m \in topic, IndexRead(i, m)
          PROVE  UNCHANGED table
      BY <3>1 DEF IndexRead, IndexRows
    <3> QED
      BY <1>0, <1>3, <3>1, ListenerStep
  <2>2. Busy(i, o) /\ table'[o] = index[i].row
    BY <1>0, <1>1, <1>3, <2>1, RunEnds
  <2>3. o \notin clobbered
    BY <2>1 DEF IndexUpsert, IndexFails
  <2>4. PICK n \in 1..Len(log[o]) : \E k \in 1..n :
          table[o] = PrefixRow(o, k) /\ index[i].row = PrefixRow(o, n)
    BY <1>1, <2>2, <2>3 DEF RunsForward
  <2>5. PICK k \in 1..n : table[o] = PrefixRow(o, k) /\ index[i].row = PrefixRow(o, n)
    BY <2>4
  <2>6. NotBehind(PrefixProjection(o, k), PrefixProjection(o, n))
    BY <1>1 DEF PrefixesForward
  <2> QED
    BY <2>2, <2>5, <2>6 DEF NotBehind, PrefixRow, PrefixProjection, StatusesOf
<1> QED
  BY <1>2, <1>3

\* As long as the runs of an unrevoked order neither fail nor overlap, the
\* listing never takes back a payment status it showed, nor a shipping status
\* except that of a cancelled order, although upserts compare no versions.
THEOREM ListingNeverGoesBack == SysSpec => ListingForward
<1> DEFINE Forward ==
        \A o \in Unrevoked' \ clobbered' : table[o] # NoRow =>
            NotBehind(table[o], table'[o])
           Inv == SysInv /\ Charges /\ UpToDate /\ RowsArePrefixes
                         /\ PrefixesForward /\ RunsForward
<1>1. SysInit => Inv
  <2> SUFFICES ASSUME SysInit PROVE Inv
    OBVIOUS
  <2>1. SysInv
    BY InitTypeInv, InitSerial, InitDurable, InitListeners DEF SysInit, SysInv
  <2>2. \A i \in Indexers : \A o : ~Busy(i, o)
    BY DEF SysInit, Busy
  <2>3. RowsArePrefixes /\ RunsForward
    BY <2>2 DEF SysInit, RowsArePrefixes, RunsForward, Unrevoked
  <2>4. PrefixesForward
    BY DEF SysInit, Init, PrefixesForward, Unrevoked
  <2> QED
    BY <2>1, <2>3, <2>4, InitUpToDate, InitCharges DEF SysInit
<1>2. Inv /\ [SysNext]_sysVars => Inv'
  <2> SUFFICES ASSUME Inv, [SysNext]_sysVars PROVE Inv'
    OBVIOUS
  <2>1. [Next]_vars /\ TypeInv /\ Serial
    BY SysStep DEF SysInv, TypeInv
  <2>2. SysInv'
    BY <2>1, NextTypeInv, NextSerial, NextDurable, NextListeners DEF SysInv
  <2> QED
    BY <2>1, <2>2, NextCharges, NextUpToDate, NextRows, NextPrefixes, NextRuns
<1>3. Inv /\ [SysNext]_sysVars => Forward
  BY StepForward
<1>4. Forward => [\A o \in Unrevoked' \ clobbered' : table[o] # NoRow =>
         LET old == table[o]
             new == table'[o]
         IN  /\ MapStrToPaymentStatus(new.payment) >= MapStrToPaymentStatus(old.payment)
             /\ old.shipping # "cancelled" =>
                  MapStrToShippingStatus(new.shipping)
                      >= MapStrToShippingStatus(old.shipping)]_sysVars
  BY DEF NotBehind
<1> QED
  BY <1>1, <1>2, <1>3, <1>4, PTL DEF SysSpec, ListingForward

-----------------------------------------------------------------------------
(* Composition *)

\* Seen without its listeners, the composed system is the write path: whatever
\* is proved of Spec holds with payment consumers that are handed late and
\* redelivered messages and with indexers that read the order meanwhile.
THEOREM SystemImplementsCommands == SysSpec => Spec
<1>1. SysInit => Init
  BY DEF SysInit
<1>2. SysInv /\ [SysNext]_sysVars => [Next]_vars
  BY SysStep DEF SysInv, TypeInv
<1> QED
  BY <1>1, <1>2, SysInductive, PTL DEF SysSpec, Spec

\* So the promises of the write path hold of the whole system: its commands are
\* atomic, its orders live by the status machine, what it acknowledged stays,
\* no message is seen before its event, nobody pays twice, keys are unique.
THEOREM SystemKeepsPromises ==
    SysSpec => /\ AtomicCommands /\ StatusMachine
               /\ []AckedDurable /\ []CommittedBeforeBus
               /\ []ChargedOnce /\ []KeysUnique
BY SystemImplementsCommands, WritePathImplementsHistory,
   OrdersLiveByStatusMachine, AcknowledgedEventsStay, NoMessageBeforeCommit,
   PaidAtMostOnce, EventKeysAreUnique, PTL
=============================================================================
