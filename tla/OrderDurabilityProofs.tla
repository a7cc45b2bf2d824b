----------------------- MODULE OrderDurabilityProofs -----------------------
(***************************************************************************)
(* A command that reported success stays recorded and published, no message *)
(* precedes its event, and the table's keys are unique: AckedDurable,       *)
(* CommittedBeforeBus and KeysUnique.                                       *)
(*                                                                         *)
(* The compensation of a failed Send deletes by event id.  It cannot hit an *)
(* acknowledged event because the ids that running Sends hold are their own *)
(* (OwnIds), and it finds its row because nobody else deletes it            *)
(* (HeldStored).                                                            *)
(***************************************************************************)
EXTENDS OrderCommandsProofs

HasId(a) == job[a].pc \in {"commit", "publish", "remove"}

OwnIds ==
    /\ \A id \in acked : id < nextId
    /\ \A a \in Actors : HasId(a) => job[a].row.id \notin acked
    /\ \A a, b \in Actors :
         HasId(a) /\ HasId(b) /\ a # b => job[a].row.id # job[b].row.id

HeldStored ==
    \A a \in Actors : job[a].pc \in {"publish", "remove"} =>
        job[a].row.id \in StoredIds(job[a].order)

Durable == OwnIds /\ HeldStored /\ AckedDurable /\ CommittedBeforeBus

-----------------------------------------------------------------------------
(* What a step does to the stored ids *)

LEMMA CommitStoredIds ==
    ASSUME TypeOK, NEW a \in Actors, CommitRow(a),
           NEW o, o = job[a].order, NEW row, row = job[a].row
    PROVE  /\ \A p \in Orders : StoredIds(p) \subseteq StoredIds(p)'
           /\ row.id \in StoredIds(o)'
<1>1. PICK k \in 1..(Len(log[o]) + 1) : RowInserted(o, row, k)
  BY CommitRowProperties
<1>2. o \in Orders /\ Len(log[o]) \in Nat
  BY CommitRowProperties
<1>3. k \in 1..Len(log'[o]) /\ log'[o][k] = row
  BY <1>1, <1>2 DEF RowInserted
<1>4. row.id \in StoredIds(o)'
  BY <1>3 DEF StoredIds
<1>5. ASSUME NEW p \in Orders, NEW n \in 1..Len(log[p])
      PROVE  \E i \in 1..Len(log'[p]) : log'[p][i].id = log[p][n].id
  <2>1. CASE p # o
    BY <1>1, <2>1 DEF RowInserted
  <2>2. CASE p = o /\ n < k
    <3>1. n \in 1..(k - 1) /\ n \in 1..Len(log'[o])
      BY <1>1, <1>2, <2>2 DEF RowInserted
    <3> QED
      BY <1>1, <2>2, <3>1 DEF RowInserted
  <2>3. CASE p = o /\ n >= k
    <3>1. n + 1 \in (k + 1)..(Len(log[o]) + 1) /\ n + 1 \in 1..Len(log'[o])
      BY <1>1, <1>2, <2>3 DEF RowInserted
    <3>2. log'[o][n + 1] = log[o][(n + 1) - 1] /\ (n + 1) - 1 = n
      BY <1>1, <1>2, <2>3, <3>1 DEF RowInserted
    <3> QED
      BY <2>3, <3>1, <3>2
  <2> QED
    BY <1>2, <2>1, <2>2, <2>3
<1>6. \A p \in Orders : StoredIds(p) \subseteq StoredIds(p)'
  <2> SUFFICES ASSUME NEW p \in Orders, NEW x \in StoredIds(p)
               PROVE  x \in StoredIds(p)'
    OBVIOUS
  <2>1. PICK n \in 1..Len(log[p]) : x = log[p][n].id
    BY DEF StoredIds
  <2>2. PICK i \in 1..Len(log'[p]) : log'[p][i].id = x
    BY <1>5, <2>1
  <2> QED
    BY <2>2 DEF StoredIds
<1> QED
  BY <1>4, <1>6

LEMMA RemoveStoredIds ==
    ASSUME TypeOK, NEW a \in Actors, RemoveEvent(a),
           NEW o, o = job[a].order, NEW id, id = job[a].row.id
    PROVE  \A p \in Orders : StoredIds(p) \ {id} \subseteq StoredIds(p)'
<1>1. PICK k \in 1..Len(log[o]) : log[o][k].id = id /\ RowDeleted(o, k)
  BY RemoveEventProperties
<1>2. o \in Orders /\ Len(log[o]) \in Nat
  BY RemoveEventProperties
<1>3. ASSUME NEW n \in 1..Len(log[o]), log[o][n].id # id
      PROVE  \E i \in 1..Len(log'[o]) : log'[o][i].id = log[o][n].id
  <2>1. n # k
    BY <1>1, <1>3
  <2>2. CASE n < k
    <3>1. n \in 1..(Len(log[o]) - 1) /\ n \in 1..Len(log'[o])
      BY <1>1, <1>2, <2>2 DEF RowDeleted
    <3>2. log'[o][n] = log[o][n]
      BY <1>1, <2>2, <3>1 DEF RowDeleted
    <3> QED
      BY <3>1, <3>2
  <2>3. CASE n > k
    <3>1. /\ n - 1 \in 1..(Len(log[o]) - 1) /\ n - 1 \in 1..Len(log'[o])
          /\ ~(n - 1 < k) /\ (n - 1) + 1 = n
      BY <1>1, <1>2, <2>3 DEF RowDeleted
    <3>2. log'[o][n - 1] = log[o][(n - 1) + 1]
      BY <1>1, <3>1 DEF RowDeleted
    <3> QED
      BY <3>1, <3>2
  <2> QED
    BY <1>2, <2>1, <2>2, <2>3
<1>4. StoredIds(o) \ {id} \subseteq StoredIds(o)'
  <2> SUFFICES ASSUME NEW x \in StoredIds(o), x # id
               PROVE  x \in StoredIds(o)'
    OBVIOUS
  <2>1. PICK n \in 1..Len(log[o]) : x = log[o][n].id
    BY DEF StoredIds
  <2>2. PICK i \in 1..Len(log'[o]) : log'[o][i].id = x
    BY <1>3, <2>1
  <2> QED
    BY <2>2 DEF StoredIds
<1>5. \A p \in Orders : p # o => StoredIds(p)' = StoredIds(p)
  BY <1>1 DEF RowDeleted, StoredIds
<1> QED
  BY <1>4, <1>5

-----------------------------------------------------------------------------
(* The invariant is inductive *)

\* Steps that touch neither the store, the topic nor the acknowledgements, and
\* leave the actor without a row to hold: the commands, refused inserts,
\* failures and crashes.
LEMMA QuietStep ==
    ASSUME TypeOK, Durable, NEW a \in Actors, NEW j,
           job' = [job EXCEPT ![a] = j],
           j.pc \notin {"commit", "publish", "remove"},
           UNCHANGED <<log, nextId, topic, acked, removed>>,
           \/ inflight' = inflight
           \/ /\ job[a].pc = "publish"
              /\ inflight' = inflight \cup {MessageOf(job[a])}
    PROVE  Durable'
<1>1. \A b \in Actors : job'[b] = IF b = a THEN j ELSE job[b]
  BY DEF TypeOK
<1>2. \A p : StoredIds(p)' = StoredIds(p)
  BY DEF StoredIds
<1>3. OwnIds'
  BY <1>1 DEF Durable, OwnIds, HasId
<1>4. HeldStored'
  BY <1>1, <1>2 DEF Durable, HeldStored
<1>5. AckedDurable'
  BY <1>2 DEF Durable, AckedDurable
<1>6. CommittedBeforeBus'
  <2>1. ASSUME job[a].pc = "publish"
        PROVE  MessageOf(job[a]).id \in StoredIds(MessageOf(job[a]).order)
    BY <2>1 DEF Durable, HeldStored, MessageOf
  <2> QED
    BY <1>2, <2>1 DEF Durable, CommittedBeforeBus
<1> QED
  BY <1>3, <1>4, <1>5, <1>6 DEF Durable

LEMMA InsertDurable ==
    ASSUME TypeInv, Durable, NEW a \in Actors, Insert(a)
    PROVE  Durable'
<1>1. /\ job[a] \in Send /\ job[a].pc = "insert"
      /\ nextId \in Nat /\ nextId' = nextId + 1
  BY ActiveSend DEF TypeInv, TypeOK, Insert
<1>2. /\ \A b \in Actors : b # a => job'[b] = job[b]
      /\ job'[a].pc = "commit" /\ job'[a].row.id = nextId
  BY <1>1 DEF TypeInv, TypeOK, Insert, Send, Row
<1>3. \A p : StoredIds(p)' = StoredIds(p)
  BY DEF StoredIds, Insert
<1>4. \A b \in Actors : HasId(b) => job[b].row.id < nextId /\ job[b].row.id \in Nat
  BY ActiveSend DEF TypeInv, IdBounds, HasId, Row
<1>5. OwnIds'
  <2>1. \A id \in acked : id \in Nat /\ id < nextId
    BY DEF Durable, OwnIds, TypeInv, TypeOK
  <2>2. \A id \in acked' : id < nextId'
    BY <1>1, <2>1 DEF Insert
  <2>3. \A b \in Actors : HasId(b)' => job'[b].row.id \notin acked'
    <3>1. acked' = acked /\ nextId \notin acked
      BY <1>1, <2>1 DEF Insert
    <3>2. \A b \in Actors : HasId(b) => job[b].row.id \notin acked
      BY DEF Durable, OwnIds
    <3> QED
      BY <1>2, <3>1, <3>2 DEF HasId
  <2>4. \A b, c \in Actors : HasId(b)' /\ HasId(c)' /\ b # c =>
           job'[b].row.id # job'[c].row.id
    BY <1>1, <1>2, <1>4 DEF Durable, OwnIds, HasId
  <2> QED
    BY <2>2, <2>3, <2>4 DEF OwnIds
<1>6. HeldStored'
  BY <1>2, <1>3 DEF Durable, HeldStored
<1>7. AckedDurable' /\ CommittedBeforeBus'
  BY <1>3 DEF Durable, AckedDurable, CommittedBeforeBus, Insert
<1> QED
  BY <1>5, <1>6, <1>7 DEF Durable

LEMMA CommitDurable ==
    ASSUME TypeInv, Durable, NEW a \in Actors, Commit(a) \/ CommitUnknown(a)
    PROVE  Durable'
<1> DEFINE o == job[a].order
           row == job[a].row
<1>1. /\ CommitRow(a) /\ job[a] \in Send /\ job[a].pc = "commit"
      /\ UNCHANGED <<nextId, topic, inflight, acked, removed>>
  BY ActiveSend DEF TypeInv, Commit, CommitUnknown, CommitRow
<1>2. /\ \A p \in Orders : StoredIds(p) \subseteq StoredIds(p)'
      /\ \A p : p = o => row.id \in StoredIds(p)'
  BY <1>1, CommitStoredIds DEF TypeInv
<1>3. /\ \A b \in Actors : b # a => job'[b] = job[b]
      /\ job'[a] = Idle \/ (job'[a].row = row /\ job'[a].order = o)
  BY <1>1 DEF TypeInv, TypeOK, Commit, CommitUnknown, Send
<1>4. OwnIds'
  <2>1. \A b \in Actors : HasId(b)' => HasId(b) /\ job'[b].row.id = job[b].row.id
    BY <1>1, <1>3 DEF HasId, Idle
  <2> QED
    BY <1>1, <2>1 DEF Durable, OwnIds
<1>5. HeldStored'
  <2>1. \A b \in Actors : b # a /\ job[b].pc \in {"publish", "remove"} =>
           job[b].order \in Orders /\ job[b].row.id \in StoredIds(job[b].order)
    BY ActiveSend DEF TypeInv, Durable, HeldStored
  <2>2. \A b \in Actors : \A p : b # a /\ job[b].pc \in {"publish", "remove"}
              /\ p = job[b].order => job[b].row.id \in StoredIds(p)'
    BY <1>2, <2>1
  <2> QED
    BY <1>2, <1>3, <2>2 DEF HeldStored, Idle
<1>6. AckedDurable'
  BY <1>1, <1>2 DEF Durable, AckedDurable, TypeInv, TypeOK, Message
<1>7. CommittedBeforeBus'
  BY <1>1, <1>2 DEF Durable, CommittedBeforeBus, TypeInv, TypeOK, Message
<1> QED
  BY <1>4, <1>5, <1>6, <1>7 DEF Durable

LEMMA PublishDurable ==
    ASSUME TypeInv, Durable, NEW a \in Actors, Publish(a)
    PROVE  Durable'
<1> DEFINE m == MessageOf(job[a])
<1>1. /\ job[a].pc = "publish" /\ job[a].row.id \in Nat
      /\ job[a].row.id < nextId
      /\ m.id = job[a].row.id /\ m.order = job[a].order
      /\ UNCHANGED <<log, nextId, inflight, removed>>
      /\ topic' = topic \cup {m} /\ acked' = acked \cup {job[a].row.id}
  BY ActiveSend DEF TypeInv, IdBounds, Publish, Row, MessageOf
<1>2. \A b \in Actors : job'[b] = IF b = a THEN Idle ELSE job[b]
  BY DEF TypeInv, TypeOK, Publish
<1>3. \A p : StoredIds(p)' = StoredIds(p)
  BY <1>1 DEF StoredIds
<1>4. job[a].row.id \in StoredIds(job[a].order)
  BY <1>1 DEF Durable, HeldStored
<1> HIDE DEF m
<1>5. OwnIds'
  <2>1. \A id \in acked' : id < nextId'
    BY <1>1 DEF Durable, OwnIds
  <2>2. \A b \in Actors : HasId(b)' => b # a /\ HasId(b) /\ job'[b] = job[b]
    BY <1>2 DEF HasId, Idle
  <2>3. HasId(a)
    BY <1>1 DEF HasId
  <2> QED
    BY <1>1, <2>1, <2>2, <2>3 DEF Durable, OwnIds
<1>6. HeldStored'
  BY <1>2, <1>3 DEF Durable, HeldStored, Idle
<1>7. AckedDurable'
  BY <1>1, <1>3, <1>4 DEF Durable, AckedDurable
<1>8. CommittedBeforeBus'
  BY <1>1, <1>3, <1>4 DEF Durable, CommittedBeforeBus
<1> QED
  BY <1>5, <1>6, <1>7, <1>8 DEF Durable

LEMMA PublishFailsDurable ==
    ASSUME TypeInv, Durable, NEW a \in Actors, PublishFails(a)
    PROVE  Durable'
<1> DEFINE m == MessageOf(job[a])
<1>1. /\ job[a].pc = "publish" /\ job[a] \in Send
      /\ m.id = job[a].row.id /\ m.order = job[a].order
      /\ UNCHANGED <<log, nextId, topic, acked, removed>>
      /\ inflight' = inflight \cup {m}
  BY ActiveSend DEF TypeInv, PublishFails, MessageOf
<1>2. /\ \A b \in Actors : b # a => job'[b] = job[b]
      /\ job'[a].pc = "remove" /\ job'[a].row = job[a].row
      /\ job'[a].order = job[a].order
  BY <1>1 DEF TypeInv, TypeOK, PublishFails, Send
<1>3. \A p : StoredIds(p)' = StoredIds(p)
  BY <1>1 DEF StoredIds
<1>4. job[a].row.id \in StoredIds(job[a].order)
  BY <1>1 DEF Durable, HeldStored
<1> HIDE DEF m
<1>5. OwnIds'
  <2>1. \A b \in Actors : HasId(b)' => HasId(b) /\ job'[b].row.id = job[b].row.id
    BY <1>1, <1>2 DEF HasId
  <2> QED
    BY <1>1, <2>1 DEF Durable, OwnIds
<1>6. HeldStored'
  BY <1>1, <1>2, <1>3 DEF Durable, HeldStored
<1>7. AckedDurable'
  BY <1>1, <1>3 DEF Durable, AckedDurable
<1>8. CommittedBeforeBus'
  BY <1>1, <1>3, <1>4 DEF Durable, CommittedBeforeBus
<1> QED
  BY <1>5, <1>6, <1>7, <1>8 DEF Durable

LEMMA RemoveDurable ==
    ASSUME TypeInv, Durable, NEW a \in Actors, RemoveEvent(a)
    PROVE  Durable'
<1> DEFINE o == job[a].order
           id == job[a].row.id
<1>1. /\ job[a].pc = "remove" /\ o \in Orders
      /\ UNCHANGED <<nextId, topic, inflight, acked>>
      /\ removed' = [removed EXCEPT ![o] = @ \cup {id}]
  BY RemoveEventProperties DEF TypeInv, RemoveEvent
<1>2. \A b \in Actors : job'[b] = IF b = a THEN Idle ELSE job[b]
  BY DEF TypeInv, TypeOK, RemoveEvent
<1>3. \A x, p : x = id /\ p \in Orders => StoredIds(p) \ {x} \subseteq StoredIds(p)'
  BY RemoveStoredIds DEF TypeInv
<1>4. \A p \in Orders : removed[p] \subseteq removed'[p]
  BY <1>1 DEF TypeInv, TypeOK
<1>5. HasId(a)
  BY <1>1 DEF HasId
<1>6. OwnIds'
  <2>1. \A b \in Actors : HasId(b)' => b # a /\ HasId(b) /\ job'[b] = job[b]
    BY <1>2 DEF HasId, Idle
  <2> QED
    BY <1>1, <2>1 DEF Durable, OwnIds
<1>7. HeldStored'
  <2>1. \A b \in Actors : b # a /\ job[b].pc \in {"publish", "remove"} =>
           /\ job[b].order \in Orders /\ job[b].row.id # id
           /\ job[b].row.id \in StoredIds(job[b].order)
    BY <1>5, ActiveSend DEF TypeInv, Durable, HeldStored, OwnIds, HasId
  <2>2. \A b \in Actors : \A p : b # a /\ job[b].pc \in {"publish", "remove"}
              /\ p = job[b].order => job[b].row.id \in StoredIds(p)'
    BY <1>3, <2>1
  <2> QED
    BY <1>2, <2>2 DEF HeldStored, Idle
<1>8. AckedDurable'
  <2>1. id \notin acked
    BY <1>5 DEF Durable, OwnIds
  <2> QED
    BY <1>1, <1>3, <2>1 DEF Durable, AckedDurable, TypeInv, TypeOK, Message
<1>9. CommittedBeforeBus'
  <2>1. \A p \in Orders : \A x : x \in StoredIds(p) \cup removed[p]
           /\ p = o => x \in StoredIds(p)' \cup removed'[p]
    BY <1>1, <1>3, <1>4 DEF TypeInv, TypeOK
  <2>2. \A p \in Orders : p # o => StoredIds(p)' = StoredIds(p)
    <3>1. \A p \in Orders : p # o => log'[p] = log[p]
      BY DEF RemoveEvent, TypeInv, TypeOK
    <3> QED
      BY <3>1 DEF StoredIds
  <2> QED
    BY <1>1, <1>4, <2>1, <2>2 DEF Durable, CommittedBeforeBus, TypeInv, TypeOK, Message
<1> QED
  BY <1>6, <1>7, <1>8, <1>9 DEF Durable

LEMMA NextDurable == TypeInv /\ Durable /\ [Next]_vars => Durable'
<1> SUFFICES ASSUME TypeInv, Durable, [Next]_vars PROVE Durable'
  OBVIOUS
<1>0. TypeOK
  BY DEF TypeInv
<1>1. CASE UNCHANGED vars
  BY <1>1 DEF vars, Durable, OwnIds, HasId, HeldStored, AckedDurable,
              CommittedBeforeBus, StoredIds
<1>2. ASSUME NEW a \in Actors, NEW j, job' = [job EXCEPT ![a] = j],
             j.pc \in {"idle", "insert"},
             UNCHANGED <<log, nextId, topic, inflight, acked, removed>>
      PROVE  Durable'
  BY <1>0, <1>2, QuietStep
<1>3. ASSUME NEW a \in Actors, NEW o \in Orders, NEW event, Decide(a, o, event)
      PROVE  Durable'
  <2>1. PICK seq : StartSend(a, o, seq, event)
    BY <1>3 DEF Decide
  <2> QED
    BY <1>2, <1>3, <2>1 DEF Decide, StartSend
<1>4. ASSUME NEW a \in Actors, Command(a) PROVE Durable'
  <2>1. PICK o \in Orders :
          \/ PlaceOrder(a, o)
          \/ PaymentInitializer(a, o)
          \/ PaymentProcessor(a, o)
          \/ CancelOrder(a, o)
          \/ UpdateShippingStatus(a, o)
    BY <1>4 DEF Command
  <2>2. CASE PlaceOrder(a, o)
    BY <1>2, <2>2 DEF PlaceOrder, StartSend
  <2>3. CASE ~PlaceOrder(a, o)
    <3>1. \E event : Decide(a, o, event)
      BY <2>1, <2>3
      DEF PaymentInitializer, InitializePendingPayment, PaymentProcessor,
          ProcessPayment, CancelOrder, UpdateShippingStatus
    <3> QED
      BY <1>3, <3>1
  <2> QED
    BY <2>2, <2>3
<1>5. ASSUME NEW a \in Actors, Progress(a) PROVE Durable'
  <2>1. CASE InsertConflict(a)
    BY <1>2, <2>1 DEF InsertConflict, Idle
  <2>2. CASE Insert(a) \/ Commit(a) \/ Publish(a) \/ PublishFails(a)
             \/ RemoveEvent(a)
    BY <2>2, InsertDurable, CommitDurable, PublishDurable, PublishFailsDurable, RemoveDurable
  <2> QED
    BY <1>5, <2>1, <2>2 DEF Progress
<1>6. ASSUME NEW a \in Actors, Failure(a) PROVE Durable'
  <2>1. CASE TransactionFails(a) \/ RemoveFails(a)
    BY <1>2, <2>1 DEF TransactionFails, RemoveFails, Idle
  <2>2. CASE CommitUnknown(a)
    BY <2>2, CommitDurable
  <2>3. CASE Crash(a)
    BY <1>0, <2>3, QuietStep DEF Crash, Idle
  <2> QED
    BY <1>6, <2>1, <2>2, <2>3 DEF Failure
<1>7. ASSUME NEW m \in inflight, LateDelivery(m) PROVE Durable'
  BY <1>7 DEF LateDelivery, Durable, OwnIds, HasId, HeldStored, AckedDurable,
              CommittedBeforeBus, StoredIds
<1> QED
  BY <1>1, <1>4, <1>5, <1>6, <1>7 DEF Next

LEMMA InitDurable == Init => Durable
BY DEF Init, Durable, OwnIds, HasId, HeldStored, AckedDurable, CommittedBeforeBus, Idle

LEMMA DurabilityInductive == Spec => [](TypeInv /\ Durable)
<1>1. Init => TypeInv /\ Durable
  BY InitTypeInv, InitDurable
<1>2. TypeInv /\ Durable /\ [Next]_vars => TypeInv' /\ Durable'
  BY NextTypeInv, NextDurable
<1> QED
  BY <1>1, <1>2, PTL DEF Spec

\* An event whose command reported success is never deleted, and its message
\* is in the topic, for any number of actors, orders and events.
THEOREM AcknowledgedEventsStay == Spec => []AckedDurable
BY DurabilityInductive, PTL DEF Durable

\* No message is in the topic, or on its way there, whose event was not
\* committed first; the only ones whose event is gone are those that a failed
\* Send deleted.
THEOREM NoMessageBeforeCommit == Spec => []CommittedBeforeBus
BY DurabilityInductive, PTL DEF Durable

-----------------------------------------------------------------------------
(* The keys of the event table *)

RowsKeyed(o) ==
    \A n \in 1..Len(log[o]) : \A k \in 1..(n - 1) :
        log[o][k].id < log[o][n].id /\ log[o][k].seq # log[o][n].seq

\* No id is stored twice, nor stored after it was deleted.
IdsApart ==
    /\ \A o, p \in Orders : StoredIds(o) \cap removed[p] = {}
    /\ \A o, p \in Orders : o # p => StoredIds(o) \cap StoredIds(p) = {}

\* Nobody else has, or can take, the keys of a's open transaction.
KeysHeld(a) ==
    LET o == job[a].order
        row == job[a].row
    IN  /\ \A n \in 1..Len(log[o]) : log[o][n].seq # row.seq
        /\ \A b \in Actors \ {a} : ~SameKey(job[b], o, row.seq)
        /\ \A p \in Orders : row.id \notin StoredIds(p) \cup removed[p]

Keys ==
    /\ \A o \in Orders : RowsKeyed(o)
    /\ IdsApart
    /\ \A o \in Orders : \A id \in removed[o] : id < nextId
    /\ \A a \in Actors : job[a].pc = "commit" => KeysHeld(a)

LEMMA StoredBelow ==
    ASSUME TypeInv, NEW o \in Orders, NEW id \in StoredIds(o)
    PROVE  id \in Nat /\ id < nextId
<1>1. log[o] \in Seq(Row)
  BY DEF TypeInv, TypeOK
<1>2. PICK n \in 1..Len(log[o]) : id = log[o][n].id
  BY DEF StoredIds
<1>3. log[o][n] \in Row
  BY <1>1, ElementOfSeq
<1> QED
  BY <1>2, <1>3 DEF TypeInv, IdBounds, Row

\* Steps that leave rows and deletions alone and open no transaction.
LEMMA QuietKeys ==
    ASSUME TypeOK, Keys, NEW a \in Actors, NEW j,
           job' = [job EXCEPT ![a] = j], j.pc # "commit",
           UNCHANGED <<log, nextId, removed>>
    PROVE  Keys'
<1>1. \A b \in Actors : job'[b] = IF b = a THEN j ELSE job[b]
  BY DEF TypeOK
<1>2. \A o \in Orders : StoredIds(o)' = StoredIds(o)
  BY DEF StoredIds
<1>3. ASSUME NEW b \in Actors, job'[b].pc = "commit" PROVE KeysHeld(b)'
  <2>1. job'[b] = job[b] /\ KeysHeld(b)
    BY <1>1, <1>3 DEF Keys
  <2>2. \A c \in Actors : c # a => job'[c] = job[c]
    BY <1>1
  <2>3. \A o, seq : ~SameKey(job'[a], o, seq)
    BY <1>1 DEF SameKey
  <2> QED
    BY <1>2, <2>1, <2>2, <2>3 DEF KeysHeld
<1> QED
  BY <1>2, <1>3 DEF Keys, RowsKeyed, IdsApart

\* The unique index makes an insert wait for, and refuses, a key in use.
LEMMA InsertKeys ==
    ASSUME TypeInv, Keys, NEW a \in Actors, Insert(a)
    PROVE  Keys'
<1> DEFINE o == job[a].order
           seq == job[a].row.seq
<1>1. /\ job[a] \in Send /\ o \in Orders /\ job[a].pc = "insert"
      /\ nextId \in Nat /\ nextId' = nextId + 1
      /\ UNCHANGED <<log, removed>>
  BY ActiveSend DEF TypeInv, TypeOK, Insert
<1>2. /\ \A n \in 1..Len(log[o]) : log[o][n].seq # seq
      /\ \A b \in Actors : ~SameKey(job[b], o, seq)
  BY DEF Insert
<1>3. /\ \A b \in Actors : b # a => job'[b] = job[b]
      /\ job'[a].pc = "commit" /\ job'[a].order = o
      /\ job'[a].row.id = nextId /\ job'[a].row.seq = seq
  BY <1>1 DEF TypeInv, TypeOK, Insert, Send, Row
<1>4. \A p \in Orders : StoredIds(p)' = StoredIds(p)
  BY <1>1 DEF StoredIds
<1>5. \A p \in Orders : \A id \in removed[p] : id \in Nat /\ id < nextId
  BY DEF Keys, TypeInv, TypeOK
<1>6. KeysHeld(a)'
  <2>1. \A p \in Orders : nextId \notin StoredIds(p) \cup removed[p]
    <3>1. ~(nextId < nextId)
      BY <1>1
    <3> QED
      BY <1>5, <3>1, StoredBelow
  <2> QED
    BY <1>1, <1>2, <1>3, <1>4, <2>1 DEF KeysHeld
<1>7. ASSUME NEW b \in Actors, b # a, job'[b].pc = "commit" PROVE KeysHeld(b)'
  <2>1. job'[b] = job[b] /\ KeysHeld(b)
    BY <1>3, <1>7 DEF Keys
  <2>2. ~SameKey(job'[a], job[b].order, job[b].row.seq)
    BY <1>2, <1>3, <1>7, <2>1 DEF SameKey
  <2> QED
    BY <1>1, <1>3, <1>4, <2>1, <2>2 DEF KeysHeld
<1>8. \A p \in Orders : \A id \in removed'[p] : id < nextId'
  BY <1>1, <1>5
<1>9. IdsApart' /\ \A p \in Orders : RowsKeyed(p)'
  BY <1>1, <1>4 DEF Keys, IdsApart, RowsKeyed
<1> QED
  BY <1>6, <1>7, <1>8, <1>9 DEF Keys

\* A commit puts its row where its id belongs, beside other sequence numbers.
LEMMA CommitRowsKeyed ==
    ASSUME TypeInv, Keys, NEW a \in Actors, CommitRow(a),
           NEW o, o = job[a].order, NEW row, row = job[a].row
    PROVE  RowsKeyed(o)'
<1> DEFINE m == Len(log[o])
<1>1. /\ o \in Orders /\ row \in Row /\ m \in Nat
      /\ \E k \in 1..(m + 1) : RowInserted(o, row, k)
  BY CommitRowProperties DEF TypeInv
<1>2. PICK k \in 1..(m + 1) : RowInserted(o, row, k)
  BY <1>1
<1>3. KeysHeld(a) /\ RowsKeyed(o)
  BY <1>1 DEF Keys, CommitRow
<1>4. \A n \in 1..m : log[o][n].seq # row.seq
  BY <1>3 DEF KeysHeld
<1>5. /\ \A n \in 1..(k - 1) : log[o][n].id < row.id
      /\ \A n \in k..m : log[o][n].id > row.id
      /\ Len(log'[o]) = m + 1
      /\ \A i \in 1..(k - 1) : log'[o][i] = log[o][i]
      /\ log'[o][k] = row
      /\ \A i \in (k + 1)..(m + 1) : log'[o][i] = log[o][i - 1]
  BY <1>2 DEF RowInserted
<1>6. /\ \A i \in 1..m : log[o][i].id \in Nat
      /\ row.id \in Nat
  <2>1. log[o] \in Seq(Row)
    BY <1>1 DEF TypeInv, TypeOK
  <2>2. \A i \in 1..m : log[o][i] \in Row
    BY <2>1, ElementOfSeq
  <2> QED
    BY <1>1, <2>2 DEF Row
<1>7. \A n \in 1..m : \A i \in 1..(n - 1) :
         log[o][i].id < log[o][n].id /\ log[o][i].seq # log[o][n].seq
  BY <1>3 DEF RowsKeyed
<1> HIDE DEF m
<1>8. ASSUME m \in Nat, k \in 1..(m + 1), NEW n \in 1..(m + 1), NEW i \in 1..(n - 1)
      PROVE  log'[o][i].id < log'[o][n].id /\ log'[o][i].seq # log'[o][n].seq
  <2>1. CASE n < k
    <3>1. n \in 1..(k - 1) /\ i \in 1..(k - 1) /\ n \in 1..m
      BY <1>1, <1>2, <2>1
    <3>2. log'[o][n] = log[o][n] /\ log'[o][i] = log[o][i]
      BY <1>5, <3>1
    <3> QED
      BY <1>7, <3>1, <3>2
  <2>2. CASE n = k
    <3>1. i \in 1..(k - 1) /\ i \in 1..m
      BY <1>1, <1>2, <2>2
    <3> QED
      BY <1>4, <1>5, <2>2, <3>1
  <2>3. CASE n > k /\ i < k
    <3>1. /\ n \in (k + 1)..(m + 1) /\ n - 1 \in 1..m
          /\ i \in 1..(k - 1) /\ i \in 1..((n - 1) - 1)
      BY ONLY m \in Nat, k \in 1..(m + 1), n \in 1..(m + 1), i \in 1..(n - 1), <2>3
    <3>2. log'[o][n] = log[o][n - 1] /\ log'[o][i] = log[o][i]
      BY <1>5, <3>1
    <3> QED
      BY <1>7, <3>1, <3>2
  <2>4. CASE n > k /\ i = k
    <3>1. n \in (k + 1)..(m + 1) /\ n - 1 \in k..m /\ n - 1 \in 1..m
      BY ONLY m \in Nat, k \in 1..(m + 1), n \in 1..(m + 1), <2>4
    <3>2. log'[o][n] = log[o][n - 1] /\ log'[o][i] = row
      BY <1>5, <2>4, <3>1
    <3>3. log[o][n - 1].id > row.id /\ log[o][n - 1].id \in Nat
      BY <1>5, <1>6, <3>1
    <3>4. log[o][n - 1].seq # row.seq
      BY <1>4, <3>1
    <3> QED
      BY <1>6, <3>2, <3>3, <3>4
  <2>5. CASE n > k /\ i > k
    <3>1. /\ n \in (k + 1)..(m + 1) /\ i \in (k + 1)..(m + 1)
          /\ n - 1 \in 1..m /\ i - 1 \in 1..((n - 1) - 1)
      BY ONLY m \in Nat, k \in 1..(m + 1), n \in 1..(m + 1), i \in 1..(n - 1), <2>5
    <3>2. log'[o][n] = log[o][n - 1] /\ log'[o][i] = log[o][i - 1]
      BY <1>5, <3>1
    <3> QED
      BY <1>7, <3>1, <3>2
  <2> QED
    BY <1>8, <2>1, <2>2, <2>3, <2>4, <2>5
<1> QED
  BY <1>1, <1>5, <1>8 DEF RowsKeyed

LEMMA CommitKeys ==
    ASSUME TypeInv, Keys, OwnIds, NEW a \in Actors, CommitRow(a),
           UNCHANGED <<nextId, removed>>,
           NEW j, job' = [job EXCEPT ![a] = j], j.pc # "commit",
           NEW o, o = job[a].order, NEW row, row = job[a].row
    PROVE  Keys'
<1>1. o \in Orders /\ \E k \in 1..(Len(log[o]) + 1) : RowInserted(o, row, k)
  BY CommitRowProperties DEF TypeInv
<1>2. PICK k \in 1..(Len(log[o]) + 1) : RowInserted(o, row, k)
  BY <1>1
<1>3. \A b \in Actors : job'[b] = IF b = a THEN j ELSE job[b]
  BY DEF TypeInv, TypeOK
<1>4. job[a].pc = "commit" /\ KeysHeld(a) /\ HasId(a)
  BY DEF Keys, CommitRow, HasId
<1>5. \A p \in Orders : p # o => log'[p] = log[p]
  BY <1>2 DEF RowInserted
<1>6. Len(log[o]) \in Nat /\ Len(log'[o]) = Len(log[o]) + 1
  BY <1>1, <1>2, LenProperties DEF RowInserted, TypeInv, TypeOK
<1>7. \A n \in 1..Len(log'[o]) :
        log'[o][n] = row \/ \E i \in 1..Len(log[o]) : log'[o][n] = log[o][i]
  <2> SUFFICES ASSUME NEW n \in 1..Len(log'[o]), log'[o][n] # row
               PROVE  \E i \in 1..Len(log[o]) : log'[o][n] = log[o][i]
    OBVIOUS
  <2>1. CASE n < k
    <3>1. n \in 1..(k - 1) /\ n \in 1..Len(log[o])
      BY <1>2, <1>6, <2>1
    <3> QED
      BY <1>2, <3>1 DEF RowInserted
  <2>2. CASE n > k
    <3>1. n \in (k + 1)..(Len(log[o]) + 1) /\ n - 1 \in 1..Len(log[o])
      BY <1>2, <1>6, <2>2
    <3>2. log'[o][n] = log[o][n - 1]
      BY <1>2, <3>1 DEF RowInserted
    <3> QED
      BY <3>1, <3>2
  <2>3. n # k
    BY <1>2 DEF RowInserted
  <2> QED
    BY <1>2, <1>6, <2>1, <2>2, <2>3
<1>8. /\ \A p \in Orders : p # o => StoredIds(p)' = StoredIds(p)
      /\ StoredIds(o)' \subseteq StoredIds(o) \cup {row.id}
  <2>1. \A p \in Orders : p # o => StoredIds(p)' = StoredIds(p)
    BY <1>5 DEF StoredIds
  <2>2. \A n \in 1..Len(log'[o]) : log'[o][n].id \in StoredIds(o) \cup {row.id}
    BY <1>7 DEF StoredIds
  <2> QED
    BY <2>1, <2>2 DEF StoredIds
<1>9. RowsKeyed(o)'
  BY CommitRowsKeyed
<1>10. \A p \in Orders : RowsKeyed(p)'
  BY <1>5, <1>9 DEF Keys, RowsKeyed
<1>11. \A p \in Orders : row.id \notin StoredIds(p) \cup removed[p]
  BY <1>4 DEF KeysHeld
<1>12. IdsApart'
  <2>1. \A p, q \in Orders : StoredIds(p)' \cap removed[q] = {}
    BY <1>8, <1>11 DEF Keys, IdsApart
  <2>2. \A p, q \in Orders : p # q => StoredIds(p)' \cap StoredIds(q)' = {}
    BY <1>8, <1>11 DEF Keys, IdsApart
  <2> QED
    BY <2>1, <2>2 DEF IdsApart
<1>13. ASSUME NEW b \in Actors, job'[b].pc = "commit" PROVE KeysHeld(b)'
  <2>1. b # a /\ job'[b] = job[b] /\ KeysHeld(b) /\ HasId(b) /\ job[b].order \in Orders
    BY <1>3, <1>13, ActiveSend DEF Keys, HasId, TypeInv
  <2>2. job[b].row.id # row.id
    BY <1>4, <2>1 DEF OwnIds
  <2>3. \A p \in Orders : job[b].row.id \notin StoredIds(p)' \cup removed[p]
    BY <1>8, <2>1, <2>2 DEF KeysHeld
  <2>4. \A c \in Actors \ {b} : ~SameKey(job'[c], job[b].order, job[b].row.seq)
    <3>1. \A c \in Actors \ {b} : c # a => job'[c] = job[c]
      BY <1>3
    <3>2. ~SameKey(job'[a], job[b].order, job[b].row.seq)
      BY <1>3 DEF SameKey
    <3> QED
      BY <2>1, <3>1, <3>2 DEF KeysHeld
  <2>5. \A n \in 1..Len(log'[job[b].order]) : log'[job[b].order][n].seq # job[b].row.seq
    <3>1. CASE job[b].order # o
      BY <1>5, <2>1, <3>1 DEF KeysHeld
    <3>2. CASE job[b].order = o
      <4>1. row.seq # job[b].row.seq
        BY <1>4, <2>1, <3>2 DEF KeysHeld, SameKey
      <4>2. \A n \in 1..Len(log[o]) : log[o][n].seq # job[b].row.seq
        BY <2>1, <3>2 DEF KeysHeld
      <4>3. \A n \in 1..Len(log'[o]) : log'[o][n].seq # job[b].row.seq
        BY <1>7, <4>1, <4>2
      <4> QED
        BY <3>2, <4>3
    <3> QED
      BY <3>1, <3>2
  <2> QED
    BY <2>1, <2>3, <2>4, <2>5 DEF KeysHeld
<1> QED
  BY <1>10, <1>12, <1>13 DEF Keys

\* The compensation takes out the row it inserted, and no other has its id.
LEMMA RemoveKeys ==
    ASSUME TypeInv, Keys, OwnIds, NEW a \in Actors, RemoveEvent(a),
           NEW o, o = job[a].order, NEW id, id = job[a].row.id
    PROVE  Keys'
<1>1. /\ o \in Orders /\ Len(log[o]) \in Nat /\ id \in Nat /\ id < nextId
      /\ removed' = [removed EXCEPT ![o] = @ \cup {id}]
      /\ nextId' = nextId
      /\ \E k \in 1..Len(log[o]) : log[o][k].id = id /\ RowDeleted(o, k)
  <2>1. id < nextId /\ nextId' = nextId
    BY DEF TypeInv, IdBounds, RemoveEvent
  <2> QED
    BY <2>1, RemoveEventProperties DEF TypeInv
<1>2. PICK k \in 1..Len(log[o]) : log[o][k].id = id /\ RowDeleted(o, k)
  BY <1>1
<1>3. \A b \in Actors : job'[b] = IF b = a THEN Idle ELSE job[b]
  BY DEF TypeInv, TypeOK, RemoveEvent
<1> DEFINE at(n) == IF n < k THEN n ELSE n + 1
<1>4. /\ \A n \in 1..Len(log'[o]) :
           at(n) \in 1..Len(log[o]) \ {k} /\ log'[o][n] = log[o][at(n)]
      /\ \A n \in 1..Len(log'[o]) : \A i \in 1..(n - 1) : at(i) \in 1..(at(n) - 1)
  <2>1. /\ Len(log[o]) \in Nat /\ k \in 1..Len(log[o])
        /\ Len(log'[o]) = Len(log[o]) - 1
        /\ \A i \in 1..(Len(log[o]) - 1) :
             log'[o][i] = IF i < k THEN log[o][i] ELSE log[o][i + 1]
    BY <1>1, <1>2 DEF RowDeleted
  <2>2. \A n \in 1..Len(log'[o]) : at(n) \in 1..Len(log[o]) \ {k}
    BY ONLY <2>1
  <2>3. \A n \in 1..Len(log'[o]) : log'[o][n] = log[o][at(n)]
    BY ONLY <2>1
  <2>4. \A n \in 1..Len(log'[o]) : \A i \in 1..(n - 1) : at(i) \in 1..(at(n) - 1)
    BY ONLY <2>1
  <2> QED
    BY ONLY <2>2, <2>3, <2>4
<1>5. \A p \in Orders : p # o => log'[p] = log[p]
  BY <1>2 DEF RowDeleted
<1>6. RowsKeyed(o)
  BY <1>1 DEF Keys
<1> HIDE DEF at
<1>7. RowsKeyed(o)'
  <2> SUFFICES ASSUME NEW n \in 1..Len(log'[o]), NEW i \in 1..(n - 1)
               PROVE  log'[o][i].id < log'[o][n].id /\ log'[o][i].seq # log'[o][n].seq
    BY DEF RowsKeyed
  <2>1. i \in 1..Len(log'[o])
    BY <1>1, <1>2 DEF RowDeleted
  <2>2. /\ log'[o][i] = log[o][at(i)] /\ log'[o][n] = log[o][at(n)]
        /\ at(n) \in 1..Len(log[o]) /\ at(i) \in 1..(at(n) - 1)
    BY <1>4, <2>1
  <2> QED
    BY <1>6, <2>2 DEF RowsKeyed
<1>8. \A n \in 1..Len(log[o]) \ {k} : log[o][n].id # id
  <2>1. \A n \in 1..Len(log[o]) : log[o][n].id \in Nat
    <3>1. log[o] \in Seq(Row)
      BY <1>1 DEF TypeInv, TypeOK
    <3>2. \A n \in 1..Len(log[o]) : log[o][n] \in Row
      BY <3>1, ElementOfSeq
    <3> QED
      BY <3>2 DEF Row
  <2>2. ASSUME NEW n \in 1..Len(log[o]), n < k PROVE log[o][n].id < id
    <3>1. n \in 1..(k - 1)
      BY <1>1, <2>2
    <3> QED
      BY <1>2, <1>6, <3>1 DEF RowsKeyed
  <2>3. ASSUME NEW n \in 1..Len(log[o]), n > k PROVE id < log[o][n].id
    <3>1. k \in 1..(n - 1)
      BY <1>1, <1>2, <2>3
    <3> QED
      BY <1>2, <1>6, <3>1 DEF RowsKeyed
  <2>4. ASSUME NEW n \in 1..Len(log[o]) \ {k} PROVE log[o][n].id # id
    <3>1. n < k \/ n > k
      BY <1>1, <1>2
    <3> QED
      BY <1>1, <2>1, <2>2, <2>3, <3>1
  <2> QED
    BY <2>4
<1>9. /\ StoredIds(o)' \subseteq StoredIds(o) \ {id}
      /\ \A p \in Orders : p # o => StoredIds(p)' = StoredIds(p)
      /\ id \in StoredIds(o)
  <2>1. \A n \in 1..Len(log'[o]) :
          \E i \in 1..Len(log[o]) : log'[o][n].id = log[o][i].id /\ log[o][i].id # id
    <3> SUFFICES ASSUME NEW n \in 1..Len(log'[o])
                 PROVE  /\ at(n) \in 1..Len(log[o])
                        /\ log'[o][n].id = log[o][at(n)].id
                        /\ log[o][at(n)].id # id
      OBVIOUS
    <3>1. at(n) \in 1..Len(log[o]) \ {k} /\ log'[o][n] = log[o][at(n)]
      BY <1>4
    <3> QED
      BY <1>8, <3>1
  <2>2. StoredIds(o)' \subseteq StoredIds(o) \ {id}
    <3>1. \A n \in 1..Len(log'[o]) : log'[o][n].id \in StoredIds(o) \ {id}
      BY <2>1 DEF StoredIds
    <3> QED
      BY ONLY <3>1 DEF StoredIds
  <2>3. \A p \in Orders : p # o => StoredIds(p)' = StoredIds(p)
    BY <1>5 DEF StoredIds
  <2>4. id \in StoredIds(o)
    BY <1>2 DEF StoredIds
  <2> QED
    BY <2>2, <2>3, <2>4
<1>10. \A p \in Orders : RowsKeyed(p)'
  BY <1>5, <1>7 DEF Keys, RowsKeyed
<1>11. \A p \in Orders : removed'[p] = IF p = o THEN removed[p] \cup {id} ELSE removed[p]
  BY <1>1 DEF TypeInv, TypeOK
<1>12. IdsApart'
  <2>1. \A p \in Orders : StoredIds(p)' \subseteq StoredIds(p) /\ id \notin StoredIds(p)'
    BY <1>1, <1>9 DEF Keys, IdsApart
  <2>2. \A p, q \in Orders : StoredIds(p)' \cap removed'[q] = {}
    <3>1. \A q \in Orders : removed'[q] \subseteq removed[q] \cup {id}
      BY <1>11
    <3>2. \A p, q \in Orders : StoredIds(p) \cap removed[q] = {}
      BY DEF Keys, IdsApart
    <3> QED
      BY <2>1, <3>1, <3>2
  <2>3. \A p, q \in Orders : p # q => StoredIds(p)' \cap StoredIds(q)' = {}
    BY <2>1 DEF Keys, IdsApart
  <2> QED
    BY <2>2, <2>3 DEF IdsApart
<1>13. \A p \in Orders : \A x \in removed'[p] : x < nextId'
  BY <1>1, <1>11 DEF Keys
<1>14. ASSUME NEW b \in Actors, job'[b].pc = "commit" PROVE KeysHeld(b)'
  <2>1. b # a /\ job'[b] = job[b] /\ KeysHeld(b) /\ job[b].order \in Orders
    <3>1. b # a /\ job'[b] = job[b] /\ job[b].pc = "commit"
      BY <1>3, <1>14 DEF Idle
    <3> QED
      BY <3>1, ActiveSend DEF Keys, TypeInv
  <2>2. \A p \in Orders : job[b].row.id \notin StoredIds(p)' \cup removed'[p]
    BY <1>1, <1>9, <1>11, <2>1 DEF KeysHeld
  <2>3. \A c \in Actors \ {b} : ~SameKey(job'[c], job[b].order, job[b].row.seq)
    <3>1. ~SameKey(Idle, job[b].order, job[b].row.seq)
      BY DEF SameKey, Idle
    <3> QED
      BY <1>3, <2>1, <3>1 DEF KeysHeld
  <2>4. \A n \in 1..Len(log'[job[b].order]) : log'[job[b].order][n].seq # job[b].row.seq
    <3>1. CASE job[b].order # o
      BY <1>5, <2>1, <3>1 DEF KeysHeld
    <3>2. CASE job[b].order = o
      <4>1. \A n \in 1..Len(log'[o]) : \E i \in 1..Len(log[o]) : log'[o][n] = log[o][i]
        BY <1>4
      <4> QED
        BY <2>1, <3>2, <4>1 DEF KeysHeld
    <3> QED
      BY <3>1, <3>2
  <2> QED
    BY <2>1, <2>2, <2>3, <2>4 DEF KeysHeld
<1> QED
  BY <1>10, <1>12, <1>13, <1>14 DEF Keys

LEMMA NextKeys == TypeInv /\ OwnIds /\ Keys /\ [Next]_vars => Keys'
<1> SUFFICES ASSUME TypeInv, OwnIds, Keys, [Next]_vars PROVE Keys'
  OBVIOUS
<1>0. TypeOK
  BY DEF TypeInv
<1>1. CASE UNCHANGED <<log, nextId, job, removed>>
  <2>1. \A o : StoredIds(o)' = StoredIds(o)
    BY <1>1 DEF StoredIds
  <2>2. \A a \in Actors : KeysHeld(a) => KeysHeld(a)'
    BY <1>1, <2>1 DEF KeysHeld
  <2>3. IdsApart' /\ \A o \in Orders : RowsKeyed(o)'
    BY <1>1, <2>1 DEF Keys, IdsApart, RowsKeyed
  <2> QED
    BY <1>1, <2>2, <2>3 DEF Keys
<1>2. ASSUME NEW a \in Actors, NEW j, job' = [job EXCEPT ![a] = j],
             j.pc # "commit", UNCHANGED <<log, nextId, removed>>
      PROVE  Keys'
  BY <1>0, <1>2, QuietKeys
<1>3. ASSUME NEW a \in Actors, NEW o \in Orders, NEW event, Decide(a, o, event)
      PROVE  Keys'
  <2>1. PICK seq : StartSend(a, o, seq, event)
    BY <1>3 DEF Decide
  <2> DEFINE j == [pc |-> "insert", order |-> o,
                   row |-> [id |-> 0, seq |-> seq, event |-> event]]
  <2>2. job' = [job EXCEPT ![a] = j] /\ j.pc # "commit"
    BY <2>1 DEF StartSend
  <2> HIDE DEF j
  <2> QED
    BY <1>2, <1>3, <2>2 DEF Decide
<1>4. ASSUME NEW a \in Actors, Command(a) PROVE Keys'
  <2>1. PICK o \in Orders :
          \/ PlaceOrder(a, o)
          \/ PaymentInitializer(a, o)
          \/ PaymentProcessor(a, o)
          \/ CancelOrder(a, o)
          \/ UpdateShippingStatus(a, o)
    BY <1>4 DEF Command
  <2>2. CASE PlaceOrder(a, o)
    <3> DEFINE j == [pc |-> "insert", order |-> o,
                     row |-> [id |-> 0, seq |-> 0,
                              event |-> PlainEvent("order_placed")]]
    <3>1. job' = [job EXCEPT ![a] = j] /\ j.pc # "commit"
      BY <2>2 DEF PlaceOrder, StartSend
    <3> HIDE DEF j
    <3> QED
      BY <1>2, <2>2, <3>1 DEF PlaceOrder
  <2>3. CASE ~PlaceOrder(a, o)
    <3>1. \E event : Decide(a, o, event)
      BY <2>1, <2>3
      DEF PaymentInitializer, InitializePendingPayment, PaymentProcessor,
          ProcessPayment, CancelOrder, UpdateShippingStatus
    <3> QED
      BY <1>3, <3>1
  <2> QED
    BY <2>2, <2>3
<1>5. ASSUME NEW a \in Actors, Commit(a) \/ CommitUnknown(a) PROVE Keys'
  <2>1. CommitRow(a) /\ UNCHANGED <<nextId, removed>> /\ job[a] \in Send
    BY <1>0, <1>5, ActiveSend DEF Commit, CommitUnknown, CommitRow
  <2>2. \E j : job' = [job EXCEPT ![a] = j] /\ j.pc # "commit"
    <3>1. CASE Commit(a)
      <4> DEFINE j == [job[a] EXCEPT !.pc = "publish"]
      <4>1. job' = [job EXCEPT ![a] = j]
        BY <1>0, <3>1 DEF Commit, TypeOK
      <4>2. j.pc = "publish"
        BY <2>1 DEF Send
      <4> QED
        BY <4>1, <4>2
    <3>2. CASE CommitUnknown(a)
      <4>1. job' = [job EXCEPT ![a] = Idle] /\ Idle.pc # "commit"
        BY <3>2 DEF CommitUnknown, Idle
      <4> QED
        BY <4>1
    <3> QED
      BY <1>5, <3>1, <3>2
  <2> QED
    BY <2>1, <2>2, CommitKeys
<1>6. ASSUME NEW a \in Actors, PublishFails(a) PROVE Keys'
  <2> DEFINE j == [job[a] EXCEPT !.pc = "remove"]
  <2>1. job[a] \in Send
    BY <1>0, <1>6, ActiveSend DEF PublishFails
  <2>2. job' = [job EXCEPT ![a] = j] /\ j.pc = "remove"
    BY <1>0, <1>6, <2>1 DEF PublishFails, TypeOK, Send
  <2> QED
    BY <1>2, <1>6, <2>2 DEF PublishFails
<1>7. ASSUME NEW a \in Actors, Progress(a) PROVE Keys'
  <2>1. CASE InsertConflict(a) \/ Publish(a)
    BY <1>2, <2>1 DEF InsertConflict, Publish, Idle
  <2> QED
    BY <1>5, <1>6, <1>7, <2>1, InsertKeys, RemoveKeys DEF Progress
<1>8. ASSUME NEW a \in Actors, Failure(a) PROVE Keys'
  <2>1. CASE TransactionFails(a) \/ RemoveFails(a) \/ Crash(a)
    BY <1>2, <2>1 DEF TransactionFails, RemoveFails, Crash, Idle
  <2> QED
    BY <1>5, <1>8, <2>1 DEF Failure
<1> QED
  BY <1>1, <1>4, <1>7, <1>8 DEF Next, vars, LateDelivery

LEMMA InitKeys == Init => Keys
BY DEF Init, Keys, RowsKeyed, IdsApart, KeysHeld, StoredIds, Idle

\* The keys of the event table hold for any number of actors and orders, and a
\* deleted event id never comes back, although ids are handed out before the
\* rows are visible and rows are deleted from the middle of a log.
THEOREM EventKeysAreUnique == Spec => []KeysUnique
<1>1. TypeInv /\ OwnIds /\ Keys /\ [Next]_vars => Keys'
  BY NextKeys
<1>2. Keys => KeysUnique
  <2> SUFFICES ASSUME Keys PROVE KeysUnique
    OBVIOUS
  <2>1. \A o \in Orders : \A n \in 1..Len(log[o]) : log[o][n].id \in StoredIds(o)
    BY DEF StoredIds
  <2> QED
    BY <2>1 DEF Keys, RowsKeyed, IdsApart, KeysUnique
<1>3. TypeInv /\ Durable => OwnIds
  BY DEF Durable
<1> QED
  BY <1>1, <1>2, <1>3, InitKeys, DurabilityInductive, PTL DEF Spec
=============================================================================
