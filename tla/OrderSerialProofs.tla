------------------------- MODULE OrderSerialProofs -------------------------
(***************************************************************************)
(* Optimistic locking works: SerialHistory and the refinement of            *)
(* OrderHistory, AtomicCommands, for every instance.                        *)
(*                                                                         *)
(* SerialHistory alone is not inductive, for a row decided on a stale read  *)
(* may be on its way.  Serial adds what is known of it while its order has  *)
(* lost no event: it was accepted against the first seq rows (Decided),     *)
(* and once inserted it is next in the log, its id is above all ids there   *)
(* and no other open transaction has its key (Locked).                      *)
(***************************************************************************)
EXTENDS OrderCommandsProofs

InOrder(o) ==
    \A n \in 1..Len(log[o]) :
        /\ log[o][n].seq = n - 1
        /\ \A k \in 1..(n - 1) : log[o][k].id < log[o][n].id
        /\ Accepts(EventsOf(SubSeq(log[o], 1, n - 1)), log[o][n].event)

Decided(j) ==
    /\ j.row.seq <= Len(log[j.order])
    /\ Accepts(EventsOf(SubSeq(log[j.order], 1, j.row.seq)), j.row.event)

Locked(a) ==
    LET j == job[a]
    IN  /\ j.row.seq = Len(log[j.order])
        /\ \A n \in 1..Len(log[j.order]) : log[j.order][n].id < j.row.id
        /\ \A b \in Actors \ {a} : ~SameKey(job[b], j.order, j.row.seq)

Serial ==
    /\ \A o \in Unrevoked : InOrder(o)
    /\ \A a \in Actors :
         job[a].pc \in {"insert", "commit"} /\ job[a].order \in Unrevoked =>
             Decided(job[a])
    /\ \A a \in Actors :
         job[a].pc = "commit" /\ job[a].order \in Unrevoked => Locked(a)

-----------------------------------------------------------------------------
(* Prefixes *)

\* The events of a log are a sequence as long as the log.
LEMMA EventsOfSeq ==
    ASSUME NEW s \in Seq(Row)
    PROVE  /\ EventsOf(s) \in Seq(Event)
           /\ Len(EventsOf(s)) = Len(s)
           /\ \A i \in 1..Len(s) : EventsOf(s)[i] = s[i].event
<1>1. Len(s) \in Nat
  BY LenProperties
<1>2. \A i \in 1..Len(s) : s[i].event \in Event
  <2>1. \A i \in 1..Len(s) : s[i] \in Row
    BY ElementOfSeq
  <2> QED
    BY <2>1 DEF Row
<1> QED
  BY <1>1, <1>2 DEF EventsOf

LEMMA EventsOfPrefix ==
    ASSUME NEW s \in Seq(Row), NEW n \in 0..Len(s)
    PROVE  EventsOf(SubSeq(s, 1, n)) = [i \in 1..n |-> s[i].event]
<1>1. Len(s) \in Nat
  BY LenProperties
<1>2. \A i \in 1..n : s[i] \in Row
  BY <1>1, ElementOfSeq
<1>3. Len(SubSeq(s, 1, n)) = n /\ \A i \in 1..n : SubSeq(s, 1, n)[i] = s[i]
  BY <1>1, <1>2, SubSeqProperties, Z3
<1> QED
  BY <1>3 DEF EventsOf

\* Two logs that agree on their first n rows have the same events up to there.
LEMMA SamePrefix ==
    ASSUME NEW s \in Seq(Row), NEW t \in Seq(Row),
           NEW n \in 0..Len(s), n <= Len(t), \A i \in 1..n : s[i] = t[i]
    PROVE  EventsOf(SubSeq(s, 1, n)) = EventsOf(SubSeq(t, 1, n))
<1>1. n \in 0..Len(t)
  BY LenProperties
<1>2. EventsOf(SubSeq(s, 1, n)) = [i \in 1..n |-> s[i].event]
  BY EventsOfPrefix
<1>3. EventsOf(SubSeq(t, 1, n)) = [i \in 1..n |-> t[i].event]
  BY <1>1, EventsOfPrefix
<1> QED
  BY <1>2, <1>3

-----------------------------------------------------------------------------
(* Each kind of step keeps Serial *)

\* Steps of one actor that leave the rows of the orders without deletions
\* alone: everything but inserts and commits.
LEMMA RowsKeptSerial ==
    ASSUME TypeOK, Serial, NEW a \in Actors, NEW j,
           job' = [job EXCEPT ![a] = j], j.pc # "commit",
           \A o \in Unrevoked' : o \in Unrevoked /\ log'[o] = log[o],
           j.pc = "insert" /\ j.order \in Unrevoked' => Decided(j)
    PROVE  Serial'
<1>1. \A b \in Actors : job'[b] = IF b = a THEN j ELSE job[b]
  BY DEF TypeOK
<1>2. \A o \in Unrevoked' : InOrder(o)'
  BY DEF Serial, InOrder
<1>3. ASSUME NEW b \in Actors, job'[b].pc \in {"insert", "commit"},
             job'[b].order \in Unrevoked'
      PROVE  Decided(job[b])'
  <2>1. CASE b = a
    BY <1>1, <1>3, <2>1 DEF Decided
  <2>2. CASE b # a
    BY <1>1, <1>3, <2>2 DEF Decided, Serial
  <2> QED
    BY <2>1, <2>2
<1>4. ASSUME NEW b \in Actors, job'[b].pc = "commit", job'[b].order \in Unrevoked'
      PROVE  Locked(b)'
  <2>1. b # a /\ job'[b] = job[b] /\ Locked(b)
    BY <1>1, <1>4 DEF Serial
  <2>2. \A c \in Actors : c # a => job'[c] = job[c]
    BY <1>1
  <2>3. \A o, seq : ~SameKey(job'[a], o, seq)
    BY <1>1 DEF SameKey
  <2>4. \A c \in Actors \ {b} : ~SameKey(job'[c], job[b].order, job[b].row.seq)
    BY <2>1, <2>2, <2>3 DEF Locked
  <2> QED
    BY <1>4, <2>1, <2>4 DEF Locked
<1> QED
  BY <1>2, <1>3, <1>4 DEF Serial

\* A decision is right for the rows it was made on.
LEMMA DecideSerial ==
    ASSUME TypeInv, Serial, NEW a \in Actors, NEW o \in Orders,
           NEW event \in Event, Decide(a, o, event)
    PROVE  Serial'
<1>1. PICK n \in 1..Len(log[o]) :
        /\ Validate(ProjectionOf(SubSeq(log[o], 1, n)), event)
        /\ StartSend(a, o, CurrentSequenceNumber(SubSeq(log[o], 1, n)) + 1, event)
  BY DecideReads DEF TypeInv
<1> DEFINE rows == SubSeq(log[o], 1, n)
           seq == CurrentSequenceNumber(rows) + 1
           j == [pc |-> "insert", order |-> o,
                 row |-> [id |-> 0, seq |-> seq, event |-> event]]
<1>2. Len(log[o]) \in Nat /\ log[o] \in Seq(Row)
  BY LenProperties DEF TypeInv, TypeOK
<1>3. /\ UNCHANGED <<log, removed>>
      /\ job' = [job EXCEPT ![a] = j]
  BY <1>1 DEF Decide, StartSend
<1>4. ASSUME o \in Unrevoked PROVE Decided(j)
  <2>1. \A i \in 1..n : log[o][i].seq = i - 1
    BY <1>2, <1>4 DEF Serial, InOrder
  <2>2. /\ seq - 1 \in {0} \cup {log[o][i].seq : i \in 1..n}
        /\ \A i \in 1..n : seq - 1 >= log[o][i].seq
        /\ seq - 1 \in Nat
        /\ CurrentSequenceNumber(rows) \in Nat
    <3>1. CurrentSequenceNumber(rows) \in Nat
      BY CurrentSequenceNumberProperties
    <3>2. seq - 1 = CurrentSequenceNumber(rows)
      BY <3>1
    <3> QED
      BY <3>1, <3>2, CurrentSequenceNumberProperties
  <2>3. seq = n
    BY <1>2, <2>1, <2>2
  <2>4. EventsOf(rows) = [i \in 1..n |-> log[o][i].event]
    BY <1>2, EventsOfPrefix
  <2>5. EventsOf(rows) # <<>>
    <3>1. DOMAIN EventsOf(rows) = 1..n /\ n \in 1..n
      BY <1>2, <2>4
    <3> QED
      BY <3>1
  <2>6. Accepts(EventsOf(rows), event)
    BY <1>1, <2>5 DEF Accepts, ProjectionOf
  <2> HIDE DEF seq
  <2> QED
    BY <1>2, <2>3, <2>6 DEF Decided
<1> HIDE DEF j
<1>5. j.pc = "insert" /\ j.order = o
  BY DEF j
<1>6. Unrevoked' = Unrevoked
  BY <1>3 DEF Unrevoked
<1> QED
  BY <1>3, <1>4, <1>5, <1>6, RowsKeptSerial DEF TypeInv

\* An order's first event is accepted by an empty log.
LEMMA PlaceOrderSerial ==
    ASSUME TypeInv, Serial, NEW a \in Actors, NEW o \in Orders, PlaceOrder(a, o)
    PROVE  Serial'
<1> DEFINE event == PlainEvent("order_placed")
           j == [pc |-> "insert", order |-> o,
                 row |-> [id |-> 0, seq |-> 0, event |-> event]]
<1>1. UNCHANGED <<log, removed>> /\ job' = [job EXCEPT ![a] = j]
  BY DEF PlaceOrder, StartSend
<1>2. Len(log[o]) \in Nat /\ log[o] \in Seq(Row)
  BY LenProperties DEF TypeInv, TypeOK
<1>3. EventsOf(SubSeq(log[o], 1, 0)) = <<>>
  <2>1. 0 \in 0..Len(log[o])
    BY <1>2
  <2>2. EventsOf(SubSeq(log[o], 1, 0)) = [i \in 1..0 |-> log[o][i].event]
    BY <1>2, <2>1, EventsOfPrefix
  <2> QED
    BY <2>2
<1>4. Decided(j)
  BY <1>2, <1>3 DEF Decided, Accepts
<1> HIDE DEF j
<1>5. j.pc = "insert" /\ Unrevoked' = Unrevoked
  BY <1>1 DEF j, Unrevoked
<1> QED
  BY <1>1, <1>4, <1>5, RowsKeptSerial DEF TypeInv

\* The unique key: a row that gets into the table is the next one of its order.
LEMMA InsertSerial ==
    ASSUME TypeInv, Serial, NEW a \in Actors, Insert(a)
    PROVE  Serial'
<1> DEFINE o == job[a].order
           seq == job[a].row.seq
<1>1. /\ job[a] \in Send /\ o \in Orders /\ job[a].row \in Row
      /\ job[a].pc = "insert"
  BY ActiveSend DEF TypeInv, Insert
<1>2. /\ Len(log[o]) \in Nat
      /\ seq \in Nat
      /\ \A n \in 1..Len(log[o]) : log[o][n].seq # seq /\ log[o][n].id < nextId
      /\ \A b \in Actors : ~SameKey(job[b], o, seq)
  BY <1>1, LenProperties DEF TypeInv, TypeOK, IdBounds, Insert, Row
<1>3. /\ UNCHANGED <<log, removed>>
      /\ Unrevoked' = Unrevoked
  BY DEF Insert, Unrevoked
<1>4. /\ \A b \in Actors : b # a => job'[b] = job[b]
      /\ job'[a].pc = "commit"
      /\ job'[a].order = o
      /\ job'[a].row.seq = seq
      /\ job'[a].row.id = nextId
      /\ job'[a].row.event = job[a].row.event
  BY <1>1 DEF Insert, TypeInv, TypeOK, Send, Row
<1>5. \A p \in Unrevoked' : InOrder(p)'
  BY <1>3 DEF Serial, InOrder
<1>6. ASSUME NEW b \in Actors, job'[b].pc \in {"insert", "commit"},
             job'[b].order \in Unrevoked'
      PROVE  Decided(job[b])'
  <2>1. CASE b = a
    BY <1>1, <1>3, <1>4, <1>6, <2>1 DEF Decided, Serial
  <2>2. CASE b # a
    BY <1>3, <1>4, <1>6, <2>2 DEF Decided, Serial
  <2> QED
    BY <2>1, <2>2
<1>7. ASSUME NEW b \in Actors, job'[b].pc = "commit", job'[b].order \in Unrevoked'
      PROVE  Locked(b)'
  <2>1. CASE b = a
    <3>1. o \in Unrevoked /\ Decided(job[a])
      BY <1>1, <1>3, <1>4, <1>7, <2>1 DEF Serial
    <3>2. seq <= Len(log[o]) /\ \A n \in 1..Len(log[o]) : log[o][n].seq = n - 1
      BY <3>1 DEF Decided, Serial, InOrder
    <3>3. ~(seq + 1 \in 1..Len(log[o]))
      BY <1>2, <3>2
    <3>4. seq = Len(log[o])
      BY <1>2, <3>2, <3>3
    <3>5. \A c \in Actors \ {a} : ~SameKey(job'[c], o, seq)
      BY <1>2, <1>4
    <3> HIDE DEF o, seq
    <3> QED
      BY <1>2, <1>3, <1>4, <2>1, <3>4, <3>5 DEF Locked
  <2>2. CASE b # a
    <3>1. job'[b] = job[b] /\ Locked(b) /\ job[b].pc = "commit"
      BY <1>3, <1>4, <1>7, <2>2 DEF Serial
    <3>2. ~SameKey(job'[a], job[b].order, job[b].row.seq)
      BY <1>2, <1>4, <3>1 DEF SameKey
    <3>3. \A c \in Actors \ {b} : ~SameKey(job'[c], job[b].order, job[b].row.seq)
      BY <1>4, <3>1, <3>2 DEF Locked
    <3> QED
      BY <1>3, <3>1, <3>3 DEF Locked
  <2> QED
    BY <2>1, <2>2
<1> QED
  BY <1>5, <1>6, <1>7 DEF Serial

\* The row of a commit goes to the end of the log.
LEMMA CommitAppends ==
    ASSUME TypeInv, Serial, NEW a \in Actors, CommitRow(a),
           NEW o, o = job[a].order, NEW row, row = job[a].row, o \in Unrevoked
    PROVE  /\ Len(log'[o]) = Len(log[o]) + 1
           /\ log'[o] \in Seq(Row)
           /\ \A i \in 1..Len(log[o]) : log'[o][i] = log[o][i]
           /\ log'[o][Len(log[o]) + 1] = row
           /\ row.seq = Len(log[o])
           /\ \A i \in 1..Len(log[o]) : log[o][i].id < row.id
           /\ Accepts(EventsOf(SubSeq(log[o], 1, Len(log[o]))), row.event)
<1>1. PICK k \in 1..(Len(log[o]) + 1) : RowInserted(o, row, k)
  BY CommitRowProperties DEF TypeInv
<1>2. o \in Orders /\ row \in Row /\ Len(log[o]) \in Nat /\ log[o] \in Seq(Row)
  BY CommitRowProperties DEF TypeInv, TypeOK
<1>3. Locked(a) /\ Decided(job[a])
  BY DEF Serial, CommitRow
<1>4. /\ row.seq = Len(log[o])
      /\ \A n \in 1..Len(log[o]) : log[o][n].id < row.id
      /\ Accepts(EventsOf(SubSeq(log[o], 1, Len(log[o]))), row.event)
  BY <1>3 DEF Locked, Decided
<1>5. row.id \in Nat /\ \A n \in 1..Len(log[o]) : log[o][n].id \in Nat
  <2>1. \A n \in 1..Len(log[o]) : log[o][n] \in Row
    BY <1>2, ElementOfSeq
  <2> QED
    BY <1>2, <2>1 DEF Row
<1>6. k = Len(log[o]) + 1
  <2>1. SUFFICES ASSUME k # Len(log[o]) + 1 PROVE FALSE
    OBVIOUS
  <2>2. k \in 1..Len(log[o]) /\ k \in k..Len(log[o])
    BY <1>2, <2>1
  <2>3. log[o][k].id > row.id /\ log[o][k].id < row.id
    BY <1>1, <1>4, <2>2 DEF RowInserted
  <2> QED
    BY <1>5, <2>2, <2>3
<1> QED
  <2>1. /\ Len(log'[o]) = Len(log[o]) + 1
        /\ log'[o] \in Seq(Row)
        /\ log'[o][Len(log[o]) + 1] = row
    BY <1>1, <1>2, <1>6 DEF RowInserted
  <2>2. 1..Len(log[o]) = 1..(k - 1)
    BY <1>2, <1>6
  <2>3. \A i \in 1..Len(log[o]) : log'[o][i] = log[o][i]
    BY <1>1, <2>2 DEF RowInserted
  <2> QED
    BY <1>4, <2>1, <2>3

LEMMA CommitSerial ==
    ASSUME TypeInv, Serial, NEW a \in Actors, CommitRow(a), NEW j,
           job' = [job EXCEPT ![a] = j], j.pc \notin {"insert", "commit"},
           UNCHANGED removed
    PROVE  Serial'
<1> DEFINE o == job[a].order
           row == job[a].row
<1>1. /\ o \in Orders /\ row \in Row
      /\ \A p \in Orders : p # o => log'[p] = log[p]
      /\ \A p \in Orders : log[p] \in Seq(Row) /\ Len(log[p]) \in Nat
  BY CommitRowProperties, LenProperties DEF TypeInv, TypeOK, RowInserted
<1>2. Unrevoked' = Unrevoked /\ Unrevoked \subseteq Orders
  BY DEF Unrevoked
<1>3. \A b \in Actors : job'[b] = IF b = a THEN j ELSE job[b]
  BY DEF TypeInv, TypeOK
<1>4. job[a].pc = "commit"
  BY DEF CommitRow
<1>5. ASSUME o \in Unrevoked
      PROVE  /\ Len(log'[o]) = Len(log[o]) + 1
             /\ log'[o] \in Seq(Row)
             /\ \A i \in 1..Len(log[o]) : log'[o][i] = log[o][i]
             /\ log'[o][Len(log[o]) + 1] = row
             /\ row.seq = Len(log[o])
             /\ \A i \in 1..Len(log[o]) : log[o][i].id < row.id
             /\ Accepts(EventsOf(SubSeq(log[o], 1, Len(log[o]))), row.event)
  BY <1>5, CommitAppends
<1> HIDE DEF o, row
<1>6. ASSUME o \in Unrevoked, NEW n \in 0..Len(log[o])
      PROVE  EventsOf(SubSeq(log'[o], 1, n)) = EventsOf(SubSeq(log[o], 1, n))
  <2>1. n \in 0..Len(log'[o]) /\ n <= Len(log[o])
    BY <1>1, <1>2, <1>5, <1>6
  <2>2. \A i \in 1..n : log'[o][i] = log[o][i]
    BY <1>1, <1>5, <1>6
  <2> QED
    BY <1>1, <1>5, <1>6, <2>1, <2>2, SamePrefix
<1>7. ASSUME NEW p \in Unrevoked PROVE InOrder(p)'
  <2>1. CASE p # o
    BY <1>1, <1>2, <1>7, <2>1 DEF Serial, InOrder
  <2>2. CASE p = o
    <3>1. ASSUME NEW n \in 1..Len(log[o])
          PROVE  /\ log'[o][n].seq = n - 1
                 /\ \A k \in 1..(n - 1) : log'[o][k].id < log'[o][n].id
                 /\ Accepts(EventsOf(SubSeq(log'[o], 1, n - 1)), log'[o][n].event)
      <4>1. n - 1 \in 0..Len(log[o]) /\ \A k \in 1..(n - 1) : k \in 1..Len(log[o])
        BY <1>1
      <4>2. EventsOf(SubSeq(log'[o], 1, n - 1)) = EventsOf(SubSeq(log[o], 1, n - 1))
        BY <1>6, <1>7, <2>2, <4>1
      <4> QED
        BY <1>5, <1>7, <2>2, <4>1, <4>2 DEF Serial, InOrder
    <3>2. ASSUME NEW n, n = Len(log[o]) + 1
          PROVE  /\ log'[o][n].seq = n - 1
                 /\ \A k \in 1..(n - 1) : log'[o][k].id < log'[o][n].id
                 /\ Accepts(EventsOf(SubSeq(log'[o], 1, n - 1)), log'[o][n].event)
      <4>1. n - 1 = Len(log[o]) /\ n - 1 \in 0..Len(log[o])
        BY <1>1, <3>2
      <4>2. EventsOf(SubSeq(log'[o], 1, n - 1)) = EventsOf(SubSeq(log[o], 1, Len(log[o])))
        BY <1>6, <1>7, <2>2, <4>1
      <4> QED
        BY <1>5, <1>7, <2>2, <3>2, <4>1, <4>2
    <3>3. \A n \in 1..Len(log'[o]) : n \in 1..Len(log[o]) \/ n = Len(log[o]) + 1
      BY <1>1, <1>5, <1>7, <2>2
    <3> QED
      BY <2>2, <3>1, <3>2, <3>3 DEF InOrder
  <2> QED
    BY <2>1, <2>2
<1>8. ASSUME NEW b \in Actors, job'[b].pc \in {"insert", "commit"},
             job'[b].order \in Unrevoked
      PROVE  Decided(job[b])'
  <2>1. b # a /\ job'[b] = job[b] /\ Decided(job[b])
    BY <1>3, <1>8 DEF Serial
  <2>2. CASE job[b].order # o
    BY <1>1, <1>2, <1>8, <2>1, <2>2 DEF Decided
  <2>3. CASE job[b].order = o
    <3>1. job[b].row.seq \in Nat
      BY <1>8, <2>1, ActiveSend DEF TypeInv, Row
    <3>2. job[b].row.seq \in 0..Len(log[o])
      BY <1>1, <2>1, <2>3, <3>1 DEF Decided
    <3>3. EventsOf(SubSeq(log'[o], 1, job[b].row.seq))
            = EventsOf(SubSeq(log[o], 1, job[b].row.seq))
      BY <1>6, <1>8, <2>1, <2>3, <3>2
    <3>4. job[b].row.seq <= Len(log'[o])
      BY <1>1, <1>5, <1>8, <2>1, <2>3, <3>2
    <3> QED
      BY <2>1, <2>3, <3>3, <3>4 DEF Decided
  <2> QED
    BY <2>2, <2>3
<1>9. ASSUME NEW b \in Actors, job'[b].pc = "commit", job'[b].order \in Unrevoked
      PROVE  Locked(b)'
  <2>1. b # a /\ job'[b] = job[b] /\ Locked(b)
    BY <1>3, <1>9 DEF Serial
  <2>2. job[b].order # o
    <3>1. SUFFICES ASSUME job[b].order = o PROVE FALSE
      OBVIOUS
    <3>2. Locked(a)
      BY <1>4, <1>9, <2>1, <3>1 DEF Serial, o
    <3>3. job[a].row.seq = job[b].row.seq
      BY <2>1, <3>1, <3>2 DEF Locked, o
    <3>4. SameKey(job[b], job[a].order, job[a].row.seq)
      BY <1>9, <2>1, <3>1, <3>3 DEF SameKey, o
    <3> QED
      BY <2>1, <3>2, <3>4 DEF Locked
  <2>3. log'[job[b].order] = log[job[b].order]
    BY <1>1, <1>2, <1>9, <2>1, <2>2
  <2>4. \A c \in Actors \ {b} : ~SameKey(job'[c], job[b].order, job[b].row.seq)
    BY <1>3, <2>1 DEF Locked, SameKey
  <2> QED
    BY <2>1, <2>3, <2>4 DEF Locked
<1> QED
  BY <1>2, <1>7, <1>8, <1>9 DEF Serial

-----------------------------------------------------------------------------
(* The theorem *)

LEMMA InitSerial == Init => Serial
BY DEF Init, Serial, InOrder, Unrevoked, Idle

LEMMA NextSerial == TypeInv /\ Serial /\ [Next]_vars => Serial'
<1> SUFFICES ASSUME TypeInv, Serial, [Next]_vars PROVE Serial'
  OBVIOUS
<1>1. CASE UNCHANGED vars
  BY <1>1 DEF vars, Serial, InOrder, Decided, Locked, Unrevoked
<1>2. ASSUME NEW a \in Actors, Command(a) PROVE Serial'
  <2>1. PICK o \in Orders :
          \/ PlaceOrder(a, o)
          \/ PaymentInitializer(a, o)
          \/ PaymentProcessor(a, o)
          \/ CancelOrder(a, o)
          \/ UpdateShippingStatus(a, o)
    BY <1>2 DEF Command
  <2>2. CASE PlaceOrder(a, o)
    BY <2>2, PlaceOrderSerial
  <2>3. CASE ~PlaceOrder(a, o)
    <3>1. \E event \in Event : Decide(a, o, event)
      BY <2>1, <2>3, WrittenEvents
      DEF PaymentInitializer, InitializePendingPayment, PaymentProcessor,
          ProcessPayment, CancelOrder, UpdateShippingStatus, PlainEventTypes
    <3> QED
      BY <3>1, DecideSerial
  <2> QED
    BY <2>2, <2>3
<1>3. ASSUME NEW a \in Actors, Progress(a) PROVE Serial'
  <2>1. CASE Insert(a)
    BY <2>1, InsertSerial
  <2>2. CASE Commit(a)
    <3> DEFINE j == [job[a] EXCEPT !.pc = "publish"]
    <3>1. job' = [job EXCEPT ![a] = j] /\ j.pc = "publish"
      BY <2>2, ActiveSend DEF Commit, CommitRow, TypeInv, Send
    <3> HIDE DEF j
    <3> QED
      BY <2>2, <3>1, CommitSerial DEF Commit
  <2>3. CASE InsertConflict(a) \/ Publish(a)
    BY <2>3, RowsKeptSerial DEF InsertConflict, Publish, Unrevoked, TypeInv, Idle
  <2>4. CASE PublishFails(a)
    <3> DEFINE j == [job[a] EXCEPT !.pc = "remove"]
    <3>1. job' = [job EXCEPT ![a] = j] /\ j.pc = "remove"
      BY <2>4, ActiveSend DEF PublishFails, TypeInv, Send
    <3> HIDE DEF j
    <3> QED
      BY <2>4, <3>1, RowsKeptSerial DEF PublishFails, Unrevoked, TypeInv
  <2>5. CASE RemoveEvent(a)
    <3>1. PICK k : RowDeleted(job[a].order, k)
      BY <2>5, RemoveEventProperties DEF TypeInv
    <3>2. /\ removed' = [removed EXCEPT ![job[a].order] = @ \cup {job[a].row.id}]
          /\ removed \in [Orders -> SUBSET Nat]
          /\ job' = [job EXCEPT ![a] = Idle]
      BY <2>5 DEF RemoveEvent, TypeInv, TypeOK
    <3>3. \A o \in Unrevoked' : o # job[a].order /\ o \in Unrevoked
      BY <3>2 DEF Unrevoked
    <3>4. \A o \in Unrevoked' : o \in Unrevoked /\ log'[o] = log[o]
      BY <3>1, <3>3 DEF RowDeleted, Unrevoked
    <3>5. Idle.pc = "idle"
      BY DEF Idle
    <3> QED
      BY <3>2, <3>4, <3>5, RowsKeptSerial DEF TypeInv
  <2> QED
    BY <1>3, <2>1, <2>2, <2>3, <2>4, <2>5 DEF Progress
<1>4. ASSUME NEW a \in Actors, Failure(a) PROVE Serial'
  <2>1. CASE CommitUnknown(a)
    BY <2>1, CommitSerial DEF CommitUnknown, Idle
  <2>2. CASE TransactionFails(a) \/ RemoveFails(a) \/ Crash(a)
    BY <2>2, RowsKeptSerial
    DEF TransactionFails, RemoveFails, Crash, Unrevoked, TypeInv, Idle
  <2> QED
    BY <1>4, <2>1, <2>2 DEF Failure
<1>5. ASSUME NEW m \in inflight, LateDelivery(m) PROVE Serial'
  BY <1>5 DEF LateDelivery, Serial, InOrder, Decided, Locked, Unrevoked
<1> QED
  BY <1>1, <1>2, <1>3, <1>4, <1>5 DEF Next

LEMMA SerialInductive == Spec => [](TypeInv /\ Serial)
<1>1. Init => TypeInv /\ Serial
  BY InitTypeInv, InitSerial
<1>2. TypeInv /\ Serial /\ [Next]_vars => (TypeInv /\ Serial)'
  BY NextTypeInv, NextSerial
<1> QED
  BY <1>1, <1>2, PTL DEF Spec

\* Optimistic locking works for any number of orders and of actors: the rows of
\* an order that lost no event are those of commands that ran one at a time.
THEOREM LogIsSerial == Spec => []SerialHistory
<1>1. Serial => SerialHistory
  BY DEF Serial, InOrder, SerialHistory
<1> QED
  BY <1>1, SerialInductive, PTL

-----------------------------------------------------------------------------
(* Refinement: a commit on an order that lost no event is OrderHistory's      *)
(* Execute, a commit on any other order and a compensation are its Revoke,    *)
(* and every other step stutters.                                             *)

Events == [o \in Orders |-> EventsOf(log[o])]
Revoked == [o \in Orders |-> removed[o] # {}]

\* One more row is one more event.
LEMMA EventsOfAppend ==
    ASSUME NEW s \in Seq(Row), NEW t \in Seq(Row), Len(t) = Len(s) + 1,
           \A i \in 1..Len(s) : t[i] = s[i]
    PROVE  /\ EventsOf(t) = Append(EventsOf(s), t[Len(t)].event)
           /\ EventsOf(t) # EventsOf(s)
           /\ t[Len(t)].event \in Event
<1> DEFINE event == t[Len(t)].event
           longer == Append(EventsOf(s), event)
<1>1. Len(s) \in Nat /\ Len(t) \in 1..Len(t)
  BY LenProperties
<1>2. event \in Event
  <2>1. t[Len(t)] \in Row
    BY <1>1, ElementOfSeq
  <2> QED
    BY <2>1 DEF Row
<1>3. /\ EventsOf(s) \in Seq(Event)
      /\ Len(EventsOf(s)) = Len(s)
      /\ \A i \in 1..Len(s) : EventsOf(s)[i] = s[i].event
  BY EventsOfSeq
<1>4. /\ EventsOf(t) \in Seq(Event)
      /\ Len(EventsOf(t)) = Len(s) + 1
      /\ \A i \in 1..Len(t) : EventsOf(t)[i] = t[i].event
  BY EventsOfSeq
<1> HIDE DEF event
<1>5. /\ longer \in Seq(Event)
      /\ Len(longer) = Len(s) + 1
      /\ \A i \in 1..(Len(s) + 1) :
            longer[i] = IF i = Len(s) + 1 THEN event ELSE EventsOf(s)[i]
  BY <1>1, <1>2, <1>3
<1>6. \A i \in 1..Len(EventsOf(t)) : EventsOf(t)[i] = longer[i]
  <2> SUFFICES ASSUME NEW i \in 1..(Len(s) + 1)
               PROVE  EventsOf(t)[i] = longer[i]
    BY <1>4
  <2>1. CASE i = Len(s) + 1
    BY <1>4, <1>5, <2>1 DEF event
  <2>2. CASE i # Len(s) + 1
    <3>1. i \in 1..Len(s) /\ i \in 1..Len(t)
      BY <1>1, <2>2
    <3> QED
      BY <1>3, <1>4, <1>5, <2>2, <3>1
  <2> QED
    BY <2>1, <2>2
<1> HIDE DEF longer
<1>7. EventsOf(t) = longer
  BY <1>4, <1>5, <1>6, SeqEqual
<1>8. EventsOf(t) # EventsOf(s)
  BY <1>1, <1>3, <1>4
<1> QED
  BY <1>2, <1>7, <1>8 DEF event, longer

-----------------------------------------------------------------------------
(* Its steps *)

LEMMA StutteringStep ==
    ASSUME UNCHANGED <<log, removed>>
    PROVE  UNCHANGED <<Events, Revoked>>
BY DEF Events, Revoked

\* A commit is Execute or, after a deletion, Revoke.
LEMMA CommitImplements ==
    ASSUME TypeInv, Serial, NEW a \in Actors, CommitRow(a), UNCHANGED removed
    PROVE  History!Next
<1> DEFINE row == job[a].row
<1>0. PICK o \in Orders : o = job[a].order
  BY CommitRowProperties DEF TypeInv
<1>1. PICK k \in 1..(Len(log[o]) + 1) : RowInserted(o, row, k)
  BY <1>0, CommitRowProperties DEF TypeInv
<1>2. /\ \A p \in Orders : log[p] \in Seq(Row) /\ log'[p] \in Seq(Row)
      /\ \A p \in Orders \ {o} : log'[p] = log[p]
  BY <1>1 DEF TypeInv, TypeOK, RowInserted
<1>3. \A p \in Orders \ {o} : EventsOf(log'[p]) = EventsOf(log[p])
  BY <1>2
<1>4. CASE o \in Unrevoked
  <2> DEFINE event == row.event
  <2> HIDE DEF row
  <2>0. row = job[a].row
    BY DEF row
  <2>1. /\ Len(log'[o]) = Len(log[o]) + 1
        /\ \A i \in 1..Len(log[o]) : log'[o][i] = log[o][i]
        /\ log'[o][Len(log[o]) + 1] = row
        /\ Accepts(EventsOf(SubSeq(log[o], 1, Len(log[o]))), event)
    BY <1>0, <1>4, <2>0, CommitAppends
  <2>2. /\ EventsOf(log'[o]) = Append(EventsOf(log[o]), event)
        /\ EventsOf(log'[o]) # EventsOf(log[o])
        /\ event \in Event
    <3> DEFINE s == log[o]
               t == log'[o]
    <3>1. s \in Seq(Row) /\ t \in Seq(Row)
      BY <1>2
    <3>2. Len(s) \in Nat
      BY <3>1, LenProperties
    <3>3. /\ Len(t) = Len(s) + 1
          /\ \A i \in 1..Len(s) : t[i] = s[i]
          /\ t[Len(t)] = row
      BY <2>1
    <3> HIDE DEF s, t
    <3>4. /\ EventsOf(t) = Append(EventsOf(s), t[Len(t)].event)
          /\ EventsOf(t) # EventsOf(s)
          /\ t[Len(t)].event \in Event
      BY <3>1, <3>3, EventsOfAppend
    <3> QED
      BY <3>3, <3>4 DEF s, t
  <2>3. EventsOf(SubSeq(log[o], 1, Len(log[o]))) = EventsOf(log[o])
    <3>1. Len(log[o]) \in 0..Len(log[o])
      BY <1>2, LenProperties
    <3> QED
      BY <1>2, <3>1, EventsOfPrefix DEF EventsOf
  <2>4. Events' = [Events EXCEPT ![o] = Append(@, event)]
    BY <1>2, <1>3, <2>2 DEF Events
  <2>5. Events' # Events
    BY <1>2, <2>2 DEF Events
  <2>6. Accepts(Events[o], event)
    BY <1>2, <2>1, <2>3 DEF Events
  <2>7. ~Revoked[o] /\ UNCHANGED Revoked
    BY <1>2, <1>4 DEF Revoked, Unrevoked
  <2> HIDE DEF event
  <2>8. History!Execute(o)
    BY <2>2, <2>4, <2>5, <2>6, <2>7 DEF History!Execute, Events, Revoked
  <2> QED
    BY <1>2, <2>8 DEF History!Next
<1>5. CASE o \notin Unrevoked
  <2>1. Revoked' = [Revoked EXCEPT ![o] = TRUE]
    BY <1>2, <1>5 DEF Revoked, Unrevoked
  <2>2. \A p \in Orders \ {o} : Events'[p] = Events[p]
    BY <1>3 DEF Events
  <2>3. History!Revoke(o)
    BY <2>1, <2>2 DEF History!Revoke, Events, Revoked
  <2> QED
    BY <2>3 DEF History!Next
<1> QED
  BY <1>4, <1>5

LEMMA RemoveImplements ==
    ASSUME TypeInv, NEW a \in Actors, RemoveEvent(a)
    PROVE  History!Next
<1>0. PICK o \in Orders : o = job[a].order
  BY RemoveEventProperties DEF TypeInv
<1>1. PICK k : RowDeleted(o, k)
  BY <1>0, RemoveEventProperties DEF TypeInv
<1>2. /\ removed' = [removed EXCEPT ![o] = @ \cup {job[a].row.id}]
      /\ removed \in [Orders -> SUBSET Nat]
  BY <1>0 DEF RemoveEvent, TypeInv, TypeOK
<1>3. \A p \in Orders \ {o} : Events'[p] = Events[p]
  BY <1>1 DEF Events, RowDeleted
<1>4. Revoked' = [Revoked EXCEPT ![o] = TRUE]
  BY <1>2 DEF Revoked
<1>5. History!Revoke(o)
  BY <1>3, <1>4 DEF History!Revoke, Events, Revoked
<1> QED
  BY <1>5 DEF History!Next

LEMMA StepImplements ==
    TypeInv /\ Serial /\ [Next]_vars => [History!Next]_(History!vars)
<1> SUFFICES ASSUME TypeInv, Serial, [Next]_vars, ~UNCHANGED <<log, removed>>
             PROVE  History!Next
  BY StutteringStep DEF History!vars, Events, Revoked
<1>1. PICK a \in Actors : Command(a) \/ Progress(a) \/ Failure(a)
  BY DEF Next, vars, LateDelivery
<1>2. Commit(a) \/ CommitUnknown(a) \/ RemoveEvent(a)
  BY <1>1 DEF Command, Progress, Failure, PlaceOrder, PaymentInitializer,
     InitializePendingPayment, PaymentProcessor, ProcessPayment, CancelOrder,
     UpdateShippingStatus, Decide, Insert, InsertConflict, Publish, PublishFails,
     TransactionFails, RemoveFails, Crash
<1>3. CASE Commit(a) \/ CommitUnknown(a)
  BY <1>3, CommitImplements DEF Commit, CommitUnknown
<1> QED
  BY <1>2, <1>3, RemoveImplements

LEMMA InitImplements == Init => History!Init
<1> SUFFICES ASSUME Init PROVE History!Init
  OBVIOUS
<1>1. EventsOf(<<>>) = <<>>
  BY DEF EventsOf
<1> QED
  BY <1>1 DEF Init, History!Init

\* The write path implements atomic, serially validated commands, for every
\* number of orders and actors, until an event of the order is deleted.
THEOREM WritePathImplementsHistory == Spec => AtomicCommands
<1>1. Init => History!Init
  BY InitImplements
<1>2. TypeInv /\ Serial /\ [Next]_vars => [History!Next]_(History!vars)
  BY StepImplements
<1> QED
  BY <1>1, <1>2, SerialInductive, PTL DEF Spec, AtomicCommands, History!Spec
=============================================================================
