------------------------ MODULE OrderCommandsProofs ------------------------
(***************************************************************************)
(* Theorems of OrderCommands, for every set of orders and actors and every  *)
(* bound on event ids.                                                      *)
(***************************************************************************)
EXTENDS OrderCommands, SequenceTheorems, WellFoundedInduction, TLAPS

-----------------------------------------------------------------------------
(* Lemmas about the helpers *)

\* A set of naturals with an upper bound has a maximum, and Max is it.  (The
\* least upper bound exists because < is well-founded on Nat.)
LEMMA MaxOfBounded ==
    ASSUME NEW S \in SUBSET Nat, S # {},
           NEW bound \in Nat, \A x \in S : x <= bound
    PROVE  Max(S) \in S /\ \A x \in S : Max(S) >= x
<1> DEFINE Bounds == {b \in Nat : \A x \in S : x <= b}
           Less == OpToRel(<, Nat)
<1>1. PICK b \in Bounds : \A y \in Bounds : ~ (<<y, b>> \in Less)
  <2>1. IsWellFoundedOn(Less, Nat)
    BY NatLessThanWellFounded
  <2>2. Bounds \subseteq Nat /\ Bounds # {}
    OBVIOUS
  <2> QED
    BY <2>1, <2>2, WFMin
<1>2. b \in S
  <2>1. SUFFICES ASSUME b \notin S PROVE FALSE
    OBVIOUS
  <2>2. b \in Nat /\ \A x \in S : x <= b /\ x \in Nat
    OBVIOUS
  <2>3. \A x \in S : x < b
    BY <2>1, <2>2
  <2>4. b - 1 \in Nat /\ \A x \in S : x <= b - 1
    <3>1. PICK x \in S : TRUE
      OBVIOUS
    <3>2. x \in Nat /\ x < b
      BY <2>2, <2>3
    <3> QED
      BY <2>2, <2>3, <3>2
  <2>5. <<b - 1, b>> \in Less
    BY <2>2, <2>4 DEF OpToRel
  <2> QED
    BY <1>1, <2>4, <2>5
<1>3. \A x \in S : b >= x
  OBVIOUS
<1> QED
  BY <1>2, <1>3 DEF Max

\* InsertAt shifts the elements from position k on by one.
LEMMA InsertAtProperties ==
    ASSUME NEW S, NEW s \in Seq(S), NEW k \in 1..(Len(s) + 1), NEW e \in S
    PROVE  /\ InsertAt(s, k, e) \in Seq(S)
           /\ Len(InsertAt(s, k, e)) = Len(s) + 1
           /\ \A i \in 1..(k - 1) : InsertAt(s, k, e)[i] = s[i]
           /\ InsertAt(s, k, e)[k] = e
           /\ \A i \in (k + 1)..(Len(s) + 1) : InsertAt(s, k, e)[i] = s[i - 1]
<1> DEFINE front == SubSeq(s, 1, k - 1)
           back == SubSeq(s, k, Len(s))
<1>0. Len(s) \in Nat
  BY LenProperties
<1>1. /\ front \in Seq(S)
      /\ Len(front) = k - 1
      /\ \A i \in 1..(k - 1) : front[i] = s[i]
  <2>1. \A i \in 1..(k - 1) : s[i] \in S
    BY <1>0, ElementOfSeq
  <2> QED
    BY <1>0, <2>1, SubSeqProperties, Z3
<1>2. /\ back \in Seq(S)
      /\ Len(back) = Len(s) - k + 1
      /\ \A i \in 1..(Len(s) - k + 1) : back[i] = s[k + i - 1]
  <2>1. \A i \in k..Len(s) : s[i] \in S
    BY <1>0, ElementOfSeq
  <2> QED
    BY <1>0, <2>1, SubSeqProperties, Z3
<1>3. /\ <<e>> \in Seq(S)
      /\ Len(<<e>>) = 1
      /\ <<e>>[1] = e
  OBVIOUS
<1> HIDE DEF front, back
<1> DEFINE head == front \o <<e>>
<1>4. /\ head \in Seq(S)
      /\ Len(head) = k
      /\ \A i \in 1..k : head[i] = IF i < k THEN s[i] ELSE e
  BY <1>0, <1>1, <1>3, ConcatProperties, Z3
<1>5. InsertAt(s, k, e) = head \o back
  BY DEF InsertAt, front, back
<1> HIDE DEF head
<1>6. /\ head \o back \in Seq(S)
      /\ Len(head \o back) = Len(head) + Len(back)
      /\ \A i \in 1..(Len(head) + Len(back)) : (head \o back)[i] =
            IF i <= Len(head) THEN head[i] ELSE back[i - Len(head)]
  BY <1>2, <1>4, ConcatProperties
<1> QED
  BY <1>0, <1>2, <1>4, <1>5, <1>6

\* RemoveAt moves the elements after position k forward by one.
LEMMA RemoveAtProperties ==
    ASSUME NEW S, NEW s \in Seq(S), NEW k \in 1..Len(s)
    PROVE  /\ RemoveAt(s, k) \in Seq(S)
           /\ Len(RemoveAt(s, k)) = Len(s) - 1
           /\ \A i \in 1..(Len(s) - 1) :
                RemoveAt(s, k)[i] = IF i < k THEN s[i] ELSE s[i + 1]
<1> DEFINE front == SubSeq(s, 1, k - 1)
           back == SubSeq(s, k + 1, Len(s))
<1>0. Len(s) \in Nat
  BY LenProperties
<1>1. /\ front \in Seq(S)
      /\ Len(front) = k - 1
      /\ \A i \in 1..(k - 1) : front[i] = s[i]
  <2>1. \A i \in 1..(k - 1) : s[i] \in S
    BY <1>0, ElementOfSeq
  <2> QED
    BY <1>0, <2>1, SubSeqProperties, Z3
<1>2. /\ back \in Seq(S)
      /\ Len(back) = Len(s) - k
      /\ \A i \in 1..(Len(s) - k) : back[i] = s[k + i]
  <2>1. \A i \in (k + 1)..Len(s) : s[i] \in S
    BY <1>0, ElementOfSeq
  <2> QED
    BY <1>0, <2>1, SubSeqProperties, Z3
<1> HIDE DEF front, back
<1>3. /\ front \o back \in Seq(S)
      /\ Len(front \o back) = Len(s) - 1
      /\ \A i \in 1..(Len(s) - 1) : (front \o back)[i] =
            IF i <= k - 1 THEN front[i] ELSE back[i - (k - 1)]
  <2>1. /\ front \o back \in Seq(S)
        /\ Len(front \o back) = Len(front) + Len(back)
        /\ \A i \in 1..(Len(front) + Len(back)) : (front \o back)[i] =
              IF i <= Len(front) THEN front[i] ELSE back[i - Len(front)]
    BY <1>1, <1>2, ConcatProperties
  <2> QED
    BY <1>0, <1>1, <1>2, <2>1
<1>4. RemoveAt(s, k) = front \o back
  BY DEF RemoveAt, front, back
<1> QED
  <2> DEFINE r == RemoveAt(s, k)
  <2>1. \A i \in 1..(Len(s) - 1) : i <= k - 1 => r[i] = s[i]
    BY <1>0, <1>1, <1>3, <1>4
  <2>2. \A i \in 1..(Len(s) - 1) : ~(i <= k - 1) => r[i] = s[i + 1]
    <3> SUFFICES ASSUME NEW i \in 1..(Len(s) - 1), ~(i <= k - 1)
                 PROVE  r[i] = s[i + 1]
      OBVIOUS
    <3>1. i - (k - 1) \in 1..(Len(s) - k) /\ k + (i - (k - 1)) = i + 1
      BY <1>0
    <3>2. back[i - (k - 1)] = s[i + 1]
      BY <1>2, <3>1
    <3> QED
      BY <1>3, <1>4, <3>2
  <2> QED
    BY <1>0, <1>3, <1>4, <2>1, <2>2

-----------------------------------------------------------------------------
(* Type correctness *)

\* Sequence numbers stay below event ids, and event ids below the counter.
\* Without it CurrentSequenceNumber would not be known to be a number: Max is
\* meaningless for a set without a bound.
IdBounds ==
    /\ \A o \in Orders : \A n \in 1..Len(log[o]) :
         log[o][n].seq < log[o][n].id /\ log[o][n].id < nextId
    /\ \A a \in Actors :
         /\ job[a].pc = "insert" => job[a].row.seq < nextId
         /\ job[a].pc \in {"commit", "publish", "remove"} =>
                job[a].row.seq < job[a].row.id /\ job[a].row.id < nextId

TypeInv == TypeOK /\ IdBounds

\* An actor that is not idle executes a Send.
LEMMA ActiveSend ==
    ASSUME TypeOK, NEW a \in Actors,
           job[a].pc \in {"insert", "commit", "publish", "remove"}
    PROVE  /\ job[a] \in Send
           /\ job[a].order \in Orders
           /\ job[a].row \in Row
<1>1. job[a] \in Send \cup {Idle}
  BY DEF TypeOK
<1>2. job[a] # Idle
  BY DEF Idle
<1> QED
  BY <1>1, <1>2 DEF Send

\* A read of n rows yields the largest of their sequence numbers.
LEMMA CurrentSequenceNumberProperties ==
    ASSUME TypeInv, NEW o \in Orders, NEW n \in 1..Len(log[o])
    PROVE  LET rows == SubSeq(log[o], 1, n)
           IN  /\ rows \in Seq(Row)
               /\ Len(rows) = n
               /\ \A i \in 1..n : rows[i] = log[o][i]
               /\ CurrentSequenceNumber(rows) \in {0} \cup {log[o][i].seq : i \in 1..n}
               /\ \A i \in 1..n : CurrentSequenceNumber(rows) >= log[o][i].seq
               /\ CurrentSequenceNumber(rows) \in Nat
               /\ CurrentSequenceNumber(rows) + 1 < nextId
<1> DEFINE rows == SubSeq(log[o], 1, n)
           seqs == {0} \cup {log[o][i].seq : i \in 1..n}
<1>1. log[o] \in Seq(Row) /\ Len(log[o]) \in Nat
  BY LenProperties DEF TypeInv, TypeOK
<1>2. \A i \in 1..Len(log[o]) : log[o][i] \in Row
  BY <1>1, ElementOfSeq
<1>3. rows \in Seq(Row) /\ Len(rows) = n /\ \A i \in 1..n : rows[i] = log[o][i]
  BY <1>1, <1>2, SubSeqProperties, Z3
<1>4. nextId \in Nat
  BY DEF TypeInv, TypeOK
<1>5. \A i \in 1..n :
        /\ log[o][i].seq \in Nat
        /\ log[o][i].seq + 1 < nextId
  <2> SUFFICES ASSUME NEW i \in 1..n
               PROVE  log[o][i].seq \in Nat /\ log[o][i].seq + 1 < nextId
    OBVIOUS
  <2>1. i \in 1..Len(log[o])
    BY <1>1
  <2>2. log[o][i].seq \in Nat /\ log[o][i].id \in Nat
    BY <1>2, <2>1 DEF Row
  <2>3. log[o][i].seq < log[o][i].id /\ log[o][i].id < nextId
    BY <2>1 DEF TypeInv, IdBounds
  <2> QED
    BY <1>4, <2>2, <2>3
<1>6. 1 < nextId
  BY <1>1, <1>4, <1>5
<1>7. /\ seqs \in SUBSET Nat
      /\ 0 \in seqs
      /\ \A x \in seqs : x <= nextId
  BY <1>4, <1>5
<1>8. Max(seqs) \in seqs /\ \A x \in seqs : Max(seqs) >= x
  BY <1>4, <1>7, MaxOfBounded
<1>9. {rows[i].seq : i \in 1..Len(rows)} = {log[o][i].seq : i \in 1..n}
  BY <1>3
<1>10. CurrentSequenceNumber(rows) = Max(seqs)
  BY <1>9 DEF CurrentSequenceNumber
<1>11. \A x \in seqs : x \in Nat /\ x + 1 < nextId
  BY <1>4, <1>5, <1>6
<1> QED
  BY <1>3, <1>8, <1>10, <1>11

LEMMA InitTypeInv == Init => TypeInv
<1> SUFFICES ASSUME Init PROVE TypeInv
  OBVIOUS
<1>1. TypeOK
  BY DEF Init, TypeOK, Idle
<1>2. IdBounds
  BY DEF Init, IdBounds, Idle
<1> QED
  BY <1>1, <1>2 DEF TypeInv

\* What a step does to the Sends, apart from the rest of the state.
JobsOK(next) ==
    /\ job \in [Actors -> Send \cup {Idle}]
    /\ \A a \in Actors :
         /\ job[a].pc = "insert" => job[a].row.seq < next
         /\ job[a].pc \in {"commit", "publish", "remove"} =>
                job[a].row.seq < job[a].row.id /\ job[a].row.id < next

RowsOK(next) ==
    /\ log \in [Orders -> Seq(Row)]
    /\ \A o \in Orders : \A n \in 1..Len(log[o]) :
         log[o][n].seq < log[o][n].id /\ log[o][n].id < next

OthersOK ==
    /\ nextId \in Nat \ {0}
    /\ topic \in SUBSET Message
    /\ inflight \in SUBSET Message
    /\ used \in SUBSET Orders
    /\ acked \in SUBSET Nat
    /\ removed \in [Orders -> SUBSET Nat]

LEMMA TypeInvParts == TypeInv <=> JobsOK(nextId) /\ RowsOK(nextId) /\ OthersOK
BY DEF TypeInv, TypeOK, IdBounds, JobsOK, RowsOK, OthersOK

\* A Send that ends leaves the others as they are.
LEMMA EndOfSend ==
    ASSUME JobsOK(nextId), NEW a \in Actors, job' = [job EXCEPT ![a] = Idle],
           nextId' = nextId
    PROVE  JobsOK(nextId)'
<1>1. \A b \in Actors : job'[b] = IF b = a THEN Idle ELSE job[b]
  BY DEF JobsOK
<1>2. job' \in [Actors -> Send \cup {Idle}]
  BY DEF JobsOK
<1> QED
  BY <1>1, <1>2 DEF JobsOK, Idle

\* A Send that moves on with a well-formed record.
LEMMA StepOfSend ==
    ASSUME JobsOK(nextId), nextId \in Nat, NEW a \in Actors, NEW j \in Send,
           job' = [job EXCEPT ![a] = j],
           nextId' \in Nat, nextId <= nextId',
           j.pc = "insert" => j.row.seq < nextId',
           j.pc # "insert" => j.row.seq < j.row.id /\ j.row.id < nextId'
    PROVE  JobsOK(nextId)'
<1>1. \A b \in Actors : job'[b] = IF b = a THEN j ELSE job[b]
  BY DEF JobsOK
<1>2. job' \in [Actors -> Send \cup {Idle}]
  BY DEF JobsOK
<1>3. ASSUME NEW b \in Actors, b # a, job[b].pc # "idle"
      PROVE  job[b].row.seq \in Nat /\ job[b].row.id \in Nat
  BY <1>3 DEF JobsOK, Idle, Send, Row
<1>4. ASSUME NEW b \in Actors
      PROVE  /\ job'[b].pc = "insert" => job'[b].row.seq < nextId'
             /\ job'[b].pc \in {"commit", "publish", "remove"} =>
                    job'[b].row.seq < job'[b].row.id /\ job'[b].row.id < nextId'
  <2>1. CASE b = a
    BY <1>1, <2>1
  <2>2. CASE b # a
    BY <1>1, <1>3, <2>2 DEF JobsOK
  <2> QED
    BY <2>1, <2>2
<1> QED
  BY <1>2, <1>4 DEF JobsOK

\* log' is log with the row put at place k of order o, in the order of ids.
RowInserted(o, row, k) ==
    /\ \A n \in 1..(k - 1) : log[o][n].id < row.id
    /\ \A n \in k..Len(log[o]) : log[o][n].id > row.id
    /\ log' \in [Orders -> Seq(Row)]
    /\ \A p \in Orders : p # o => log'[p] = log[p]
    /\ Len(log'[o]) = Len(log[o]) + 1
    /\ \A i \in 1..(k - 1) : log'[o][i] = log[o][i]
    /\ log'[o][k] = row
    /\ \A i \in (k + 1)..(Len(log[o]) + 1) : log'[o][i] = log[o][i - 1]

LEMMA CommitRowProperties ==
    ASSUME TypeOK, NEW a \in Actors, CommitRow(a),
           NEW o, o = job[a].order, NEW row, row = job[a].row
    PROVE  /\ o \in Orders /\ row \in Row /\ Len(log[o]) \in Nat
           /\ \E k \in 1..(Len(log[o]) + 1) : RowInserted(o, row, k)
<1>1. o \in Orders /\ row \in Row
  BY ActiveSend DEF CommitRow
<1>2. PICK k \in 1..(Len(log[o]) + 1) :
        /\ \A n \in 1..(k - 1) : log[o][n].id < row.id
        /\ \A n \in k..Len(log[o]) : log[o][n].id > row.id
        /\ log' = [log EXCEPT ![o] = InsertAt(log[o], k, row)]
  BY DEF CommitRow
<1>3. log \in [Orders -> Seq(Row)] /\ log[o] \in Seq(Row) /\ Len(log[o]) \in Nat
  BY <1>1, LenProperties DEF TypeOK
<1> DEFINE new == InsertAt(log[o], k, row)
<1>4. /\ new \in Seq(Row)
      /\ Len(new) = Len(log[o]) + 1
      /\ \A i \in 1..(k - 1) : new[i] = log[o][i]
      /\ new[k] = row
      /\ \A i \in (k + 1)..(Len(log[o]) + 1) : new[i] = log[o][i - 1]
  <2>1. ASSUME NEW s \in Seq(Row), NEW m \in 1..(Len(s) + 1)
        PROVE  /\ InsertAt(s, m, row) \in Seq(Row)
               /\ Len(InsertAt(s, m, row)) = Len(s) + 1
               /\ \A i \in 1..(m - 1) : InsertAt(s, m, row)[i] = s[i]
               /\ InsertAt(s, m, row)[m] = row
               /\ \A i \in (m + 1)..(Len(s) + 1) :
                    InsertAt(s, m, row)[i] = s[i - 1]
    BY <1>1, InsertAtProperties
  <2> QED
    BY <1>3, <2>1
<1> HIDE DEF new
<1>5. /\ log' \in [Orders -> Seq(Row)]
      /\ log'[o] = new
      /\ \A p \in Orders : p # o => log'[p] = log[p]
  BY <1>1, <1>2, <1>3, <1>4 DEF new
<1>6. RowInserted(o, row, k)
  BY <1>2, <1>4, <1>5 DEF RowInserted
<1> QED
  BY <1>1, <1>3, <1>6

\* log' is log without the row at place k of order o.
RowDeleted(o, k) ==
    /\ log' \in [Orders -> Seq(Row)]
    /\ \A p \in Orders : p # o => log'[p] = log[p]
    /\ Len(log'[o]) = Len(log[o]) - 1
    /\ \A i \in 1..(Len(log[o]) - 1) :
         log'[o][i] = IF i < k THEN log[o][i] ELSE log[o][i + 1]

LEMMA RemoveEventProperties ==
    ASSUME TypeOK, NEW a \in Actors, RemoveEvent(a),
           NEW o, o = job[a].order, NEW id, id = job[a].row.id
    PROVE  /\ o \in Orders /\ id \in Nat /\ Len(log[o]) \in Nat
           /\ removed' = [removed EXCEPT ![o] = @ \cup {id}]
           /\ \E k \in 1..Len(log[o]) : log[o][k].id = id /\ RowDeleted(o, k)
<1>1. o \in Orders /\ id \in Nat
  BY ActiveSend DEF RemoveEvent, Row
<1>2. PICK k \in 1..Len(log[o]) :
        /\ log[o][k].id = id
        /\ log' = [log EXCEPT ![o] = RemoveAt(log[o], k)]
  BY DEF RemoveEvent
<1>3. log \in [Orders -> Seq(Row)] /\ log[o] \in Seq(Row) /\ Len(log[o]) \in Nat
  BY <1>1, LenProperties DEF TypeOK
<1> DEFINE new == RemoveAt(log[o], k)
<1>4. /\ new \in Seq(Row)
      /\ Len(new) = Len(log[o]) - 1
      /\ \A i \in 1..(Len(log[o]) - 1) : new[i] =
           IF i < k THEN log[o][i] ELSE log[o][i + 1]
  <2>1. ASSUME NEW s \in Seq(Row), NEW m \in 1..Len(s)
        PROVE  /\ RemoveAt(s, m) \in Seq(Row)
               /\ Len(RemoveAt(s, m)) = Len(s) - 1
               /\ \A i \in 1..(Len(s) - 1) : RemoveAt(s, m)[i] =
                    IF i < m THEN s[i] ELSE s[i + 1]
    BY RemoveAtProperties
  <2> QED
    BY <1>3, <2>1
<1> HIDE DEF new
<1>5. /\ log' \in [Orders -> Seq(Row)]
      /\ log'[o] = new
      /\ \A p \in Orders : p # o => log'[p] = log[p]
  BY <1>1, <1>2, <1>3, <1>4 DEF new
<1>6. RowDeleted(o, k)
  BY <1>4, <1>5 DEF RowDeleted
<1>7. removed' = [removed EXCEPT ![o] = @ \cup {id}]
  BY DEF RemoveEvent
<1> QED
  BY <1>1, <1>2, <1>3, <1>6, <1>7

\* COMMIT and the compensation keep the rows well-formed.
LEMMA CommitRowsOK ==
    ASSUME TypeInv, NEW a \in Actors, CommitRow(a), nextId' = nextId
    PROVE  RowsOK(nextId)'
<1> DEFINE o == job[a].order
           row == job[a].row
<1>1. PICK k \in 1..(Len(log[o]) + 1) : RowInserted(o, row, k)
  BY CommitRowProperties DEF TypeInv
<1>2. o \in Orders /\ row \in Row /\ Len(log[o]) \in Nat
  BY CommitRowProperties DEF TypeInv
<1>3. row.seq < row.id /\ row.id < nextId
  BY DEF TypeInv, IdBounds, CommitRow
<1> HIDE DEF o, row
<1>4. ASSUME NEW p \in Orders, NEW n \in 1..Len(log'[p])
      PROVE  log'[p][n].seq < log'[p][n].id /\ log'[p][n].id < nextId
  <2>1. CASE p # o
    BY <1>1, <2>1 DEF RowInserted, TypeInv, IdBounds
  <2>2. CASE p = o /\ n < k
    <3>1. n \in 1..(k - 1) /\ n \in 1..Len(log[o])
      BY <1>1, <1>2, <2>2 DEF RowInserted
    <3> QED
      BY <1>1, <1>2, <2>2, <3>1 DEF RowInserted, TypeInv, IdBounds
  <2>3. CASE p = o /\ n = k
    BY <1>1, <1>3, <2>3 DEF RowInserted
  <2>4. CASE p = o /\ n > k
    <3>1. n \in (k + 1)..(Len(log[o]) + 1) /\ n - 1 \in 1..Len(log[o])
      BY <1>1, <1>2, <2>4 DEF RowInserted
    <3> QED
      BY <1>1, <1>2, <2>4, <3>1 DEF RowInserted, TypeInv, IdBounds
  <2> QED
    BY <1>1, <1>2, <2>1, <2>2, <2>3, <2>4 DEF RowInserted
<1> QED
  BY <1>1, <1>4 DEF RowsOK, RowInserted

LEMMA RemoveRowsOK ==
    ASSUME TypeInv, NEW a \in Actors, RemoveEvent(a)
    PROVE  RowsOK(nextId)' /\ removed' \in [Orders -> SUBSET Nat]
<1> DEFINE o == job[a].order
           id == job[a].row.id
<1>1. PICK k \in 1..Len(log[o]) : log[o][k].id = id /\ RowDeleted(o, k)
  BY RemoveEventProperties DEF TypeInv
<1>2. /\ o \in Orders /\ id \in Nat /\ Len(log[o]) \in Nat
      /\ removed' = [removed EXCEPT ![o] = @ \cup {id}]
  BY RemoveEventProperties DEF TypeInv
<1>3. nextId' = nextId
  BY DEF RemoveEvent
<1> HIDE DEF o, id
<1>4. ASSUME NEW p \in Orders, NEW n \in 1..Len(log'[p])
      PROVE  log'[p][n].seq < log'[p][n].id /\ log'[p][n].id < nextId
  <2>1. CASE p # o
    BY <1>1, <2>1 DEF RowDeleted, TypeInv, IdBounds
  <2>2. CASE p = o
    <3>1. /\ n \in 1..(Len(log[o]) - 1)
          /\ n \in 1..Len(log[o]) /\ n + 1 \in 1..Len(log[o])
      BY <1>1, <1>2, <2>2 DEF RowDeleted
    <3>2. log'[o][n] = log[o][n] \/ log'[o][n] = log[o][n + 1]
      BY <1>1, <3>1 DEF RowDeleted
    <3> QED
      BY <1>2, <2>2, <3>1, <3>2 DEF TypeInv, IdBounds
  <2> QED
    BY <2>1, <2>2
<1>5. removed' \in [Orders -> SUBSET Nat]
  BY <1>2 DEF TypeInv, TypeOK
<1> QED
  BY <1>1, <1>3, <1>4, <1>5 DEF RowsOK, RowDeleted

\* A command starts a Send whose sequence number is below the id counter.
LEMMA StartSendTypeInv ==
    ASSUME TypeInv, NEW a \in Actors, NEW o \in Orders, NEW seq \in Nat,
           seq < nextId, NEW event \in Event, StartSend(a, o, seq, event),
           UNCHANGED <<log, nextId, topic, inflight, acked, removed>>,
           used' \in SUBSET Orders
    PROVE  TypeInv'
<1> DEFINE j == [pc |-> "insert", order |-> o,
                 row |-> [id |-> 0, seq |-> seq, event |-> event]]
<1>1. j \in Send /\ j.pc = "insert" /\ j.row.seq = seq
  BY DEF Send, Row
<1>2. job' = [job EXCEPT ![a] = j]
  BY DEF StartSend
<1>3. JobsOK(nextId) /\ RowsOK(nextId) /\ OthersOK
  BY TypeInvParts
<1>4. nextId \in Nat /\ nextId' \in Nat /\ nextId <= nextId' /\ seq < nextId'
  BY <1>3 DEF OthersOK
<1> HIDE DEF j
<1>5. JobsOK(nextId)'
  <2>1. /\ j.pc = "insert" => j.row.seq < nextId'
        /\ j.pc # "insert" => j.row.seq < j.row.id /\ j.row.id < nextId'
    BY <1>1, <1>4
  <2> QED
    BY <1>1, <1>2, <1>3, <1>4, <2>1, StepOfSend
<1>6. RowsOK(nextId)' /\ OthersOK'
  BY <1>3 DEF RowsOK, OthersOK
<1> QED
  BY <1>5, <1>6 DEF TypeInv, TypeOK, IdBounds, JobsOK, RowsOK, OthersOK

\* A command reads a non-empty prefix of the order's rows and decides by it.
LEMMA DecideReads ==
    ASSUME TypeOK, NEW a \in Actors, NEW o \in Orders, NEW event,
           Decide(a, o, event)
    PROVE  \E n \in 1..Len(log[o]) :
             LET rows == SubSeq(log[o], 1, n)
             IN  /\ Validate(ProjectionOf(rows), event)
                 /\ StartSend(a, o, CurrentSequenceNumber(rows) + 1, event)
<1>1. PICK n \in 0..Len(log[o]) :
        /\ SubSeq(log[o], 1, n) # <<>>
        /\ Validate(ProjectionOf(SubSeq(log[o], 1, n)), event)
        /\ StartSend(a, o, CurrentSequenceNumber(SubSeq(log[o], 1, n)) + 1, event)
  BY DEF Decide, ListByAggregateID
<1>2. log[o] \in Seq(Row)
  BY DEF TypeOK
<1>3. n # 0
  BY <1>1, <1>2, SubSeqProperties
<1> QED
  BY <1>1, <1>3

\* Decide starts a Send with the number after the ones it read.
LEMMA DecideTypeInv ==
    ASSUME TypeInv, NEW a \in Actors, NEW o \in Orders, NEW event \in Event,
           Decide(a, o, event)
    PROVE  TypeInv'
<1>1. PICK n \in 1..Len(log[o]) :
        StartSend(a, o, CurrentSequenceNumber(SubSeq(log[o], 1, n)) + 1, event)
  BY DecideReads DEF TypeInv
<1> DEFINE seq == CurrentSequenceNumber(SubSeq(log[o], 1, n)) + 1
<1>2. seq \in Nat /\ seq < nextId
  BY CurrentSequenceNumberProperties
<1>3. /\ UNCHANGED <<log, nextId, topic, inflight, acked, removed>>
      /\ used' \in SUBSET Orders
  BY DEF Decide, TypeInv, TypeOK
<1> HIDE DEF seq
<1> QED
  BY <1>1, <1>2, <1>3, StartSendTypeInv DEF seq

\* The message of a Send whose row has its id.
LEMMA MessageType ==
    ASSUME TypeOK, NEW a \in Actors,
           job[a].pc \in {"insert", "commit", "publish", "remove"}
    PROVE  MessageOf(job[a]) \in Message
<1>1. job[a].order \in Orders /\ job[a].row \in Row
  BY ActiveSend
<1>2. job[a].row.event.type \in EventTypes /\ job[a].row.id \in Nat
  BY <1>1 DEF Row, Event
<1> QED
  BY <1>1, <1>2 DEF MessageOf, Message

\* A Send moves to its next phase with the same row.
LEMMA PhaseOfSend ==
    ASSUME TypeInv, NEW a \in Actors, NEW pc \in {"commit", "publish", "remove"},
           job[a].pc \in {"commit", "publish", "remove"},
           job' = [job EXCEPT ![a].pc = pc], nextId' = nextId
    PROVE  JobsOK(nextId)'
<1> DEFINE j == [job[a] EXCEPT !.pc = pc]
<1>1. job[a] \in Send
  BY ActiveSend DEF TypeInv
<1>2. j \in Send /\ j.pc = pc /\ j.row = job[a].row
  BY <1>1 DEF Send
<1>3. job' = [job EXCEPT ![a] = j]
  BY DEF TypeInv, TypeOK
<1>4. /\ JobsOK(nextId)
      /\ nextId \in Nat /\ nextId' \in Nat /\ nextId <= nextId'
  BY TypeInvParts DEF OthersOK
<1>5. j.row.seq < j.row.id /\ j.row.id < nextId'
  BY <1>2 DEF TypeInv, IdBounds
<1> HIDE DEF j
<1>6. j.pc # "insert"
  BY <1>2
<1> QED
  BY <1>2, <1>3, <1>4, <1>5, <1>6, StepOfSend

\* Insert gives the Send the next event id.
LEMMA InsertTypeInv ==
    ASSUME TypeInv, NEW a \in Actors, Insert(a)
    PROVE  TypeInv'
<1> DEFINE row == [job[a].row EXCEPT !.id = nextId]
           j == [job[a] EXCEPT !.pc = "commit", !.row = row]
<1>1. job[a] \in Send /\ job[a].row \in Row /\ job[a].pc = "insert"
  BY ActiveSend DEF TypeInv, Insert
<1>2. JobsOK(nextId) /\ RowsOK(nextId) /\ OthersOK
  BY TypeInvParts
<1>3. nextId \in Nat \ {0} /\ nextId' = nextId + 1
  BY <1>2 DEF OthersOK, Insert
<1>4. j.pc = "commit" /\ j.order = job[a].order /\ j.row = row
  BY <1>1 DEF Send
<1>5. /\ j \in Send /\ j.pc = "commit"
      /\ j.row.id = nextId /\ j.row.seq = job[a].row.seq
  <2>1. row \in Row /\ row.id = nextId /\ row.seq = job[a].row.seq
    BY <1>1, <1>3 DEF Row
  <2> HIDE DEF row
  <2>2. j \in Send
    BY <1>1, <2>1 DEF Send
  <2> QED
    BY <1>4, <2>1, <2>2
<1>6. job' = [job EXCEPT ![a] = j]
  BY <1>2 DEF Insert, JobsOK
<1>7. job[a].row.seq < nextId /\ job[a].row.seq \in Nat
  BY <1>1, <1>2 DEF JobsOK, Row
<1> HIDE DEF j
<1>8. JobsOK(nextId)'
  <2>1. /\ j.pc = "insert" => j.row.seq < nextId'
        /\ j.pc # "insert" => j.row.seq < j.row.id /\ j.row.id < nextId'
    BY <1>3, <1>5, <1>7
  <2>2. nextId \in Nat /\ nextId' \in Nat /\ nextId <= nextId'
    BY <1>3
  <2> QED
    BY <1>2, <1>5, <1>6, <2>1, <2>2, StepOfSend
<1>9. RowsOK(nextId)'
  <2>1. ASSUME NEW o \in Orders, NEW n \in 1..Len(log[o])
        PROVE  log[o][n].seq < log[o][n].id /\ log[o][n].id < nextId'
    <3>1. log[o][n] \in Row
      BY <1>2, ElementOfSeq DEF RowsOK
    <3>2. log[o][n].id \in Nat
      BY <3>1 DEF Row
    <3> QED
      BY <1>2, <1>3, <3>2 DEF RowsOK
  <2> QED
    BY <1>2, <2>1 DEF RowsOK, Insert
<1>10. OthersOK'
  BY <1>2, <1>3 DEF OthersOK, Insert
<1> QED
  BY <1>8, <1>9, <1>10 DEF TypeInv, TypeOK, IdBounds, JobsOK, RowsOK, OthersOK

LEMMA WrittenEvents ==
    /\ \A type \in PlainEventTypes : PlainEvent(type) \in Event
    /\ \A status \in RequestedStatuses : ShippingEvent(status) \in Event
BY DEF Event, PlainEvent, ShippingEvent, PlainEventTypes, EventTypes,
       ShippingStatuses

LEMMA NextTypeInv == TypeInv /\ [Next]_vars => TypeInv'
<1> SUFFICES ASSUME TypeInv, [Next]_vars PROVE TypeInv'
  OBVIOUS
<1> USE DEF JobsOK, RowsOK, OthersOK
<1>0. JobsOK(nextId) /\ RowsOK(nextId) /\ OthersOK
  BY TypeInvParts
<1>1. CASE UNCHANGED vars
  BY <1>1 DEF vars, TypeInv, TypeOK, IdBounds
<1>2. ASSUME NEW a \in Actors, NEW o \in Orders, PlaceOrder(a, o)
      PROVE  TypeInv'
  <2>1. PlainEvent("order_placed") \in Event
    BY WrittenEvents DEF PlainEventTypes
  <2>2. 0 < nextId
    BY <1>0
  <2>3. used' \in SUBSET Orders
    BY <1>0, <1>2 DEF PlaceOrder
  <2>4. /\ StartSend(a, o, 0, PlainEvent("order_placed"))
        /\ UNCHANGED <<log, nextId, topic, inflight, acked, removed>>
    BY <1>2 DEF PlaceOrder
  <2> QED
    BY <2>1, <2>2, <2>3, <2>4, StartSendTypeInv
<1>3. ASSUME NEW a \in Actors, NEW o \in Orders, PaymentInitializer(a, o)
      PROVE  TypeInv'
  BY <1>3, WrittenEvents, DecideTypeInv DEF PaymentInitializer, InitializePendingPayment,
      PlainEventTypes
<1>4. ASSUME NEW a \in Actors, NEW o \in Orders, PaymentProcessor(a, o)
      PROVE  TypeInv'
  BY <1>4, WrittenEvents, DecideTypeInv DEF PaymentProcessor, ProcessPayment, PlainEventTypes
<1>5. ASSUME NEW a \in Actors, NEW o \in Orders, CancelOrder(a, o)
      PROVE  TypeInv'
  BY <1>5, WrittenEvents, DecideTypeInv DEF CancelOrder, PlainEventTypes
<1>6. ASSUME NEW a \in Actors, NEW o \in Orders, UpdateShippingStatus(a, o)
      PROVE  TypeInv'
  BY <1>6, WrittenEvents, DecideTypeInv DEF UpdateShippingStatus
<1>7. ASSUME NEW a \in Actors, Insert(a) PROVE TypeInv'
  BY <1>7, InsertTypeInv
<1>8. ASSUME NEW a \in Actors, job' = [job EXCEPT ![a] = Idle],
             UNCHANGED nextId, RowsOK(nextId)', OthersOK'
      PROVE  TypeInv'
  <2>1. JobsOK(nextId)'
    BY <1>0, <1>8, EndOfSend
  <2> QED
    BY <1>8, <2>1 DEF TypeInv, TypeOK, IdBounds
<1>9. ASSUME NEW a \in Actors, InsertConflict(a) PROVE TypeInv'
  BY <1>0, <1>8, <1>9 DEF InsertConflict
<1>10. ASSUME NEW a \in Actors, TransactionFails(a) PROVE TypeInv'
  BY <1>0, <1>8, <1>10 DEF TransactionFails
<1>11. ASSUME NEW a \in Actors, Commit(a) PROVE TypeInv'
  <2>1. RowsOK(nextId)'
    BY <1>11, CommitRowsOK DEF Commit
  <2>2. JobsOK(nextId)'
    BY <1>11, PhaseOfSend DEF Commit, CommitRow
  <2>3. OthersOK'
    BY <1>0, <1>11 DEF Commit
  <2> QED
    BY <2>1, <2>2, <2>3 DEF TypeInv, TypeOK, IdBounds
<1>12. ASSUME NEW a \in Actors, CommitUnknown(a) PROVE TypeInv'
  <2>1. RowsOK(nextId)'
    BY <1>12, CommitRowsOK DEF CommitUnknown
  <2>2. OthersOK' /\ UNCHANGED nextId /\ job' = [job EXCEPT ![a] = Idle]
    BY <1>0, <1>12 DEF CommitUnknown
  <2> QED
    BY <1>8, <2>1, <2>2
<1>13. ASSUME NEW a \in Actors, Publish(a) PROVE TypeInv'
  <2>1. MessageOf(job[a]) \in Message /\ job[a].row.id \in Nat
    BY <1>13, MessageType, ActiveSend DEF Publish, TypeInv, Row
  <2>2. OthersOK' /\ RowsOK(nextId)'
    BY <1>0, <1>13, <2>1 DEF Publish
  <2> QED
    BY <1>8, <1>13, <2>2 DEF Publish
<1>14. ASSUME NEW a \in Actors, PublishFails(a) PROVE TypeInv'
  <2>1. MessageOf(job[a]) \in Message
    BY <1>14, MessageType DEF PublishFails, TypeInv
  <2>2. OthersOK' /\ RowsOK(nextId)'
    BY <1>0, <1>14, <2>1 DEF PublishFails
  <2>3. JobsOK(nextId)'
    BY <1>14, PhaseOfSend DEF PublishFails
  <2> QED
    BY <2>2, <2>3 DEF TypeInv, TypeOK, IdBounds
<1>15. ASSUME NEW a \in Actors, RemoveEvent(a) PROVE TypeInv'
  <2>1. RowsOK(nextId)' /\ removed' \in [Orders -> SUBSET Nat]
    BY <1>15, RemoveRowsOK
  <2>2. /\ UNCHANGED <<nextId, topic, inflight, used, acked>>
        /\ job' = [job EXCEPT ![a] = Idle]
    BY <1>15 DEF RemoveEvent
  <2>3. OthersOK'
    BY <1>0, <2>1, <2>2
  <2> QED
    BY <1>8, <2>1, <2>2, <2>3
<1>16. ASSUME NEW a \in Actors, RemoveFails(a) PROVE TypeInv'
  BY <1>0, <1>8, <1>16 DEF RemoveFails
<1>17. ASSUME NEW a \in Actors, Crash(a) PROVE TypeInv'
  <2>1. inflight' \in SUBSET Message
    BY <1>0, <1>17, MessageType DEF Crash, TypeInv
  <2>2. /\ UNCHANGED <<log, nextId, topic, used, acked, removed>>
        /\ job' = [job EXCEPT ![a] = Idle]
    BY <1>17 DEF Crash
  <2>3. OthersOK' /\ RowsOK(nextId)'
    BY <1>0, <2>1, <2>2
  <2> QED
    BY <1>8, <2>2, <2>3
<1>18. ASSUME NEW m \in inflight, LateDelivery(m) PROVE TypeInv'
  BY <1>0, <1>18 DEF LateDelivery, TypeInv, TypeOK, IdBounds
<1>19. CASE \E a \in Actors : Command(a)
  BY <1>2, <1>3, <1>4, <1>5, <1>6, <1>19 DEF Command
<1>20. CASE \E a \in Actors : Progress(a)
  BY <1>7, <1>9, <1>11, <1>13, <1>14, <1>15, <1>20 DEF Progress
<1>21. CASE \E a \in Actors : Failure(a)
  BY <1>10, <1>12, <1>16, <1>17, <1>21 DEF Failure
<1> QED
  BY <1>1, <1>18, <1>19, <1>20, <1>21 DEF Next

\* The state of the write path is always well-formed, whatever the table's
\* bound: the variables keep their types and every sequence number a command
\* computes with Max is a number below the next event id.
THEOREM TypeCorrect == Spec => []TypeOK
<1>1. Init => TypeInv
  BY InitTypeInv
<1>2. TypeInv /\ [Next]_vars => TypeInv'
  BY NextTypeInv
<1>3. TypeInv => TypeOK
  BY DEF TypeInv
<1> QED
  BY <1>1, <1>2, <1>3, PTL DEF Spec
=============================================================================
