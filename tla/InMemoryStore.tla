--------------------------- MODULE InMemoryStore ---------------------------
(***************************************************************************)
(* The doubles by which the tests replace Postgres and Kafka: InMemoryStore, *)
(* InMemoryBus and TestTransactor, under TransactionProducer.Send with a bus *)
(* that may fail (MockBus of producer_test.go).  A test is one goroutine.   *)
(*                                                                         *)
(* The store keeps one slice per aggregate.  What a Go slice does when two  *)
(* headers share an array is modelled by what it does: Remove shortens its  *)
(* own header, the store's header keeps its length.                         *)
(***************************************************************************)
EXTENDS Integers, Sequences, FiniteSets

CONSTANTS
    Aggregates,  \* aggregate ids
    MaxSends     \* bound: events sent

VARIABLES
    events,     \* aggregate -> its slice in the store
    bus,        \* what InMemoryBus got, in order
    numCalls,   \* TestTransactor.NumCalls
    pending,    \* the Send between Persist and Publish, or NoSend
    sent,       \* number of events given to Send so far
    accepted,   \* history: events whose Send returned nil
    panicked    \* the test died

vars == <<events, bus, numCalls, pending, sent, accepted, panicked>>

NoSend == [aggregate |-> "none"]

\* An event of the store is known by its number among the events sent;
\* serialized says that its AggregateId still has the form "type:id".
StoredEvent(id, number) == [id |-> id, number |-> number, serialized |-> TRUE]

Init ==
    /\ events = [a \in Aggregates |-> <<>>]
    /\ bus = <<>>
    /\ numCalls = 0
    /\ pending = NoSend
    /\ sent = 0
    /\ accepted = {}
    /\ panicked = FALSE

-----------------------------------------------------------------------------
(* Send *)

\* WithTx: the first step of a Send.  The event id is the length of the slice.
Persist(a) ==
    /\ pending = NoSend
    /\ sent < MaxSends
    /\ sent' = sent + 1
    /\ LET id == Len(events[a])
       IN  /\ events' = [events EXCEPT ![a] =
                           Append(@, StoredEvent(id, sent + 1))]
           /\ pending' = [aggregate |-> a, id |-> id, number |-> sent + 1]
    /\ numCalls' = numCalls + 1
    /\ UNCHANGED <<bus, accepted, panicked>>

Publish ==
    /\ pending # NoSend
    /\ bus' = Append(bus, pending.number)
    /\ accepted' = accepted \cup {pending.number}
    /\ pending' = NoSend
    /\ UNCHANGED <<events, numCalls, sent, panicked>>

\* append(events[:i], events[i+1:]...) in the array of a header of length len.
ShiftFrom(array, i, len) ==
    [k \in DOMAIN array |-> IF k \in i..(len - 1) THEN array[k + 1] ELSE array[k]]

\* The loop over one slice, after its first i indices: the array, the length of
\* the loop's own header, and whether a slice expression was out of bounds.
RemoveFrom(slice, id) ==
    LET loop[i \in 0..Len(slice)] ==
          IF i = 0 THEN [array |-> slice, len |-> Len(slice), bad |-> FALSE]
          ELSE LET s == loop[i - 1]
               IN  IF s.bad \/ s.array[i].id # id THEN s
                   ELSE [array |-> ShiftFrom(s.array, i, s.len),
                         len |-> s.len - 1,
                         bad |-> i > s.len]
    IN  loop[Len(slice)]

\* Remove visits every slice, in the order of a Go map, which is any order; a
\* panic ends the visit.  The loop's own header is dropped.
Remove(id) ==
    \E visited \in SUBSET Aggregates :
        LET bad == {a \in visited : RemoveFrom(events[a], id).bad}
        IN  /\ \/ visited = Aggregates /\ bad = {}
               \/ Cardinality(bad) = 1
            /\ events' = [a \in Aggregates |->
                            IF a \in visited THEN RemoveFrom(events[a], id).array
                                             ELSE events[a]]
            /\ panicked' = (bad # {})

\* Publish returns an error, and Send removes the event.
PublishFails ==
    /\ pending # NoSend
    /\ Remove(pending.id)
    /\ numCalls' = numCalls + 1
    /\ pending' = NoSend
    /\ UNCHANGED <<bus, sent, accepted>>

-----------------------------------------------------------------------------
(* Listing *)

\* The loop rewrites the aggregate id of the stored events, up to the first one
\* that is rewritten already: splitting that one is out of range.
ListByAggregateID(a) ==
    /\ pending = NoSend
    /\ LET rows == events[a]
           done == {n \in DOMAIN rows : \A k \in 1..n : rows[k].serialized}
       IN  /\ events' = [events EXCEPT ![a] =
                           [n \in DOMAIN rows |->
                              IF n \in done THEN [rows[n] EXCEPT !.serialized = FALSE]
                                            ELSE rows[n]]]
           /\ panicked' = (done # DOMAIN rows)
    /\ UNCHANGED <<bus, numCalls, pending, sent, accepted>>

-----------------------------------------------------------------------------
(* The specification *)

Next ==
    /\ ~panicked
    /\ \/ \E a \in Aggregates : Persist(a) \/ ListByAggregateID(a)
       \/ Publish
       \/ PublishFails

Spec == Init /\ [][Next]_vars

-----------------------------------------------------------------------------
(* Properties *)

Stored == UNION {{events[a][n].number : n \in DOMAIN events[a]} : a \in Aggregates}

\* store.go:188 "remove the event with the given eventId": between Sends the
\* store holds the events whose Send succeeded, neither the one that a failed
\* Send removed nor fewer of the others.
RemovesItsEvent == pending = NoSend /\ ~panicked => Stored = accepted
=============================================================================
