---------------------------- MODULE OrderHistory ----------------------------
(***************************************************************************)
(* What the write path promises its callers: an order is a sequence of      *)
(* events to which commands append one at a time, each validated against    *)
(* everything before it.  The promise ends for an order when an event of it *)
(* is revoked, which TransactionProducer.Send does when it cannot publish:  *)
(* other commands may have been validated against the revoked event.        *)
(***************************************************************************)
EXTENDS Sequences

CONSTANTS
    Orders,
    Event,
    Accepts(_, _)   \* whether a command may append an event to some events

VARIABLES
    history,    \* order -> its events
    revoked     \* order -> whether an event of it was revoked

vars == <<history, revoked>>

Init ==
    /\ history = [o \in Orders |-> <<>>]
    /\ revoked = [o \in Orders |-> FALSE]

\* A command: validate and append in one step.  (The second conjunct follows
\* from the third and spares TLC the search for an event in most steps.)
Execute(o) ==
    /\ ~revoked[o]
    /\ history' # history
    /\ \E event \in Event :
         /\ history' = [history EXCEPT ![o] = Append(@, event)]
         /\ Accepts(history[o], event)
    /\ UNCHANGED revoked

\* An event of the order is taken back; nothing is promised of it any more.
Revoke(o) ==
    /\ revoked' = [revoked EXCEPT ![o] = TRUE]
    /\ \A p \in Orders \ {o} : history'[p] = history[p]

Next == \E o \in Orders : Execute(o) \/ Revoke(o)

Spec == Init /\ [][Next]_vars
=============================================================================
