-------------------------- MODULE MessageDelivery --------------------------
(***************************************************************************)
(* What the bus and a consumer group promise together: a published message  *)
(* is attempted at least once, and only attempted messages are settled,     *)
(* that is, will not be delivered to a group that starts over.  An attempt  *)
(* may fail, be repeated, or be forgotten: settling does not wait for a     *)
(* success, and what was settled may come back.                             *)
(***************************************************************************)
CONSTANT Messages

VARIABLES
    published,  \* messages in the topic
    attempted,  \* messages whose handling has ended, well or not, at least once
    settled     \* messages that a restarted group does not get again

vars == <<published, attempted, settled>>

Init ==
    /\ published = {}
    /\ attempted = {}
    /\ settled = {}

Publish(m) ==
    /\ m \in Messages \ published
    /\ published' = published \cup {m}
    /\ UNCHANGED <<attempted, settled>>

Attempt(m) ==
    /\ m \in published \ attempted
    /\ attempted' = attempted \cup {m}
    /\ UNCHANGED <<published, settled>>

Settle ==
    /\ settled' \in SUBSET attempted
    /\ UNCHANGED <<published, attempted>>

Next == (\E m \in Messages : Publish(m) \/ Attempt(m)) \/ Settle

Spec == Init /\ [][Next]_vars

FairSpec == Spec /\ \A m \in Messages : WF_vars(Attempt(m))
=============================================================================
