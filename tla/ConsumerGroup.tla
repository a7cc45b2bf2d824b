--------------------------- MODULE ConsumerGroup ---------------------------
(***************************************************************************)
(* The consumer loop and its consumer group: readers with one GroupID share *)
(* the partitions of the topic.  Each runs RunKafkaConsumer:                *)
(*                                                                         *)
(*   "fetch"    in FetchMessage                                             *)
(*   "consume"  in consumer.Consume, with a message in hand                 *)
(*   "commit"   in CommitMessages, after Consume returned nil               *)
(*   "sleep"    in the delay after any error                                *)
(*                                                                         *)
(* An error of Consume does not bring the reader back to that message: the  *)
(* next FetchMessage returns the one after it.                              *)
(*                                                                         *)
(* A member keeps the message in its hand through a rebalance and commits   *)
(* it in the generation it then belongs to, also when the partition has     *)
(* another owner by then and the offset lies behind.                        *)
(***************************************************************************)
EXTENDS Naturals, FiniteSets

CONSTANTS
    Members,        \* readers of the group, one per instance of the program
    Partitions,     \* partitions of the topic
    MaxMessages,    \* bound: messages published to a partition
    MaxGenerations  \* bound: generations of the group, the first included

ASSUME BoundsAssumption == MaxMessages \in Nat /\ MaxGenerations \in Nat

VARIABLES
    end,         \* partition -> number of messages published to it
    committed,   \* partition -> the group's committed offset
    position,    \* partition -> offset of the next message for its owner
    owner,       \* partition -> member it is assigned to
    generation,  \* generation of the group
    loop,        \* member -> where its loop is, and the message in its hand
    attempted,   \* history: messages whose Consume returned, nil or an error
    fetched      \* history: messages fetched in this generation

topicVars == <<end, committed>>
groupVars == <<position, owner, generation>>
historyVars == <<attempted, fetched>>
vars == <<topicVars, groupVars, loop, historyVars>>

-----------------------------------------------------------------------------
(* The state *)

\* A message is named by its place in the topic.
Messages == Partitions \X (0..(MaxMessages - 1))

Waiting == {[pc |-> "fetch"], [pc |-> "sleep"]}

Working == [pc : {"consume", "commit"}, message : Messages]

InHand(x) == loop[x].pc \in {"consume", "commit"}

\* No offset passes the end of its partition, and what a member has in hand is
\* in the topic.
WithinTopic ==
    /\ \A p \in Partitions : committed[p] <= end[p] /\ position[p] <= end[p]
    /\ \A x \in Members : InHand(x) =>
         loop[x].message[2] < end[loop[x].message[1]]

TypeOK ==
    /\ end \in [Partitions -> 0..MaxMessages]
    /\ committed \in [Partitions -> 0..MaxMessages]
    /\ position \in [Partitions -> 0..MaxMessages]
    /\ owner \in [Partitions -> Members]
    /\ generation \in Nat \ {0}
    /\ loop \in [Members -> Waiting \cup Working]
    /\ attempted \in SUBSET Messages
    /\ fetched \in SUBSET Messages
    /\ WithinTopic

\* A new group starts at the first offset.
Init ==
    /\ end = [p \in Partitions |-> 0]
    /\ committed = [p \in Partitions |-> 0]
    /\ position = [p \in Partitions |-> 0]
    /\ owner \in [Partitions -> Members]
    /\ generation = 1
    /\ loop = [x \in Members |-> [pc |-> "fetch"]]
    /\ attempted = {}
    /\ fetched = {}

Goto(x, pc) == loop' = [loop EXCEPT ![x] = [pc |-> pc]]

-----------------------------------------------------------------------------
(* Faulty variants of definitions below, by which the runs' properties are   *)
(* tested; no behaviour of Spec uses them.                                  *)

\* The reader waits for a message one offset too late.
FaultyFetchPastEnd(x, p) ==
    /\ loop[x].pc = "fetch"
    /\ owner[p] = x
    /\ position[p] <= end[p]
    /\ position' = [position EXCEPT ![p] = @ + 1]
    /\ loop' = [loop EXCEPT ![x] = [pc |-> "consume",
                                     message |-> <<p, position[p]>>]]
    /\ fetched' = fetched \cup {<<p, position[p]>>}
    /\ UNCHANGED <<topicVars, owner, generation, attempted>>

\* ReadMessage in the place of FetchMessage: it commits what it returns.
FaultyReadMessage(x, p) ==
    /\ loop[x].pc = "fetch"
    /\ owner[p] = x
    /\ position[p] < end[p]
    /\ position' = [position EXCEPT ![p] = @ + 1]
    /\ committed' = [committed EXCEPT ![p] = position[p] + 1]
    /\ loop' = [loop EXCEPT ![x] = [pc |-> "consume",
                                     message |-> <<p, position[p]>>]]
    /\ fetched' = fetched \cup {<<p, position[p]>>}
    /\ UNCHANGED <<end, owner, generation, attempted>>

\* A failed message is fetched again.
FaultyConsumeFailsRewinds(x) ==
    /\ loop[x].pc = "consume"
    /\ attempted' = attempted \cup {loop[x].message}
    /\ position' = [position EXCEPT ![loop[x].message[1]] = loop[x].message[2]]
    /\ Goto(x, "sleep")
    /\ UNCHANGED <<topicVars, owner, generation, fetched>>

\* A partition's new owner goes on where the old one was.
FaultyNewGenerationKeepsPosition ==
    /\ generation < MaxGenerations
    /\ generation' = generation + 1
    /\ owner' \in [Partitions -> Members]
    /\ position' = position
    /\ fetched' = {}

\* The loop ends at the first error.
FaultyWakeNever(x) == loop[x].pc = "sleep" /\ UNCHANGED vars

-----------------------------------------------------------------------------
(* The loop *)

\* KafkaBus.Publish: a message without a key goes to some partition.
Publish(p) ==
    /\ end[p] < MaxMessages
    /\ end' = [end EXCEPT ![p] = @ + 1]
    /\ UNCHANGED <<committed, groupVars, loop, historyVars>>

Fetch(x, p) ==
    /\ loop[x].pc = "fetch"
    /\ owner[p] = x
    /\ position[p] < end[p]
    /\ position' = [position EXCEPT ![p] = @ + 1]
    /\ loop' = [loop EXCEPT ![x] = [pc |-> "consume",
                                     message |-> <<p, position[p]>>]]
    /\ fetched' = fetched \cup {<<p, position[p]>>}
    /\ UNCHANGED <<topicVars, owner, generation, attempted>>

FetchFails(x) ==
    /\ loop[x].pc = "fetch"
    /\ Goto(x, "sleep")
    /\ UNCHANGED <<topicVars, groupVars, historyVars>>

\* A message always has its three headers (KafkaBus.Publish writes them), so
\* that only Consume itself can fail between fetch and commit.
ConsumeSucceeds(x) ==
    /\ loop[x].pc = "consume"
    /\ attempted' = attempted \cup {loop[x].message}
    /\ loop' = [loop EXCEPT ![x].pc = "commit"]
    /\ UNCHANGED <<topicVars, groupVars, fetched>>

ConsumeFails(x) ==
    /\ loop[x].pc = "consume"
    /\ attempted' = attempted \cup {loop[x].message}
    /\ Goto(x, "sleep")
    /\ UNCHANGED <<topicVars, groupVars, fetched>>

\* The offset after the message becomes the committed one, whatever it was.
CommitOffset(x) ==
    LET m == loop[x].message
    IN  committed' = [committed EXCEPT ![m[1]] = m[2] + 1]

CommitMessages(x) ==
    /\ loop[x].pc = "commit"
    /\ CommitOffset(x)
    /\ Goto(x, "fetch")
    /\ UNCHANGED <<end, groupVars, historyVars>>

\* The error says nothing of whether the broker stored the offset.
CommitMessagesFails(x) ==
    /\ loop[x].pc = "commit"
    /\ CommitOffset(x) \/ UNCHANGED committed
    /\ Goto(x, "sleep")
    /\ UNCHANGED <<end, groupVars, historyVars>>

Wake(x) ==
    /\ loop[x].pc = "sleep"
    /\ Goto(x, "fetch")
    /\ UNCHANGED <<topicVars, groupVars, historyVars>>

-----------------------------------------------------------------------------
(* The group *)

\* The partitions are assigned anew, and each new owner starts from the
\* committed offset.
NewGeneration ==
    /\ generation < MaxGenerations
    /\ generation' = generation + 1
    /\ owner' \in [Partitions -> Members]
    /\ position' = committed
    /\ fetched' = {}

\* A member joins or leaves, or misses its heartbeats.  What members have in
\* hand stays there; what their readers have fetched ahead of FetchMessage is
\* taken to be dropped with the old generation.
Rebalance ==
    /\ NewGeneration
    /\ UNCHANGED <<topicVars, loop, attempted>>

\* The process ends, whatever its loop was doing, and starts again.
Crash(x) ==
    /\ NewGeneration
    /\ Goto(x, "fetch")
    /\ UNCHANGED <<topicVars, attempted>>

-----------------------------------------------------------------------------
(* The specification *)

\* Consume and CommitMessages return, well or not, and the delay ends.
Progress(x) ==
    \/ ConsumeSucceeds(x)
    \/ ConsumeFails(x)
    \/ CommitMessages(x)
    \/ CommitMessagesFails(x)
    \/ Wake(x)

Next ==
    \/ \E p \in Partitions : Publish(p)
    \/ \E x \in Members :
         \/ \E p \in Partitions : Fetch(x, p)
         \/ FetchFails(x)
         \/ Progress(x)
         \/ Crash(x)
    \/ Rebalance

Spec == Init /\ [][Next]_vars

\* FetchMessage may fail, but not for ever, and the reader merges the messages
\* of its partitions in the order they come, so that none waits for ever.
FairSpec ==
    /\ Spec
    /\ \A x \in Members :
         /\ WF_vars(Progress(x))
         /\ \A p \in Partitions : SF_vars(Fetch(x, p))

-----------------------------------------------------------------------------
(* Properties *)

Settled == {m \in Messages : m[2] < committed[m[1]]}

\* The committed offset never passes a message that nobody tried (consumer.go
\* commits only after Consume, and commits one message at a time): whatever is
\* below it went through Consume, also when readers of an older generation
\* commit late, processes crash and commits take effect without a reply.
NoneSettledUntried == Settled \subseteq attempted

\* No message is skipped (consumer.go goes on after an error, whoever reads next
\* starts from the committed offset): what the position of a partition has
\* passed was tried, or its owner has it in hand, also after the owner changed
\* or died with a message in its hand.
NoneSkipped ==
    \A m \in Messages : m[2] < position[m[1]] =>
        \/ m \in attempted
        \/ /\ InHand(owner[m[1]])
           /\ loop[owner[m[1]]].message = m

\* A message is fetched at most once in each generation, so a message is
\* redelivered only by a restart or a rebalance and not because its Consume
\* failed (the loop never seeks back).
OncePerGeneration ==
    [][\A x \in Members :
         loop[x].pc = "fetch" /\ loop'[x].pc = "consume" =>
             loop'[x].message \notin fetched]_vars

\* The bus with a group of loops delivers as MessageDelivery promises: every
\* published message is attempted in the end, though fetches, handlers and
\* commits may fail at any time and readers come and go.
Delivery ==
    INSTANCE MessageDelivery
        WITH published <- {m \in Messages : m[2] < end[m[1]]},
             settled <- Settled

AtLeastOneAttempt == Delivery!FairSpec
=============================================================================
