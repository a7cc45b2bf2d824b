------------------------ MODULE ConsumerGroupProofs ------------------------
(***************************************************************************)
(* Safety of the consumer group, for any members, partitions and bounds:    *)
(* no reader steps over a message that was never attempted, so that the     *)
(* committed offset passes attempted messages only; no message is fetched   *)
(* twice in a generation; and the group implements MessageDelivery.         *)
(***************************************************************************)
EXTENDS ConsumerGroup, TLAPS

-----------------------------------------------------------------------------
(* The inductive invariant *)

\* A reader handles the messages of a partition one by one.
TriedBefore ==
    \A x \in Members : InHand(x) =>
        \A m \in Messages :
            m[1] = loop[x].message[1] /\ m[2] < loop[x].message[2] => m \in attempted

\* Only a message that was tried is committed.
CommitsTried == \A x \in Members : loop[x].pc = "commit" => loop[x].message \in attempted

\* The position has passed what was fetched in this generation.
FetchedPassed == \A m \in fetched : m[2] < position[m[1]]

Tried ==
    /\ TriedBefore
    /\ CommitsTried
    /\ NoneSkipped
    /\ FetchedPassed
    /\ NoneSettledUntried

-----------------------------------------------------------------------------
(* Types *)

LEMMA TypeInit == Init => TypeOK
<1> SUFFICES ASSUME Init PROVE TypeOK
  OBVIOUS
<1>1. 0 \in 0..MaxMessages /\ 1 \in Nat \ {0}
  BY BoundsAssumption
<1>2. [pc |-> "fetch"] \in Waiting \cup Working
  BY DEF Waiting
<1> QED
  BY <1>1, <1>2 DEF Init, TypeOK, WithinTopic, InHand

LEMMA MessageParts ==
    ASSUME NEW m \in Messages
    PROVE  /\ m = <<m[1], m[2]>>
           /\ m[1] \in Partitions
           /\ m[2] \in Nat
           /\ m[2] + 1 \in 0..MaxMessages
  BY BoundsAssumption DEF Messages

\* The member's loop goes to a state without a message.
LEMMA GotoType ==
    ASSUME TypeOK, NEW x \in Members, NEW pc \in {"fetch", "sleep"}, Goto(x, pc)
    PROVE  /\ loop' \in [Members -> Waiting \cup Working]
           /\ \A y \in Members : InHand(y)' => InHand(y) /\ loop'[y] = loop[y]
<1>1. [pc |-> pc] \in Waiting
  BY DEF Waiting
<1>2. \A y \in Members : loop'[y] = IF y = x THEN [pc |-> pc] ELSE loop[y]
  BY DEF TypeOK, Goto
<1> QED
  BY <1>1, <1>2 DEF TypeOK, Goto, InHand

LEMMA WorkingParts ==
    ASSUME TypeOK, NEW x \in Members, InHand(x)
    PROVE  /\ loop[x] \in Working
           /\ loop[x].message \in Messages
<1>1. loop[x] \notin Waiting
  BY DEF InHand, Waiting
<1> QED
  BY <1>1 DEF TypeOK, Working

\* Steps after which nobody has another message in hand.
LEMMA WithinKept ==
    ASSUME TypeOK, UNCHANGED end,
           \A p \in Partitions : committed'[p] <= end[p] /\ position'[p] <= end[p],
           \A y \in Members : InHand(y)' =>
               InHand(y) /\ loop'[y].message = loop[y].message
    PROVE  WithinTopic'
  BY DEF TypeOK, WithinTopic

LEMMA FetchType ==
    ASSUME TypeOK, NEW x \in Members, NEW p \in Partitions, Fetch(x, p)
    PROVE  /\ <<p, position[p]>> \in Messages
           /\ TypeOK'
<1>1. /\ position[p] \in 0..MaxMessages
      /\ end[p] \in 0..MaxMessages
      /\ position[p] < end[p]
  BY DEF TypeOK, Fetch
<1>2. position[p] \in 0..(MaxMessages - 1) /\ position[p] + 1 \in 0..MaxMessages
  BY <1>1, BoundsAssumption
<1>3. <<p, position[p]>> \in Messages
  BY <1>2 DEF Messages
<1>4. [pc |-> "consume", message |-> <<p, position[p]>>] \in Working
  BY <1>3 DEF Working
<1>5. loop' \in [Members -> Waiting \cup Working]
  BY <1>4 DEF TypeOK, Fetch
<1>6. position' \in [Partitions -> 0..MaxMessages]
  BY <1>2 DEF TypeOK, Fetch
<1>7. WithinTopic'
  <2>1. UNCHANGED <<end, committed>>
    BY DEF Fetch, topicVars
  <2>2. \A q \in Partitions : position'[q] <= end[q]
    BY <1>1 DEF TypeOK, WithinTopic, Fetch
  <2>3. loop'[x].message = <<p, position[p]>>
    BY DEF TypeOK, Fetch
  <2>4. \A y \in Members \ {x} : loop'[y] = loop[y]
    BY DEF TypeOK, Fetch
  <2> QED
    BY <1>1, <2>1, <2>2, <2>3, <2>4 DEF TypeOK, WithinTopic, InHand
<1> QED
  BY <1>3, <1>5, <1>6, <1>7 DEF TypeOK, Fetch, topicVars

LEMMA CommitType ==
    ASSUME TypeOK, NEW x \in Members, InHand(x), CommitOffset(x)
    PROVE  /\ committed' \in [Partitions -> 0..MaxMessages]
           /\ \A p \in Partitions : committed'[p] <= end[p]
<1> DEFINE m == loop[x].message
<1>1. m \in Messages
  BY WorkingParts
<1>2. m[1] \in Partitions /\ m[2] \in Nat /\ m[2] + 1 \in 0..MaxMessages
  BY <1>1, MessageParts
<1>3. m[2] < end[m[1]] /\ end[m[1]] \in Nat
  BY <1>2 DEF TypeOK, WithinTopic
<1>4. m[2] + 1 <= end[m[1]]
  BY <1>2, <1>3
<1>5. \A p \in Partitions : committed'[p] = IF p = m[1] THEN m[2] + 1 ELSE committed[p]
  BY DEF TypeOK, CommitOffset
<1>6. committed' \in [Partitions -> 0..MaxMessages]
  BY <1>2 DEF TypeOK, CommitOffset
<1> QED
  BY <1>4, <1>5, <1>6 DEF TypeOK, WithinTopic

LEMMA GenerationType ==
    ASSUME TypeOK, NewGeneration, UNCHANGED topicVars
    PROVE  /\ position' \in [Partitions -> 0..MaxMessages]
           /\ owner' \in [Partitions -> Members]
           /\ generation' \in Nat \ {0}
           /\ fetched' \in SUBSET Messages
           /\ \A p \in Partitions : committed'[p] <= end[p] /\ position'[p] <= end[p]
  BY DEF TypeOK, WithinTopic, NewGeneration, topicVars

LEMMA TypeStep == TypeOK /\ [Next]_vars => TypeOK'
<1> SUFFICES ASSUME TypeOK, [Next]_vars PROVE TypeOK'
  OBVIOUS
<1>1. CASE UNCHANGED vars
  BY <1>1 DEF TypeOK, WithinTopic, InHand, vars, topicVars, groupVars, historyVars
<1>2. ASSUME NEW p \in Partitions, Publish(p) PROVE TypeOK'
  <2>1. end[p] + 1 \in 0..MaxMessages
    BY <1>2, BoundsAssumption DEF TypeOK, Publish
  <2>2. \A q \in Partitions : end[q] \in Nat /\ end'[q] \in Nat /\ end[q] <= end'[q]
    BY <1>2, <2>1 DEF TypeOK, Publish
  <2>3. UNCHANGED <<committed, position, loop>>
    BY <1>2 DEF Publish, groupVars
  <2>4. \A q \in Partitions : committed[q] \in Nat /\ position[q] \in Nat
    BY DEF TypeOK
  <2>5. \A q \in Partitions : committed[q] <= end'[q] /\ position[q] <= end'[q]
    BY <2>2, <2>4 DEF TypeOK, WithinTopic
  <2>6. ASSUME NEW x \in Members, InHand(x)
        PROVE  loop[x].message[2] < end'[loop[x].message[1]]
    <3>1. loop[x].message[1] \in Partitions /\ loop[x].message[2] \in Nat
      BY <2>6, WorkingParts, MessageParts
    <3>2. loop[x].message[2] < end[loop[x].message[1]]
      BY <2>6 DEF TypeOK, WithinTopic
    <3> QED
      BY <2>2, <3>1, <3>2
  <2>7. WithinTopic'
    BY <2>3, <2>5, <2>6 DEF WithinTopic, InHand
  <2> QED
    BY <1>2, <2>1, <2>7 DEF TypeOK, Publish, groupVars, historyVars
<1>3. ASSUME NEW x \in Members, NEW p \in Partitions, Fetch(x, p) PROVE TypeOK'
  BY <1>3, FetchType
<1>4. ASSUME NEW x \in Members, FetchFails(x) \/ Wake(x) PROVE TypeOK'
  <2>1. UNCHANGED <<end, committed, groupVars, historyVars>>
    BY <1>4 DEF FetchFails, Wake, topicVars
  <2>2. /\ loop' \in [Members -> Waiting \cup Working]
        /\ \A y \in Members : InHand(y)' => InHand(y) /\ loop'[y] = loop[y]
    BY <1>4, GotoType DEF FetchFails, Wake
  <2>3. WithinTopic'
    BY <2>1, <2>2, WithinKept DEF TypeOK, WithinTopic, groupVars
  <2> QED
    BY <2>1, <2>2, <2>3 DEF TypeOK, groupVars, historyVars
<1>5. ASSUME NEW x \in Members, ConsumeSucceeds(x) PROVE TypeOK'
  <2>1. loop[x] \in Working /\ loop[x].message \in Messages /\ InHand(x)
    BY <1>5, WorkingParts DEF ConsumeSucceeds, InHand
  <2>2. /\ [loop[x] EXCEPT !.pc = "commit"] \in Working
        /\ [loop[x] EXCEPT !.pc = "commit"].message = loop[x].message
    BY <2>1 DEF Working
  <2>3. loop' \in [Members -> Waiting \cup Working]
    BY <1>5, <2>2 DEF TypeOK, ConsumeSucceeds
  <2>4. \A y \in Members : loop'[y] = IF y = x THEN [loop[x] EXCEPT !.pc = "commit"]
                                               ELSE loop[y]
    BY <1>5 DEF TypeOK, ConsumeSucceeds
  <2>5. \A y \in Members : InHand(y)' => InHand(y) /\ loop'[y].message = loop[y].message
    BY <2>1, <2>2, <2>4 DEF InHand
  <2>6. UNCHANGED <<end, committed, groupVars, fetched>>
    BY <1>5 DEF ConsumeSucceeds, topicVars
  <2>7. WithinTopic'
    BY <2>5, <2>6, WithinKept DEF TypeOK, WithinTopic, groupVars
  <2> QED
    BY <1>5, <2>1, <2>3, <2>6, <2>7 DEF TypeOK, ConsumeSucceeds, groupVars
<1>6. ASSUME NEW x \in Members, ConsumeFails(x) PROVE TypeOK'
  <2>1. loop[x].message \in Messages
    BY <1>6, WorkingParts DEF ConsumeFails, InHand
  <2>2. /\ loop' \in [Members -> Waiting \cup Working]
        /\ \A y \in Members : InHand(y)' => InHand(y) /\ loop'[y] = loop[y]
    BY <1>6, GotoType DEF ConsumeFails
  <2>3. UNCHANGED <<end, committed, groupVars, fetched>>
    BY <1>6 DEF ConsumeFails, topicVars
  <2>4. WithinTopic'
    BY <2>2, <2>3, WithinKept DEF TypeOK, WithinTopic, groupVars
  <2> QED
    BY <1>6, <2>1, <2>2, <2>3, <2>4 DEF TypeOK, ConsumeFails, groupVars
<1>7. ASSUME NEW x \in Members, CommitMessages(x) \/ CommitMessagesFails(x)
      PROVE  TypeOK'
  <2>1. /\ loop' \in [Members -> Waiting \cup Working]
        /\ \A y \in Members : InHand(y)' => InHand(y) /\ loop'[y] = loop[y]
    BY <1>7, GotoType DEF CommitMessages, CommitMessagesFails
  <2>2. UNCHANGED <<end, groupVars, historyVars>>
    BY <1>7 DEF CommitMessages, CommitMessagesFails
  <2>3. /\ committed' \in [Partitions -> 0..MaxMessages]
        /\ \A p \in Partitions : committed'[p] <= end[p]
    <3>1. CASE CommitOffset(x)
      BY <1>7, <3>1, CommitType DEF CommitMessages, CommitMessagesFails, InHand
    <3>2. CASE UNCHANGED committed
      BY <3>2 DEF TypeOK, WithinTopic
    <3> QED
      BY <1>7, <3>1, <3>2 DEF CommitMessages, CommitMessagesFails
  <2>4. WithinTopic'
    BY <2>1, <2>2, <2>3, WithinKept DEF TypeOK, WithinTopic, groupVars
  <2> QED
    BY <2>1, <2>2, <2>3, <2>4 DEF TypeOK, groupVars, historyVars
<1>8. ASSUME NEW x \in Members, Crash(x) PROVE TypeOK'
  <2>1. /\ loop' \in [Members -> Waiting \cup Working]
        /\ \A y \in Members : InHand(y)' => InHand(y) /\ loop'[y] = loop[y]
    BY <1>8, GotoType DEF Crash
  <2>2. WithinTopic'
    BY <1>8, <2>1, GenerationType, WithinKept DEF Crash, topicVars
  <2> QED
    BY <1>8, <2>1, <2>2, GenerationType DEF TypeOK, Crash, topicVars
<1>9. ASSUME Rebalance PROVE TypeOK'
  <2>1. WithinTopic'
    BY <1>9, GenerationType, WithinKept DEF Rebalance, topicVars, InHand
  <2> QED
    BY <1>9, <2>1, GenerationType DEF TypeOK, Rebalance, topicVars
<1> QED
  BY <1>1, <1>2, <1>3, <1>4, <1>5, <1>6, <1>7, <1>8, <1>9 DEF Next, Progress

-----------------------------------------------------------------------------
(* What is settled was tried *)

LEMMA TriedInit == Init => Tried
<1> SUFFICES ASSUME Init PROVE Tried
  OBVIOUS
<1>1. \A x \in Members : ~InHand(x) /\ loop[x].pc # "commit"
  BY DEF Init, InHand
<1>2. \A m \in Messages : ~(m[2] < position[m[1]]) /\ ~(m[2] < committed[m[1]])
  BY MessageParts DEF Init
<1> QED
  BY <1>1, <1>2 DEF Init, Tried, TriedBefore, CommitsTried, NoneSkipped,
                    FetchedPassed, NoneSettledUntried, Settled

\* A reader that drops what it has in hand, having tried it.
LEMMA TriedGoto ==
    ASSUME TypeOK, Tried, NEW x \in Members, NEW pc \in {"fetch", "sleep"}, Goto(x, pc),
           attempted \subseteq attempted',
           InHand(x) => loop[x].message \in attempted',
           UNCHANGED <<position, owner, fetched>>,
           NoneSettledUntried'
    PROVE  Tried'
<1>1. \A y \in Members : InHand(y)' => y # x /\ loop'[y] = loop[y] /\ InHand(y)
  BY DEF TypeOK, Goto, InHand
<1>2. TriedBefore'
  BY <1>1 DEF Tried, TriedBefore
<1>3. CommitsTried'
  BY <1>1 DEF Tried, CommitsTried, InHand
<1>4. NoneSkipped'
  <2> SUFFICES ASSUME NEW m \in Messages, m[2] < position[m[1]], m \notin attempted'
               PROVE  InHand(owner[m[1]])' /\ loop'[owner[m[1]]].message = m
    BY DEF NoneSkipped
  <2>1. InHand(owner[m[1]]) /\ loop[owner[m[1]]].message = m
    BY DEF Tried, NoneSkipped
  <2>2. owner[m[1]] # x
    BY <2>1
  <2> QED
    BY <2>1, <2>2 DEF Goto, InHand, TypeOK
<1>5. FetchedPassed'
  BY DEF Tried, FetchedPassed
<1> QED
  BY <1>2, <1>3, <1>4, <1>5 DEF Tried

LEMMA TriedFetch ==
    ASSUME TypeOK, Tried, NEW x \in Members, NEW p \in Partitions, Fetch(x, p)
    PROVE  Tried'
<1> DEFINE new == <<p, position[p]>>
<1>1. new \in Messages /\ position[p] \in Nat
  BY FetchType, MessageParts DEF TypeOK
<1>2. loop'[x].pc = "consume" /\ loop'[x].message = new
  BY DEF Fetch, TypeOK
<1>3. \A y \in Members \ {x} : loop'[y] = loop[y]
  BY DEF Fetch, TypeOK
<1>4. owner[p] = x /\ ~InHand(x) /\ UNCHANGED <<owner, attempted, committed>>
  BY DEF Fetch, InHand, topicVars
<1>5. \A m \in Messages : m[2] < position[m[1]] => m[2] < position'[m[1]]
  BY MessageParts DEF Fetch, TypeOK
<1>6. \A m \in Messages : m[2] < position'[m[1]] => m = new \/ m[2] < position[m[1]]
  BY MessageParts DEF Fetch, TypeOK
<1> HIDE DEF new
<1>7. TriedBefore'
  <2> SUFFICES ASSUME NEW y \in Members, InHand(y)', NEW m \in Messages,
                      m[1] = loop'[y].message[1], m[2] < loop'[y].message[2]
               PROVE  m \in attempted
    BY <1>4 DEF TriedBefore
  <2>1. CASE y = x
    <3>1. m[1] = p /\ m[2] < position[m[1]]
      BY <1>2, <2>1 DEF new
    <3> QED
      BY <3>1, <1>4 DEF Tried, NoneSkipped
  <2>2. CASE y # x
    BY <1>3, <2>2 DEF Tried, TriedBefore, InHand
  <2> QED
    BY <2>1, <2>2
<1>8. CommitsTried'
  BY <1>2, <1>3, <1>4 DEF Tried, CommitsTried
<1>9. NoneSkipped'
  <2> SUFFICES ASSUME NEW m \in Messages, m[2] < position'[m[1]], m \notin attempted
               PROVE  InHand(owner[m[1]])' /\ loop'[owner[m[1]]].message = m
    BY <1>4 DEF NoneSkipped
  <2>1. CASE m = new
    BY <1>2, <1>4, <2>1 DEF InHand, new
  <2>2. CASE m # new
    <3>1. InHand(owner[m[1]]) /\ loop[owner[m[1]]].message = m
      BY <1>6, <2>2 DEF Tried, NoneSkipped
    <3>2. owner[m[1]] \in Members \ {x} /\ owner' = owner
      BY <1>4, <3>1, MessageParts DEF TypeOK
    <3>3. loop'[owner[m[1]]] = loop[owner[m[1]]]
      BY <1>3, <3>2
    <3> QED
      BY <3>1, <3>2, <3>3 DEF InHand
  <2> QED
    BY <2>1, <2>2
<1>10. FetchedPassed'
  <2>1. fetched' = fetched \cup {new} /\ fetched \subseteq Messages
    BY DEF Fetch, TypeOK, new
  <2>2. new[2] < position'[new[1]]
    BY <1>1 DEF Fetch, TypeOK, new
  <2> QED
    BY <1>5, <2>1, <2>2 DEF Tried, FetchedPassed
<1>11. NoneSettledUntried'
  BY <1>4 DEF Tried, NoneSettledUntried, Settled
<1> QED
  BY <1>7, <1>8, <1>9, <1>10, <1>11 DEF Tried

LEMMA TriedConsumeSucceeds ==
    ASSUME TypeOK, Tried, NEW x \in Members, ConsumeSucceeds(x)
    PROVE  Tried'
<1>1. loop[x].message \in Messages /\ InHand(x)
  BY WorkingParts DEF ConsumeSucceeds, InHand
<1>2. /\ \A y \in Members : InHand(y)' <=> InHand(y)
      /\ \A y \in Members : InHand(y) => loop'[y].message = loop[y].message
      /\ loop'[x].message \in attempted'
      /\ \A y \in Members \ {x} : loop'[y] = loop[y]
  <2>1. loop[x] \in Working
    BY <1>1, WorkingParts
  <2> QED
    BY <2>1 DEF ConsumeSucceeds, InHand, TypeOK, Working
<1>3. attempted \subseteq attempted' /\ UNCHANGED <<position, owner, fetched, committed>>
  BY DEF ConsumeSucceeds, topicVars, groupVars
<1>4. TriedBefore'
  BY <1>2, <1>3 DEF Tried, TriedBefore
<1>5. CommitsTried'
  BY <1>2, <1>3 DEF Tried, CommitsTried
<1>6. NoneSkipped'
  <2>1. \A m \in Messages : owner[m[1]] \in Members
    BY MessageParts DEF TypeOK
  <2> QED
    BY <1>2, <1>3, <2>1 DEF Tried, NoneSkipped
<1>7. FetchedPassed'
  BY <1>3 DEF Tried, FetchedPassed
<1>8. NoneSettledUntried'
  BY <1>3 DEF Tried, NoneSettledUntried, Settled
<1> QED
  BY <1>4, <1>5, <1>6, <1>7, <1>8 DEF Tried

\* Storing the offset after a tried message whose predecessors were tried.
LEMMA SettledByCommit ==
    ASSUME TypeOK, Tried, NEW x \in Members, loop[x].pc = "commit",
           CommitOffset(x) \/ UNCHANGED committed, UNCHANGED attempted
    PROVE  NoneSettledUntried'
<1>1. InHand(x) /\ loop[x].message \in Messages
  BY WorkingParts DEF InHand
<1> DEFINE k == loop[x].message
<1> SUFFICES ASSUME NEW m \in Messages, m[2] < committed'[m[1]] PROVE m \in attempted
  BY DEF NoneSettledUntried, Settled
<1>2. CASE m[2] < committed[m[1]]
  BY <1>2 DEF Tried, NoneSettledUntried, Settled
<1>3. CASE ~(m[2] < committed[m[1]])
  <2>1. m[1] = k[1] /\ m[2] < k[2] + 1
    BY <1>1, <1>3, MessageParts DEF CommitOffset, TypeOK
  <2>2. m[2] < k[2] \/ m[2] = k[2]
    BY <2>1, <1>1, MessageParts
  <2>3. m[2] = k[2] => m = k
    BY <2>1, <1>1, MessageParts
  <2> QED
    BY <1>1, <2>1, <2>2, <2>3 DEF Tried, TriedBefore, CommitsTried
<1> QED
  BY <1>2, <1>3

\* A new generation starts at the committed offsets.
LEMMA TriedGeneration ==
    ASSUME TypeOK, Tried, NewGeneration, UNCHANGED <<committed, attempted>>,
           \A x \in Members : InHand(x)' => loop'[x] = loop[x]
    PROVE  Tried'
<1>1. NoneSettledUntried'
  BY DEF Tried, NoneSettledUntried, Settled
<1>2. NoneSkipped'
  BY DEF Tried, NoneSettledUntried, Settled, NoneSkipped, NewGeneration
<1>3. FetchedPassed'
  BY DEF FetchedPassed, NewGeneration
<1>4. TriedBefore' /\ CommitsTried'
  BY DEF Tried, TriedBefore, CommitsTried, InHand
<1> QED
  BY <1>1, <1>2, <1>3, <1>4 DEF Tried

LEMMA TriedStep == TypeOK /\ Tried /\ [Next]_vars => Tried'
<1> SUFFICES ASSUME TypeOK, Tried, [Next]_vars PROVE Tried'
  OBVIOUS
<1> USE DEF topicVars, groupVars, historyVars
<1>1. CASE UNCHANGED vars
  BY <1>1 DEF vars, Tried, TriedBefore, CommitsTried, NoneSkipped,
              FetchedPassed, NoneSettledUntried, Settled, InHand
<1>2. ASSUME NEW p \in Partitions, Publish(p) PROVE Tried'
  BY <1>2 DEF Publish, Tried, TriedBefore, CommitsTried, NoneSkipped,
              FetchedPassed, NoneSettledUntried, Settled, InHand
<1>3. ASSUME NEW x \in Members, NEW p \in Partitions, Fetch(x, p) PROVE Tried'
  BY <1>3, TriedFetch
<1>4. ASSUME NEW x \in Members, FetchFails(x) \/ Wake(x) PROVE Tried'
  <2>1. ~InHand(x) /\ (Goto(x, "fetch") \/ Goto(x, "sleep"))
    BY <1>4 DEF FetchFails, Wake, InHand
  <2>2. UNCHANGED <<position, owner, fetched, attempted, committed>>
    BY <1>4 DEF FetchFails, Wake
  <2>3. NoneSettledUntried'
    BY <2>2 DEF Tried, NoneSettledUntried, Settled
  <2> QED
    BY <2>1, <2>2, <2>3, TriedGoto
<1>5. ASSUME NEW x \in Members, ConsumeSucceeds(x) PROVE Tried'
  BY <1>5, TriedConsumeSucceeds
<1>6. ASSUME NEW x \in Members, ConsumeFails(x) PROVE Tried'
  <2>1. NoneSettledUntried'
    BY <1>6 DEF ConsumeFails, Tried, NoneSettledUntried, Settled
  <2>2. loop[x].message \in attempted' /\ attempted \subseteq attempted'
    BY <1>6 DEF ConsumeFails
  <2>3. Goto(x, "sleep") /\ UNCHANGED <<position, owner, fetched>>
    BY <1>6 DEF ConsumeFails
  <2> QED
    BY <2>1, <2>2, <2>3, TriedGoto
<1>7. ASSUME NEW x \in Members, CommitMessages(x) \/ CommitMessagesFails(x) PROVE Tried'
  <2>1. loop[x].pc = "commit" /\ (Goto(x, "fetch") \/ Goto(x, "sleep"))
    BY <1>7 DEF CommitMessages, CommitMessagesFails
  <2>2. UNCHANGED <<position, owner, fetched, attempted>>
    BY <1>7 DEF CommitMessages, CommitMessagesFails
  <2>3. NoneSettledUntried'
    BY <1>7, <2>1, <2>2, SettledByCommit DEF CommitMessages, CommitMessagesFails
  <2>4. loop[x].message \in attempted'
    BY <2>1, <2>2 DEF Tried, CommitsTried
  <2> QED
    BY <2>1, <2>2, <2>3, <2>4, TriedGoto
<1>8. ASSUME NEW x \in Members, Crash(x) PROVE Tried'
  <2>1. \A y \in Members : InHand(y)' => loop'[y] = loop[y]
    BY <1>8 DEF Crash, Goto, InHand, TypeOK
  <2> QED
    BY <1>8, <2>1, TriedGeneration DEF Crash
<1>9. ASSUME Rebalance PROVE Tried'
  BY <1>9, TriedGeneration DEF Rebalance
<1> QED
  BY <1>1, <1>2, <1>3, <1>4, <1>5, <1>6, <1>7, <1>8, <1>9 DEF Next, Progress

-----------------------------------------------------------------------------
(* Theorems *)

\* Every variable keeps its type, and no position and no committed offset passes
\* the end of its partition, whatever is committed late and however the group
\* changes (consumer.go:78): what is committed was fetched, and nothing is fetched
\* that was not published.
THEOREM GroupTypes == Spec => []TypeOK
<1> QED
  BY TypeInit, TypeStep, PTL DEF Spec

LEMMA GroupInvariant == Spec => [](TypeOK /\ Tried)
<1>1. Init => TypeOK /\ Tried
  BY TypeInit, TriedInit
<1>2. TypeOK /\ Tried /\ [Next]_vars => (TypeOK /\ Tried)'
  BY TypeStep, TriedStep
<1> QED
  BY <1>1, <1>2, PTL DEF Spec

\* No partition's position ever passes a message that nobody tried and whose
\* reader no longer has it, in whatever order members fail, die and hand over.
THEOREM NoMessageSkipped == Spec => []NoneSkipped
BY GroupInvariant, PTL DEF Tried

\* The committed offset of a partition passes attempted messages only, for
\* any members, partitions and generations (consumer.go:67-82).
THEOREM OffsetsCoverTried == Spec => []NoneSettledUntried
<1>1. TypeOK /\ Tried => NoneSettledUntried
  BY DEF Tried
<1> QED
  BY <1>1, GroupInvariant, PTL

\* Within one generation no message is fetched twice (consumer.go:44): the
\* loop does not come back to a message whose Consume failed.
THEOREM FetchedOnce == Spec => OncePerGeneration
<1> DEFINE A == \A x \in Members :
                  loop[x].pc = "fetch" /\ loop'[x].pc = "consume" =>
                      loop'[x].message \notin fetched
<1>1. TypeOK /\ Tried /\ [Next]_vars => [A]_vars
  <2> SUFFICES ASSUME TypeOK, Tried, [Next]_vars, NEW x \in Members,
                      loop[x].pc = "fetch", loop'[x].pc = "consume"
               PROVE  loop'[x].message \notin fetched
    OBVIOUS
  <2>1. PICK p \in Partitions : Fetch(x, p)
    <3>1. loop'[x] # loop[x]
      OBVIOUS
    <3>2. ASSUME NEW y \in Members, NEW pc \in {"fetch", "sleep"}, Goto(y, pc)
          PROVE  loop'[x].pc # "consume" \/ loop'[x] = loop[x]
      BY <3>2 DEF Goto, TypeOK
    <3>3. ASSUME NEW y \in Members, ConsumeSucceeds(y)
          PROVE  loop'[x] = loop[x]
      BY <3>3 DEF ConsumeSucceeds, TypeOK
    <3>4. ASSUME NEW y \in Members, NEW p \in Partitions, Fetch(y, p), y # x
          PROVE  loop'[x] = loop[x]
      BY <3>4 DEF Fetch, TypeOK
    <3> QED
      BY <3>1, <3>2, <3>3, <3>4
      DEF Next, Progress, vars, Publish, FetchFails, ConsumeFails, CommitMessages,
          CommitMessagesFails, Wake, Crash, Rebalance
  <2>2. loop'[x].message = <<p, position[p]>> /\ position[p] \in Nat
    BY <2>1 DEF Fetch, TypeOK
  <2>3. <<p, position[p]>> \notin fetched
    BY <2>2 DEF Tried, FetchedPassed
  <2> QED
    BY <2>2, <2>3
<1> QED
  BY <1>1, GroupInvariant, PTL DEF Spec, OncePerGeneration

-----------------------------------------------------------------------------
(* Refinement *)

\* The loop, its group and the bus implement the safety part of at-least-once
\* delivery: a fetch or a rebalance is no step of MessageDelivery, the end of
\* Consume is Attempt, and a commit of whatever offset is Settle.
THEOREM GroupImplementsDelivery == Spec => Delivery!Spec
<1>1. Init => Delivery!Init
  <2> SUFFICES ASSUME Init PROVE Delivery!Init
    OBVIOUS
  <2>1. \A m \in Messages : ~(m[2] < end[m[1]]) /\ ~(m[2] < committed[m[1]])
    BY MessageParts DEF Init
  <2> QED
    BY <2>1 DEF Init, Delivery!Init, Settled
<1>2. TypeOK /\ Tried /\ (TypeOK /\ Tried)' /\ [Next]_vars
        => [Delivery!Next]_(Delivery!vars)
  <2> SUFFICES ASSUME TypeOK, Tried, Tried', [Next]_vars
               PROVE  [Delivery!Next]_(Delivery!vars)
    OBVIOUS
  <2> USE DEF topicVars, groupVars, historyVars
  <2>1. ASSUME NEW p \in Partitions, Publish(p) PROVE Delivery!Next
    <3>1. PICK new \in Messages : new = <<p, end[p]>>
      <4>1. end[p] \in 0..(MaxMessages - 1)
        BY <2>1, BoundsAssumption DEF Publish, TypeOK
      <4> QED
        BY <4>1 DEF Messages
    <3>2. \A m \in Messages : m[2] < end'[m[1]] <=> (m[2] < end[m[1]] \/ m = new)
      BY <2>1, <3>1, MessageParts DEF Publish, TypeOK
    <3>3. ~(new[2] < end[new[1]])
      BY <2>1, <3>1 DEF Publish, TypeOK
    <3>4. Settled' = Settled /\ attempted' = attempted
      BY <2>1 DEF Publish, Settled
    <3>5. Delivery!Publish(new)
      BY <3>2, <3>3, <3>4 DEF Delivery!Publish
    <3> QED
      BY <3>5 DEF Delivery!Next
  <2>2. ASSUME UNCHANGED <<end, committed, attempted>> PROVE UNCHANGED Delivery!vars
    BY <2>2 DEF Delivery!vars, Settled
  <2>3. ASSUME UNCHANGED <<end, attempted>> PROVE Delivery!Next
    <3>1. Settled' \in SUBSET attempted
      BY <2>3 DEF Tried, NoneSettledUntried
    <3> QED
      BY <2>3, <3>1 DEF Delivery!Next, Delivery!Settle
  <2>4. ASSUME NEW x \in Members, loop[x].pc = "consume",
               attempted' = attempted \cup {loop[x].message},
               UNCHANGED topicVars
        PROVE  [Delivery!Next]_(Delivery!vars)
    <3>1. PICK m \in Messages : m = loop[x].message
      BY <2>4, WorkingParts DEF InHand
    <3>2. CASE m \in attempted
      BY <2>2, <2>4, <3>1, <3>2
    <3>3. CASE m \notin attempted
      <4>1. m[2] < end[m[1]]
        BY <2>4, <3>1 DEF TypeOK, WithinTopic, InHand
      <4>2. Delivery!Attempt(m)
        BY <2>4, <3>1, <3>3, <4>1 DEF Delivery!Attempt, Settled
      <4> QED
        BY <4>2 DEF Delivery!Next
    <3> QED
      BY <3>2, <3>3
  <2>5. CASE UNCHANGED vars
    BY <2>2, <2>5 DEF vars
  <2> QED
    BY <2>1, <2>2, <2>3, <2>4, <2>5
    DEF Next, Progress, Fetch, FetchFails, ConsumeSucceeds, ConsumeFails, CommitMessages,
        CommitMessagesFails, Wake, Crash, Rebalance, NewGeneration
<1> QED
  BY <1>1, <1>2, GroupInvariant, PTL DEF Spec, Delivery!Spec
=============================================================================
