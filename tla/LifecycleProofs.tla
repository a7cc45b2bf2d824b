-------------------------- MODULE LifecycleProofs --------------------------
(* How the process ends, for any consumers. *)
EXTENDS Lifecycle, TLAPS

\* The context is done exactly when a server has failed: servers are the only
\* ones to return an error before it is done.
CancelledByServer == cancelled <=> \E s \in Servers : server[s] = "failed"

\* A consumer that fetched after the context was done is past its last fetch.
LastMessage ==
    \A c \in Consumers :
        /\ loop[c] = "returned" => cancelled
        /\ late[c] <= 1
        /\ late[c] = 1 => cancelled /\ loop[c] # "fetch"

LifecycleInv == TypeOK /\ CancelledByServer /\ LastMessage

LEMMA LifecycleInit == Init => LifecycleInv
<1> SUFFICES ASSUME Init PROVE LifecycleInv
  OBVIOUS
<1>1. TypeOK
  BY DEF Init, TypeOK, StartedByMain
<1>2. CancelledByServer
  BY DEF Init, CancelledByServer
<1>3. LastMessage
  <2> SUFFICES ASSUME NEW c \in Consumers
               PROVE  /\ loop[c] # "returned"
                      /\ late[c] <= 1
                      /\ late[c] # 1
    BY Zenon DEF LastMessage
  <2>1. loop[c] = "off" /\ late[c] = 0
    BY DEF Init
  <2> QED
    BY <2>1
<1> QED
  BY <1>1, <1>2, <1>3 DEF LifecycleInv

\* A step of a loop, the number of late messages being right.
LEMMA LoopStepInv ==
    ASSUME LifecycleInv, NEW c \in Consumers,
           NEW from \in {"check", "fetch", "consume", "commit", "sleep"},
           NEW to \in {"check", "fetch", "consume", "commit", "sleep", "returned"},
           LoopStep(c, from, to),
           to = "returned" => cancelled,
           to = "fetch" => ~cancelled,
           late' = late
    PROVE  LifecycleInv'
<1>1. TypeOK'
  BY DEF LifecycleInv, TypeOK, StartedByMain, LoopStep, Running
<1>2. CancelledByServer'
  BY DEF LifecycleInv, CancelledByServer, LoopStep
<1>3. LastMessage'
  <2> SUFFICES ASSUME NEW d \in Consumers
               PROVE  /\ loop'[d] = "returned" => cancelled
                      /\ late[d] <= 1
                      /\ late[d] = 1 => cancelled /\ loop'[d] # "fetch"
    BY DEF LastMessage, LoopStep
  <2>1. d # c => loop'[d] = loop[d]
    BY DEF LoopStep, LifecycleInv, TypeOK
  <2>2. loop'[c] = to
    BY DEF LoopStep, LifecycleInv, TypeOK
  <2> QED
    BY <2>1, <2>2 DEF LifecycleInv, LastMessage
<1> QED
  BY <1>1, <1>2, <1>3 DEF LifecycleInv

LEMMA FetchInv ==
    ASSUME LifecycleInv, NEW c \in Consumers, Fetch(c)
    PROVE  LifecycleInv'
<1>1. late[c] \in Nat /\ late[c] + 1 \in Nat
  BY DEF LifecycleInv, TypeOK
<1>2. TypeOK'
  BY <1>1 DEF LifecycleInv, TypeOK, StartedByMain, LoopStep, Fetch, Running
<1>3. CancelledByServer'
  BY DEF LifecycleInv, CancelledByServer, LoopStep, Fetch
<1>4. LastMessage'
  <2> SUFFICES ASSUME NEW d \in Consumers
               PROVE  /\ loop'[d] = "returned" => cancelled
                      /\ late'[d] <= 1
                      /\ late'[d] = 1 => cancelled /\ loop'[d] # "fetch"
    BY DEF LastMessage, LoopStep, Fetch
  <2>1. CASE d # c
    BY <2>1 DEF LoopStep, Fetch, LifecycleInv, TypeOK, LastMessage
  <2>2. CASE d = c
    <3>1. loop'[c] = "consume" /\ loop[c] = "fetch"
      BY DEF LoopStep, Fetch, LifecycleInv, TypeOK
    <3>2. late[c] = 0
      BY <1>1, <3>1 DEF LifecycleInv, LastMessage
    <3>3. late'[c] = IF cancelled THEN 1 ELSE 0
      BY <3>2 DEF Fetch, LifecycleInv, TypeOK
    <3> QED
      BY <2>2, <3>1, <3>3
  <2> QED
    BY <2>1, <2>2
<1> QED
  BY <1>2, <1>3, <1>4 DEF LifecycleInv

LEMMA LifecycleStep == LifecycleInv /\ [Next]_vars => LifecycleInv'
<1> SUFFICES ASSUME LifecycleInv, [Next]_vars PROVE LifecycleInv'
  OBVIOUS
<1> USE DEF LifecycleInv, TypeOK, StartedByMain, CancelledByServer, LastMessage
<1>1. CASE UNCHANGED vars
  BY <1>1 DEF vars
<1>2. CASE LoadConfig \/ InitDB \/ WaitReturns \/ Kill
  BY <1>2 DEF LoadConfig, InitDB, WaitReturns, Kill, Exit
<1>3. CASE Start
  <2>1. /\ ~cancelled /\ ~cancelled'
        /\ server' = [s \in Servers |-> "starting"]
        /\ loop' = [c \in Consumers |-> "check"]
        /\ late' = late
    BY <1>3 DEF Start
  <2> QED
    BY <1>3, <2>1 DEF Start
<1>4. ASSUME NEW s \in Servers, Listen(s) PROVE LifecycleInv'
  BY <1>4 DEF Listen, Running
<1>5. ASSUME NEW s \in Servers, ListenFails(s) \/ ServeFails(s) PROVE LifecycleInv'
  BY <1>5 DEF ListenFails, ServeFails, Running
<1>6. ASSUME NEW c \in Consumers, ConsumerStep(c) PROVE LifecycleInv'
  <2>1. CASE Fetch(c)
    BY <2>1, FetchInv
  <2>2. CASE Check(c) \/ Return(c)
    BY <2>2, LoopStepInv DEF Check, Return
  <2>3. CASE FetchFails(c) \/ ConsumeFails(c) \/ CommitFails(c)
    BY <2>3, LoopStepInv DEF FetchFails, ConsumeFails, CommitFails
  <2>4. CASE ConsumeReturns(c) \/ CommitReturns(c) \/ Wake(c)
    BY <2>4, LoopStepInv DEF ConsumeReturns, CommitReturns, Wake
  <2> QED
    BY <1>6, <2>1, <2>2, <2>3, <2>4 DEF ConsumerStep
<1> QED
  BY <1>1, <1>2, <1>3, <1>4, <1>5, <1>6 DEF Next, ServerStep

LEMMA LifecycleInvariant == Spec => []LifecycleInv
<1> QED
  BY LifecycleInit, LifecycleStep, PTL DEF Spec

\* The types of the variables, for any set of consumers.
THEOREM LifecycleTypes == Spec => []TypeOK
<1>1. LifecycleInv => TypeOK
  BY DEF LifecycleInv
<1> QED
  BY <1>1, LifecycleInvariant, PTL

\* A consumer loop returns only after a server has failed (consumer.go:103-114):
\* whatever its broker and its handler do.
THEOREM OnlyServersStopConsumers == Spec => []ConsumersOutliveErrors
<1>1. LifecycleInv => ConsumersOutliveErrors
  BY DEF LifecycleInv, LastMessage, CancelledByServer, ConsumersOutliveErrors
<1> QED
  BY <1>1, LifecycleInvariant, PTL

\* After the context is done a consumer gets at most one more message
\* (consumer.go:105).
THEOREM LastMessageAfterCancel == Spec => []OneMessageAfterCancel
<1>1. LifecycleInv => OneMessageAfterCancel
  BY DEF LifecycleInv, LastMessage, OneMessageAfterCancel
<1> QED
  BY <1>1, LifecycleInvariant, PTL
=============================================================================
