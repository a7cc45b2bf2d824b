----------------------------- MODULE Lifecycle -----------------------------
(***************************************************************************)
(* The process: main starts two servers and the consumer loops in an error  *)
(* group and waits for all of them.  The first goroutine that returns an    *)
(* error cancels the group's context.  The loops ask for it before each     *)
(* message; the servers never do, and end only by failing.  Nothing catches *)
(* a signal, which ends the process at once.                                *)
(***************************************************************************)
EXTENDS Naturals

CONSTANT Consumers  \* the consumer loops

VARIABLES
    main,       \* where main is
    status,     \* exit status of the process
    server,     \* server -> its state
    loop,       \* consumer -> where RunKafkaConsumer is
    cancelled,  \* the context is done, which is also: the group has an error
    late        \* history: consumer -> messages fetched with the context done

vars == <<main, status, server, loop, cancelled, late>>

-----------------------------------------------------------------------------
(* The state *)

Servers == {"grpc", "gateway"}

\* main starts all goroutines at once, after it has read its configuration and
\* reached the database, and has an exit status when it is done.
StartedByMain ==
    /\ main \in {"config", "db", "start"} =>
         /\ \A s \in Servers : server[s] = "off"
         /\ \A c \in Consumers : loop[c] = "off"
    /\ main = "waiting" =>
         /\ \A s \in Servers : server[s] # "off"
         /\ \A c \in Consumers : loop[c] # "off"
    /\ main = "exited" <=> status # "none"

TypeOK ==
    /\ main \in {"config", "db", "start", "waiting", "exited"}
    /\ status \in {"none", "0", "1", "killed"}
    /\ server \in [Servers -> {"off", "starting", "serving", "failed"}]
    /\ loop \in [Consumers -> {"off", "check", "fetch", "consume", "commit",
                               "sleep", "returned"}]
    /\ cancelled \in BOOLEAN
    /\ late \in [Consumers -> Nat]
    /\ StartedByMain

Init ==
    /\ main = "config"
    /\ status = "none"
    /\ server = [s \in Servers |-> "off"]
    /\ loop = [c \in Consumers |-> "off"]
    /\ cancelled = FALSE
    /\ late = [c \in Consumers |-> 0]

Exit(s) == main' = "exited" /\ status' = s

Running == main = "waiting"

LoopStep(c, from, to) ==
    /\ Running
    /\ loop[c] = from
    /\ loop' = [loop EXCEPT ![c] = to]
    /\ UNCHANGED <<main, status, server, cancelled>>

-----------------------------------------------------------------------------
(* Faulty variants of definitions below, by which the runs' properties are   *)
(* tested; no behaviour of Spec uses them.                                  *)

\* main forgets one g.Go: Wait waits for a goroutine less.
FaultyStartWithoutGateway ==
    /\ main = "start"
    /\ main' = "waiting"
    /\ server' = [server EXCEPT !["grpc"] = "starting"]
    /\ loop' = [c \in Consumers |-> "check"]
    /\ UNCHANGED <<status, cancelled, late>>

\* A consumer's error ends its loop, and with it the group.
FaultyFetchFailsReturns(c) ==
    /\ Running
    /\ loop[c] = "fetch"
    /\ loop' = [loop EXCEPT ![c] = "returned"]
    /\ cancelled' = TRUE
    /\ UNCHANGED <<main, status, server, late>>

\* The loop goes on with the next message without asking for the context.
FaultyCommitSkipsCheck(c) == LoopStep(c, "commit", "fetch") /\ UNCHANGED late

\* The failing server does not cancel the context.
FaultyServeFailsAlone(s) ==
    /\ Running
    /\ server[s] = "serving"
    /\ server' = [server EXCEPT ![s] = "failed"]
    /\ UNCHANGED <<main, status, loop, cancelled, late>>

-----------------------------------------------------------------------------
(* main *)

LoadConfig ==
    /\ main = "config"
    /\ \/ main' = "db" /\ UNCHANGED status
       \/ Exit("1")
    /\ UNCHANGED <<server, loop, cancelled, late>>

\* initDB ends the process itself when Postgres does not answer.
InitDB ==
    /\ main = "db"
    /\ \/ main' = "start" /\ UNCHANGED status
       \/ Exit("1")
    /\ UNCHANGED <<server, loop, cancelled, late>>

\* The Kafka writer connects at its first write, so that nothing fails here.
Start ==
    /\ main = "start"
    /\ main' = "waiting"
    /\ server' = [s \in Servers |-> "starting"]
    /\ loop' = [c \in Consumers |-> "check"]
    /\ UNCHANGED <<status, cancelled, late>>

\* g.Wait returns, with the first error if there was one.
WaitReturns ==
    /\ Running
    /\ \A s \in Servers : server[s] = "failed"
    /\ \A c \in Consumers : loop[c] = "returned"
    /\ Exit(IF cancelled THEN "1" ELSE "0")
    /\ UNCHANGED <<server, loop, cancelled, late>>

\* A signal or a panic: deferred functions do not run.
Kill ==
    /\ main # "exited"
    /\ Exit("killed")
    /\ UNCHANGED <<server, loop, cancelled, late>>

-----------------------------------------------------------------------------
(* The servers *)

\* Listening works, whether or not the context is still alive.
Listen(s) ==
    /\ Running
    /\ server[s] = "starting"
    /\ server' = [server EXCEPT ![s] = "serving"]
    /\ UNCHANGED <<main, status, loop, cancelled, late>>

\* The port is taken, or the gateway cannot register its handler.
ListenFails(s) ==
    /\ Running
    /\ server[s] = "starting"
    /\ server' = [server EXCEPT ![s] = "failed"]
    /\ cancelled' = TRUE
    /\ UNCHANGED <<main, status, loop, late>>

\* Nobody calls Stop or Shutdown: Serve and ListenAndServe return errors only.
ServeFails(s) ==
    /\ Running
    /\ server[s] = "serving"
    /\ server' = [server EXCEPT ![s] = "failed"]
    /\ cancelled' = TRUE
    /\ UNCHANGED <<main, status, loop, late>>

-----------------------------------------------------------------------------
(* The consumer loops *)

Check(c) ==
    /\ ~cancelled
    /\ LoopStep(c, "check", "fetch")
    /\ UNCHANGED late

\* The context's error is not the group's first.
Return(c) ==
    /\ cancelled
    /\ LoopStep(c, "check", "returned")
    /\ UNCHANGED late

\* A message that is at hand may win against a context that is done.
Fetch(c) ==
    /\ LoopStep(c, "fetch", "consume")
    /\ late' = [late EXCEPT ![c] = IF cancelled THEN @ + 1 ELSE @]

FetchFails(c) == LoopStep(c, "fetch", "sleep") /\ UNCHANGED late

ConsumeReturns(c) == LoopStep(c, "consume", "commit") /\ UNCHANGED late

CommitReturns(c) == LoopStep(c, "commit", "check") /\ UNCHANGED late

ConsumeFails(c) == LoopStep(c, "consume", "sleep") /\ UNCHANGED late

CommitFails(c) == LoopStep(c, "commit", "sleep") /\ UNCHANGED late

\* The delay runs to its end, the context notwithstanding.
Wake(c) == LoopStep(c, "sleep", "check") /\ UNCHANGED late

-----------------------------------------------------------------------------
(* The specification *)

ServerStep(s) == Listen(s) \/ ListenFails(s) \/ ServeFails(s)

ConsumerStep(c) ==
    \/ Check(c)
    \/ Return(c)
    \/ Fetch(c)
    \/ FetchFails(c)
    \/ ConsumeReturns(c)
    \/ ConsumeFails(c)
    \/ CommitReturns(c)
    \/ CommitFails(c)
    \/ Wake(c)

Next ==
    \/ LoadConfig
    \/ InitDB
    \/ Start
    \/ WaitReturns
    \/ Kill
    \/ \E s \in Servers : ServerStep(s)
    \/ \E c \in Consumers : ConsumerStep(c)

Spec == Init /\ [][Next]_vars

\* The goroutines are scheduled.  A fetch may wait for ever for a message, but
\* not once its context is done; a server comes to listen or fails to, and once
\* it serves it need not fail.
FairSpec ==
    /\ Spec
    /\ WF_vars(LoadConfig)
    /\ WF_vars(InitDB)
    /\ WF_vars(Start)
    /\ WF_vars(WaitReturns)
    /\ \A s \in Servers : WF_vars(Listen(s) \/ ListenFails(s))
    /\ \A c \in Consumers :
         /\ WF_vars(ConsumerStep(c) /\ loop[c] # "fetch")
         /\ WF_vars(ConsumerStep(c) /\ cancelled)

-----------------------------------------------------------------------------
(* Properties *)

\* No error of a broker, a handler or a commit ends a consumer (consumer.go:109):
\* a loop that returned means that a server has failed.
ConsumersOutliveErrors ==
    \A c \in Consumers : loop[c] = "returned" =>
        \E s \in Servers : server[s] = "failed"

\* A consumer starts on at most one message after the context is done
\* (consumer.go:105), the one that its last check let it fetch.
OneMessageAfterCancel == \A c \in Consumers : late[c] <= 1

\* When one server fails, every consumer stops (or the process does).
ConsumersStop ==
    (\E s \in Servers : server[s] = "failed") ~>
        (main = "exited" \/ \A c \in Consumers : loop[c] = "returned")

\* When both servers have failed the process ends.
ProcessEnds == (\A s \in Servers : server[s] = "failed") ~> main = "exited"
=============================================================================
