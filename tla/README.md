# A verification of the order service

TLA+ models of the event-sourced order service in this repository: what the
write path promises when several goroutines, instances and message deliveries
run its commands at the same time and when any step of it fails, model-checked
with TLC and, as far as safety goes, proved with TLAPS.

## The system

| Component | State it keeps | Operations | Hard part | Model |
| --- | --- | --- | --- | --- |
| Order domain (`entity/orders/events.go`, `projection.go`, `mapping.go`, the validators of `controller/*.go`) | none | fold events to a projection, validate a command | statuses set by several event types | `OrderProjection`, `OrderStatus` |
| Controller commands (`controller/*.go`) | none between calls | `PlaceOrder`, `InitializePendingPayment`, `ProcessPayment`, `CancelOrder`, `UpdateShippingStatus`, `GetProjection` | validation of a read that may be stale | `OrderCommands`, `OrderHistory` |
| Transaction producer (`infra/eventsrc/producer.go`) | none | `Send`: insert, commit, publish, remove | two systems without a common transaction | `OrderCommands` |
| Event store and transactor (`infra/eventsrc/store.go`, `infra/pg/transactor.go`, migration V0001) | table `event`, its serial, open transactions | `Persist`, `Remove`, `ListByAggregateID`, `WithTx` | unique key, waiting inserts, lost commit replies | `OrderCommands` |
| Kafka bus (`infra/eventsrc/bus.go`) | the topic | `Publish` | late delivery after an error, no message key | `OrderCommands` (content), `ConsumerGroup` (order) |
| Payment consumers (`consumers/payment_*.go`) | none | `Consume` | redelivery, several instances, lost races | `OrderCommands` (commands), `OrderSystem` (results) |
| Consumer loop (`infra/eventsrc/consumer.go`) | offset of the group | fetch, consume, commit | an error skips the message, late commits | `ConsumerGroup`, `MessageDelivery` |
| Indexer and projection table (`projection_indexer.go`, `index_projection.go`, `projection_repo.go`, `list.go`) | table `order_projection` | `IndexProjection`, `ListOrders` | racing overwrites | `OrderSystem`, `SystemClaims` |
| In-memory store, bus, test transactor | maps and slices | as the real ones | the doubles differ from what they stand for | `InMemoryStore` |
| `cmd/main.go` | goroutines and a context | start, wait, stop | who watches the context | `Lifecycle`, `LifecycleClaims` |
| gRPC service, gateway, config, logging | none | adapt and forward | none | not modelled |

A gRPC call, or a message that a payment consumer gets from Kafka, runs one
controller command. The command lists the order's events, folds them, validates,
and calls `Send` with the highest sequence number it saw plus one. `Send` inserts
the event in a transaction, publishes after the commit, and deletes the event
again when the publish reports an error. The consumers turn published events into
further commands: `order_placed` into the initiation of the payment, that into
the payment. The indexer rewrites the order's row of the projection table.

What makes each component correct:

- *Order domain.* A payment is accepted once, shipping only moves forward,
  cancellation is final.
- *Commands with store and producer.* Each order's stored events are what commands
  running one at a time would have stored; a command that reported success has
  stored and published; nothing is published that was not committed; every command
  returns.
- *Bus and consumers.* Every published message is attempted, in spite of errors and
  restarts, nothing untried is committed, and handling a message twice changes nothing.
- *Projection table.* It never shows what an order never was, and when nothing more
  happens it shows the fold of the store.
- *In-memory doubles.* They do what the real store does.
- *Lifecycle.* A failing broker or handler stops no consumer; what a failing server stops, it
  stops in the end.

The hazards are listed, line by line, in `PROJECT.json`.

## Modules

### `OrderProjection` — the pure part

Event types, statuses, `ApplyEvent` (the `switch` of `projection.go`),
`ReduceToProjection`, the four validators. An event is reduced to its type and
requested status, a projection to the three things a validator reads (is there a
payment method, payment status, shipping status). `Accepts(events, event)` says
what a single command may append to a list of events; the fold is a recursive
function, so that the module can be proved about.

### `OrderCommands` — the write path

An *actor* is one goroutine that runs commands, in any instance of the program.

| Variable | Code |
| --- | --- |
| `log[o]` | committed rows of order `o` in table `event`, by `event_id` |
| `nextId` | the serial of `event_id` |
| `job[a]` | the `Send` the actor executes: its step, its order, its row |
| `topic` | messages in Kafka, delivered at least once in any order |
| `inflight` | messages whose write was reported as failed and that may still arrive |
| `used` | order ids drawn by `PlaceOrder` (UUIDs, so never twice) |
| `acked`, `removed` | history: event ids whose `Send` succeeded, event ids deleted by a failed `Send` |

Actions: the five commands (read, validate and choose the sequence number in one
step, for the read is one SQL statement and what follows is local), then the steps of
`Send`: `Insert` / `InsertConflict`, `Commit`, `Publish` / `PublishFails`,
`RemoveEvent`. Failures are actions of their own: `TransactionFails` (begin,
insert or commit error), `CommitUnknown` (committed, but the reply is lost),
`RemoveFails`, `Crash` between any two steps, `LateDelivery`. Reads may be cut
short, because `ListByAggregateID` does not ask `rows.Err()`. An insert waits
while an open transaction holds its key, as Postgres does for a unique index.

### `OrderHistory` — the promise

The abstract specification: an order is a list of events to which a command
appends in one atomic step that validates against everything before it. Deleting
an event (`Revoke`) ends the promise for that order. `OrderCommands` instantiates
it with `history[o]` the events of `log[o]` and `revoked[o]` whether an event of
the order was deleted; the property `AtomicCommands` is the refinement.

### `OrderStatus` — the life of an order

The second abstract specification of `OrderCommands`: what somebody who only looks at an order's two
statuses may see. `Place`, `Initiate`, `Pay`, `Ship`, `Cancel` each name the statuses they
start from and the ones they end in; `Revoke` ends the promise, as in `OrderHistory`. The code has
no such table: it is the joint effect of four validators and six `apply` functions.
`OrderCommands` instantiates it with the statuses of the folded log (`StatusMachine`).

### `ConsumerGroup` — the loop and its group

`Members` are the readers of one consumer group, one per instance; each executes
`RunKafkaConsumer`. A message is named by its partition and offset.

| Variable | Code |
| --- | --- |
| `end[p]` | messages published to partition `p` |
| `committed[p]` | the group's offset, as the broker stores it |
| `position[p]` | the offset the owner's reader fetches next |
| `owner`, `generation` | the assignment of partitions, renewed by a rebalance |
| `loop[x]` | where `runKafkaConsumerOnce` is, and the message it has in hand |
| `attempted`, `fetched` | history: messages whose `Consume` returned; messages fetched in this generation |

Each call of the loop is an action, and each error it can return another:
`Fetch`/`FetchFails`, `ConsumeSucceeds`/`ConsumeFails`,
`CommitMessages`/`CommitMessagesFails` (whose offset may have been stored), `Wake` after
the delay. `Rebalance` and `Crash` start a new generation from the committed offsets; a
member that lives keeps the message in its hand and commits it late. `Publish` sends a message to any
partition: messages carry no key.

### `MessageDelivery` — the promise of bus and loop

Published messages are attempted in the end; only attempted ones are settled, and what
was settled may come back. An attempt that failed counts: the loop does not retry.
`ConsumerGroup` instantiates it with `settled` the messages below the committed offsets.

### `OrderSystem` — composition

Extends `OrderCommands` with the consumers of its topic. Which consumer gets which
message is as `MessageDelivery` leaves it: any message at any time, again at any time, and
what a group has not had at least once.

| Variable | Code |
| --- | --- |
| `table[o]` | the order's row of `order_projection`, by its statuses |
| `index[i]` | an `IndexProjection` between its read and its upsert |
| `taken[g]` | messages handed to group `g` |
| `faults[o]` | history: failed steps that concern the order, truncated reads included |
| `clobbered` | history: orders whose indexer runs overlapped, failed or read too little |

`Handle` starts the command a message asks for, `Decline` is a `Consume` that ends without
writing, for a refusal (counted as success) or an error (skipped by the loop alike).
`IndexRead` and `IndexUpsert` are the two steps of `IndexProjection`. `SendStep` and
`SendFault` split the steps of `Send`, so that faults can be counted. `GetOrder` and
`ListOrders` are what the API answers, from the log and from the table.

### `Lifecycle` — the process

`main`, the error group with its context (`cancelled`), the two servers, the loops of the
consumers. A loop's own errors are steps to `sleep`; only the context's error ends it, and
that is never the group's first. The servers do not watch the context. The type invariant
ties the goroutines to `main`: none exists before `Start`, all do while it waits.

### `InMemoryStore` — the test doubles

Slices of the in-memory store by what Go does with them: `Remove` runs over the slice by
index, shifts the shared array and shortens its own header only; a slice expression out of
range is a panic. Listing rewrites the stored ids, and panics on the second time.

### `MCOrderCommands`, `OrderClaims`, `SystemClaims`, `LifecycleClaims`

The model-checking module (symmetry of orders and actors) and the sentences of
the repository that the code does not keep. The other modules are checked as they are.

### The proof modules

`OrderCommandsProofs` (types), `OrderDurabilityProofs` (what is kept), `OrderSerialProofs`
(what the log is, and that the write path implements `OrderHistory`), `OrderPaymentProofs` (payments,
shipping, and that it implements `OrderStatus`), `OrderSystemProofs` (the table, and that the
composition implements `OrderCommands`), `OrderSettlementProofs` (what the payment consumers
leave), `ConsumerGroupProofs` and `LifecycleProofs`. See "What is proved".

## Runs

| Run | Asks | Result |
| --- | --- | --- |
| `commands_one_order` | Do three concurrent actors on one order keep every safety property and implement `OrderHistory` and `OrderStatus`? | holds, 830 032 states |
| `consumer_group` | Does a group of two readers on two partitions deliver as `MessageDelivery` promises, and never retry by itself? | holds, 50 978 states |
| `lifecycle` | What ends a consumer and what the process, with three loops? | holds, 14 323 states |
| `order_system` | Does every `Send` return, is a placed order paid, and does the table show it, with two indexers and one fault? | holds, 41 867 states |
| `claim_cancel` | Is only a paid, unshipped order cancelled (`cancel.go:18`)? | refuted |
| `claim_status` | Is the shipping status never lowered (`update_shipping.go:29`)? | refuted |
| `claim_payment` | Is one payment event recorded (`README.md:363`)? | refuted |
| `claim_published` | Is a stored event published or removed (`producer.go:68`)? | refuted |
| `claim_consumed` | Is every consumed event in the store (`producer.go:42`, `69`)? | refuted |
| `claim_table` | Is the table eventually consistent (`README.md:128`)? | refuted |
| `claim_shutdown` | Does a cancelled context end the process (`main.go:233`, `267`)? | refuted |
| `claim_memory` | Does the in-memory store remove the given event (`store.go:188`)? | refuted |

Properties of `commands_one_order`:

- `SerialHistory`: in an order without deletions sequence numbers are 0, 1, 2, ... in
  the order of the event ids, and each row was accepted against exactly the rows
  before it. It would fail without the unique key, with a sequence number from
  another read, or if a truncated read could be written on.
- `AckedDurable`: an event whose `Send` succeeded stays stored and is in the topic.
- `CommittedBeforeBus`: a message, also one still on its way, is for an event that
  is stored or that its own `Send` removed.
- `ChargedOnce`: an order without deletions has at most one payment event and is not in
  transit or delivered without one.
- `KeysUnique`: also in orders that lost events, ids are unique over all orders and ascend in
  each log, no two rows of an order have one sequence number, and a deleted row never
  comes back.
- `AtomicCommands`: refinement of `OrderHistory`.

The restriction to orders without deletions is not a convenience: `claim_payment`
shows that both `SerialHistory` and `ChargedOnce` are false once a failed publish has
removed an event. `KeysUnique` is what is left then; of more than one order it is proved only.

Two more of `commands_one_order` are about what an order goes through:

- `ShippingForward`: the shipping status of an order without deletions is never lowered unless
  it is cancelled, and a delivered order stays delivered.
- `StatusMachine`: refinement of `OrderStatus`. It is stronger: no payment without initiation, no
  shipping without payment, and a cancelled order that was paid stays cancelled.

Properties of `consumer_group`:

- `NoneSettledUntried`: every message below a committed offset went through `Consume`. A
  late commit of an older generation moves the offset back, never past an untried message.
- `NoneSkipped`: what the position of a partition has passed was tried, or its owner has it in
  hand, also after the previous owner died with a message in its hand.
- `OncePerGeneration`: a message that failed is not fetched again until a restart or
  a rebalance: the loop's delay is no retry.
- `AtLeastOneAttempt`: refinement of `MessageDelivery` with its liveness.

Properties of `lifecycle`:

- `ConsumersOutliveErrors`: a loop that returned means that a server failed.
- `OneMessageAfterCancel`: after the context is done a loop starts on at most one more message.
- `ConsumersStop`, `ProcessEnds`: one failed server stops all consumers, two end the process.

Properties of `order_system`:

- `SendTerminates`: every `Send` returns, also one whose insert waits for the key of another
  that is then rolled back, fails or dies.
- `RowIsAPrefix`: the row of an order without deletions is the fold of a prefix of its log.
- `CaughtUp`: when all its messages were indexed and nothing runs, the listing shows what
  `GetOrder` does, in whatever order the messages came, unless a run failed, read
  too little or overlapped with another.
- `PaidAtRest`: an order that no `Send` works on, whose messages the payment consumers had
  and that no fault struck is paid or cancelled: the safety part of the next property.
- `ListingForward`: while the runs of an order do not overlap or fail, the payment status of its
  row never goes back, and the shipping status does not either unless the row shows a cancellation.
- `PlacedIsPaid`: an order whose placement was published is paid or cancelled in the end,
  unless a fault struck it. A lost race for a sequence number is no fault: the loop
  drops that message, but the winner's event brings another or makes it needless.
- `TableCatchesUp`: in the end the table shows every order as the store does, unless a
  fault struck the order or its indexers overlapped.

**Bounds.** `MaxEvents` is the number of event ids handed out, `Orders` and `Actors` are model
values. Orders share nothing but the serial and the actors, so one order shows every interference
on its rows. Five events let an order be placed,
initiated, paid and shipped twice, or lose an event to a removal and go on; three actors let an
attempt that read the log before a removal meet two later ones, which is what the shortest
violation of `OnePaymentRecorded` needs. Five events are also a life in which nothing goes wrong:
placed, initiated, paid, in transit, delivered, or cancelled after any of these but the last.
`WithinBound` lets no command start that could not get an event id, so that the bound never stops
a `Send` half way. Two messages per partition let one be skipped and the next committed, and two
generations let a reader of the first meet one of the second, on either partition. In
`order_system` three events are a placement, its initiation and its payment or a cancellation in
between, which is the race of the payment consumers; an order that is shipped needs more. With
four events the safety properties hold as well (480 000 states), and so does everything with two
faults (210 000). `MaxFaults` counts per order, because an order that was hit is excused from the
liveness properties. `Lifecycle` is finite as it is; `late` is bounded by `OneMessageAfterCancel`.
The counterexample of `claim_memory` is one send; the bound of four lets the other effects of
`Remove` happen too. Deadlock checking is off: when all ids are used the model stops, and so may
the service when nobody calls it.

**Fairness.** In `OrderSystem` each actor's next step of `Send` is weakly fair:
the goroutine is scheduled, and each blocking call returns, `WriteMessages` after ten
seconds at the latest (`KafkaWriteTimeout`), a waiting insert when the holder of its
key ends. Failures and commands are not fair.
In `ConsumerGroup` the steps after a fetch are weakly fair (each call returns, each
delay ends), a fetch is strongly fair for each member and partition: it may fail again and again but
not for ever, and rebalances, which take a partition away, are finitely many
(`MaxGenerations`), as they are in a group whose instances stay up. This is what the fairness
of the consumers in `OrderSystem` abstracts: each group is handed what it has not had; strongly
fair for the payment consumers, which are busy with a `Send` in between. In `Lifecycle` the
goroutines are scheduled, a fetch returns when its context is done (kafka-go watches it), a server
comes to listen or fails to, and nothing makes one that serves fail. Each `Send` takes a bounded
number of steps, and `SendTerminates` shows that no two wait for one another.

## What the refuted claims show

- *Cancellation is not final* (`claim_status`). A cancelled order that is not paid
  keeps its payment status; the payment consumers look at that alone, and
  applying `order_paid` sets the shipping status back to `waiting_for_shipment`.
- *A removal can lead to two payments* (`claim_payment`). Removing an event frees a
  sequence number in the middle of what others have read. Rows are folded by event id
  and not by sequence number, so an older attempt that fills the gap is folded last
  and the order counts as not paid.
- *A stored event may never be published* (`claim_published`), and *a published
  one may not be stored* (`claim_consumed`): commit and publish are two systems
  without an outbox, and an error of a write says nothing of its effect.
- *The table may stay behind* (`claim_table`). One indexer reads the order, a second one
  reads it one event later and writes, the first writes: no version is compared, and if no event
  follows the row stays old. One instance cannot do this to itself; two that share the
  partitions of a topic without message keys can, and so can a reader that lost its
  partition with a message in hand.
- *The in-memory store removes nothing, or too much* (`claim_memory`). The event that
  `Send` wants back is the last of its slice, and stays; an event of another
  aggregate with the same number is lost and its last one doubled; the next removal of that number
  panics.
- *The shutdown is not graceful* (`claim_shutdown`). The context is cancelled when one server
  fails, and the consumers return, but the other server is never told and keeps `g.Wait` waiting.
  The process accepts orders, or answers that it cannot, and handles none; "All servers shut down
  gracefully" is never logged.
- *The comment on cancelling* (`claim_cancel`) describes a stricter validator than
  the code has.

That sequence numbers grow with event ids (`README.md:339`) fails on the trace of
`claim_payment` as well, and that a shipped order was paid by an event still stored
fails when a payment is removed; they have no runs of their own.

## What is proved

Every safety property that a passing run checks is also a theorem, for any values of the
constants. The assumptions are that bounds are naturals (`MaxEventsAssumption`,
`MaxFaultsAssumption`, `BoundsAssumption`) and that those who run the payment consumers are
actors (`ConsumersAreActors`); the sets may be infinite or empty.

| Theorem | States | Inductive invariant |
| --- | --- | --- |
| `TypeCorrect` | `[]TypeOK` | `TypeInv` = `TypeOK` and `IdBounds` |
| `AcknowledgedEventsStay` | `[]AckedDurable` | `TypeInv` and `Durable` |
| `NoMessageBeforeCommit` | `[]CommittedBeforeBus` | `TypeInv` and `Durable` |
| `EventKeysAreUnique` | `[]KeysUnique` | `TypeInv`, `OwnIds` and `Keys` |
| `LogIsSerial` | `[]SerialHistory` | `TypeInv` and `Serial` |
| `WritePathImplementsHistory` | `AtomicCommands` | `TypeInv` and `Serial` |
| `PaidAtMostOnce` | `[]ChargedOnce` | `TypeInv`, `Serial` and `Charges` |
| `ShippingNeverGoesBack` | `ShippingForward` | `TypeInv`, `Serial` and `Charges` |
| `OrdersLiveByStatusMachine` | `StatusMachine` | `TypeInv`, `Serial` and `Charges` |
| `SystemTypes` | `[]SysTypeOK` | `SysInv` and `FromTopic` |
| `SystemImplementsCommands` | `Spec` of `OrderCommands` | `SysInv` |
| `SystemKeepsPromises` | the promises of the write path, of the system | from the theorems above |
| `TableShowsThePast` | `[]RowIsAPrefix` | `SysInv` and `RowsArePrefixes` |
| `TableShowsThePresent` | `[]CaughtUp` | `SysInv` and `UpToDate` |
| `ListingNeverGoesBack` | `ListingForward` | these, `Charges`, `PrefixesForward`, `RunsForward` |
| `RestMeansPaid` | `[]PaidAtRest` | `SysInv`, `Charges`, `Stages` and `Settling` |
| `GroupTypes` | `[]TypeOK` of `ConsumerGroup` | itself |
| `NoMessageSkipped` | `[]NoneSkipped` | `TypeOK` and `Tried` |
| `OffsetsCoverTried` | `[]NoneSettledUntried` | `TypeOK` and `Tried` |
| `FetchedOnce` | `OncePerGeneration` | `TypeOK` and `Tried` |
| `GroupImplementsDelivery` | `MessageDelivery`'s `Spec` | `TypeOK` and `Tried` |
| `LifecycleTypes` | `[]TypeOK` of `Lifecycle` | `LifecycleInv` |
| `OnlyServersStopConsumers` | `[]ConsumersOutliveErrors` | `LifecycleInv` |
| `LastMessageAfterCancel` | `[]OneMessageAfterCancel` | `LifecycleInv` |

**Types.** `TypeOK` is not inductive. The next sequence number is the maximum of what
was read plus one, and the maximum means something only for a bounded set of numbers.
`IdBounds` gives the bound: every row, stored or pending, has a sequence number below
its id, and every id is below `nextId`.

**Durability.** `Durable` says that each `Send` works on an id of its own (`OwnIds`),
that an actor about to publish or to remove still has its row in the log
(`HeldStored`), and the two properties themselves. With it the removal of one `Send`
can only delete the row that this `Send` wrote, which is never an acknowledged one.

**Keys.** `Keys` holds of all orders, with deletions and without. A row is inserted under a key
that no stored row and no open transaction has, but it becomes visible later, at the commit,
and in between other rows are committed and deleted. `KeysHeld` says that the key stays free of
others for so long, and that the id, drawn from the serial, is that of no row stored or
deleted before: all these are below `nextId`. What becomes of the order
of the sequence numbers is another matter; `claim_payment` shows them out of order.

**Serial histories.** `Serial` is about orders without deletions. `InOrder`: sequence
numbers are the positions in the log, ids ascend, and each row was accepted against
the rows before it. `Decided`: the pending row of a `Send` was accepted against as many
rows of its order as its sequence number says, and these are still the first rows of
the log. `Locked`: an inserted, uncommitted row takes the next position, with a greater
id than any committed row, and no other open transaction has its key. A number below
the length of the log is taken and a greater one was never read, so what a commit
was validated against is all there is. This is the optimistic concurrency control of
`README.md:339`; the argument uses the unique key of migration V0001, without which
`Locked` is lost at `Insert`.

**Refinement.** A commit is `Execute` of the abstract history, or, after an event of the
order was deleted, `Revoke`; a removal is `Revoke`; every other step stutters.

**Payments.** `Charges` splits the orders without deletions in three: no event;
unpaid, with no payment event; paid, with exactly one. `AcceptedEvent` shows that a
validated event keeps this and does not lower the shipping status, and
`ProjectionOfAppend` that folding a longer log is one `ApplyEvent` more.
The library's induction theorems take an operator as a parameter, which the
installed provers cannot instantiate, so the recursive function of the fold is
unfolded with an explicit fixpoint argument: a function that satisfies the fold's equation
exists because a least counterexample cannot (`LeastCounterexample`, `FoldExists`).

**The status machine.** `Charges` leaves a placed order eight combinations of statuses.
`AcceptedMove` goes through what the validators accept in each and what `ApplyEvent` makes of it,
and finds the moves of `OrderStatus`. That a command was validated against the statuses it
changes, and not against older ones, is `LogIsSerial` again. A request for the
status an order already has is accepted, stores an event, and is a stutter.

**The system.** Every step of the composition is a step of `OrderCommands` or leaves
its variables alone (`SysStep`), so the composition implements `OrderCommands`
and the promises of the write path hold of it. The invariants of the log carry over (`SysInv`).
The types include `FromTopic`: consumers are handed what is in the topic, and an order without a
message has no row.

**The table.** Without deletions a log only grows at its end (`LogGrows`, from `Locked`), so that
what an indexer once read stays a prefix (`RowsArePrefixes`). `UpToDate` says for an order whose
runs did not overlap that the row, or the one run under way, shows at least the events whose
messages were taken. A read takes a message whose event is stored by then (`CommittedBeforeBus`)
and sees the whole log, so the run is up to date with it; when the last event's message
is taken, the row shows all rows, for ids ascend. That the row does not go back has two
halves. `PrefixesForward` is about the log: no prefix is behind a shorter one, because
each event was accepted and a move of the status machine lowers nothing but by
a cancellation. `RunsForward` is about the indexer: the run under way folded at least the rows
that the table shows, for it read after the last upsert.

**Settlement.** `PaidAtRest` is what remains of `PlacedIsPaid` without fairness, and says that the
consumers may drop what they drop. `Stages` counts: a placed order with two rows has begun its
payment or was cancelled, one with three has ended it or was cancelled, because each accepted
event but the shipping of a paid order brings it a stage further. An insert that loses the race
for sequence number *n* therefore finds an order of more than *n* rows, and this order is past the
stage that the message asked for (`LostRace`). A refusal finds it there too, and `Declined` shows
that a refused consumer leaves nothing to do. `Settling` follows an order that no fault struck:
nothing of it was or will be undone (`Clean`), a type of event is stored exactly if it is in the
topic or about to be (`Announced`), and what a consumer took is done or being done (`Attended`).
At rest nobody is doing anything, so the placement leads to the initiation and that to the
payment. The strengthened invariant was model-checked before it was proved.

**The group.** A committed offset says nothing of single messages. `Tried` adds
that a reader works through a partition in order: what lies before the message in its hand was
tried (`TriedBefore`), what it is about to commit was tried (`CommitsTried`), no message was skipped
(`NoneSkipped`, a property of the run as well), and what this generation fetched lies below the
position (`FetchedPassed`). `TriedBefore` is also what makes the late commit of an older generation
harmless. The types have content of their own: `WithinTopic` says that no offset passes the end of
its partition and that what a reader has in hand was published. The one needs the other, for an
offset is committed from what is in hand; the refinement uses both.

**The process.** `LifecycleInv`: the context is done exactly when a server has failed,
a loop that fetched since then is past its last fetch, and goroutines exist exactly when `main`
has started them.

**Only model-checked.** The liveness properties (`SendTerminates`, `PlacedIsPaid`, `TableCatchesUp`,
`ConsumersStop`, `ProcessEnds`, and the fairness half of `AtLeastOneAttempt`), which are out of the
prover's reach, and the eight refuted claims.

## Not modelled

Adapters, configuration, logging and the generated code keep no state. The
descriptive fields of orders and all timestamps are abstracted: no guard reads
them. Therefore the order of the listing and its pages (`LIMIT`, `OFFSET`) are
not modelled: `ListOrders` is all pages of one moment. Kafka's own replication and
Postgres' durability are assumed: a committed row stays, a message in the topic stays. In
`OrderSystem` the partitions and offsets of `ConsumerGroup` are replaced by what
`MessageDelivery` promises of them; the composition of the two would multiply their states
and asks no question that the pieces leave open. Postgres draws an event's id before its insert
waits for another transaction, and a refused insert uses one up; the model draws ids after the wait
and leaves no gaps. Ids are only compared, and while the next key of an order without
deletions is held, nothing of that order is committed, so the ids of its rows have the same
order. Where events were deleted it may differ, and what is shown of such orders (`KeysUnique`,
`AckedDurable`, `CommittedBeforeBus`) does not depend on it. A reader is taken to drop what it has
fetched ahead when its generation ends. kafka-go may still return such a message, so that two readers
get it in one generation: `OncePerGeneration` holds up to that. The errors of missing headers (`consumer.go:52-65`) are left out, for
`KafkaBus.Publish` writes all three. The data race of two goroutines that
append to `InMemoryBus.Events` is not modelled: no test runs two.

## Plan

What is left, in order.

1. The fold against a reference: `ReduceToProjection` equals "last writer of each
   field" over all event lists up to a length; the step from a list to one with an event
   more is proved already (`ProjectionOfAppend`).
2. What the in-memory store does as long as nothing is removed, proved: it lists the events of an
   aggregate in the order they were sent, with consecutive numbers.
3. The paging of the listing under concurrent inserts, if the order of `created_at` is
   modelled.
