# Verification of the OCPP platform

TLA+ models of this repository's services, the TLC configurations that check
them on small instances, and TLAPS proofs, for every instance, of what matters
most about the state-processor, the gateway, the two together, the REST API, the
simulator and the dashboard.

## 1. The system

| Component | Source | State it keeps | Operations | Talks to |
|---|---|---|---|---|
| charge point simulator | `cmd/cp-simulator/main.go` | one WebSocket connection, a channel of replies | send a CALL and wait for a reply, run a session, reconnect | gateway |
| WebSocket gateway | `cmd/wsgw/main.go` | a handler per connection, `txCounter` | read frame, answer CALL, publish event, shut down | chargers, Kafka producer |
| OCPP codec | `internal/ocpp` | none | parse frames, make CALL and CALLRESULT | used by gateway, simulator, state-processor |
| Kafka producer | `internal/kafka/producer.go` | a writer with its queue per topic | publish, close | Kafka |
| Kafka consumer | `internal/kafka/consumer.go` | a reader and a goroutine per topic | fetch, handle, commit | Kafka, state-processor |
| topics, envelope | `internal/kafka/topics.go`, `internal/event/event.go` | none | | |
| state-processor | `cmd/state-processor/main.go` | Redis (dedup keys, latest state, open transactions), PostgreSQL (`event_history`, `charge_sessions`) | handle a message: deduplicate, write history, update latest state, build a session | Kafka consumer, Redis, PostgreSQL |
| REST API | `cmd/api/main.go` | none of its own | list chargers, one charger's state, sessions | Redis, PostgreSQL |
| dashboard | `cmd/api/dashboard/app.js` | current view, timers, browser history | navigate, poll, render | REST API |
| metrics, monitoring, containers | `monitoring/`, `docker-compose.yml` | | | |

An event goes charger -> gateway -> Kafka (one topic per kind of event, keyed by
charger) -> a goroutine of a state-processor -> PostgreSQL and Redis -> REST API
-> dashboard.  Nothing is transactional across these: each arrow, and each call
to Redis or PostgreSQL, can fail, be repeated or be the last thing a process does.

What is hard:

- *Interleaving.* A charger's events arrive on five topics that are consumed
  independently. After a rebalance two instances can handle events of one
  partition. API requests read Redis between the commands of a pipeline. A lost
  connection's handler runs on beside that of its successor.
  The browser's polls overlap, and their answers come when another view is open.
- *Failure.* The dedup key is set first, so a failure after it loses the event.
  Pipelines stop half way. Several errors are ignored, in the state-processor,
  the API and, in seven places of a session, the simulator.
- *Retries.* Chargers resend, Kafka redelivers, go-redis repeats commands, the
  Kafka writer repeats batches, and its deadline does not withdraw the event.
  The simulator's `sendAndWait` gives up after ten seconds, but the reply may come.
- *Time.* Timestamps are cut to the second, and keys expire.

What makes each component correct:

- state-processor: an event is recorded once or lost to a failure that can be
  named; what is shown was recorded; the latest state does not go back; a listed
  charger can be read; a session joins the right start and stop.
- gateway: an answered CALL reaches Kafka and one without a reply leaves nothing
  there; a connection's answers and events are in order; transaction ids are
  distinct.
- from CALL to latest state: an answered CALL gets its row unless a failure that
  can be named took it, and what is shown catches up with what was answered while
  one instance owns the partitions and its guard can read.
- REST API: answers can be read, do not go back, and lose no more than what failed.
- simulator: it takes no reply for the answer to something else, beyond what its
  own dropped timeouts explain; a failure costs one session; it gets online again
  and leaves no connector showing a session that is over.
- dashboard: the page, the poll timer and the address belong to the open view,
  and the page comes to show the newest data.

`PROJECT.json` lists every hazard at its line with the properties that cover it.

## 2. Modules

| Module | What it is |
|---|---|
| `StateProcessor` | the state-processor and the consumer loop it runs in |
| `LatestState` | abstract specification: a register per connector that shows recorded events and never goes back |
| `StateProcessorProperties` | what the state-processor keeps; its refinement of `LatestState` |
| `StateProcessorClaims` | what the documentation says of it and the code does not keep |
| `StateProcessorProofs` | proofs: types, what is shown was recorded, one row per message, the refinement, what is listed can be read, the newest is shown |
| `StateProcessorLossProofs` | proofs: how many messages can be lost |
| `StateProcessorSessionProofs` | proofs: sessions join the right start and stop, how many can be lost |
| `Gateway` | the gateway's handlers, the producer and its queues, shutdown and crash |
| `GatewayProperties` | its properties, and one claim of the documentation |
| `GatewayProofs` | proofs of its properties |
| `Pipeline` | `Gateway` and `StateProcessor` composed over one Kafka, and the properties of the whole |
| `PipelineProofs` | proof of the loss bound from end to end, from what is proved of the two |
| `ApiReader` | the REST API's reads composed with `StateProcessor`, and their properties |
| `ApiReaderProofs` | proofs of its properties |
| `Simulator` | a charger of the simulator with its connections, and its properties |
| `SimulatorProofs` | proofs of its safety properties |
| `Dashboard` | the page in the browser, its properties and one claim of the documentation |
| `DashboardProofs` | proofs of its safety properties |
| `MC...` | small instances of these for TLC |

Definitions named in a comment "Mutant: ..." are wrong variants of the definition
that follows them. No behaviour uses them; each shows that some property notices
the bug.

### StateProcessor

`work[<<i, t>>]` is the goroutine of instance `i` for topic `t`: `idle` in
`FetchMessage`, then `dedup`, `history`, `read` (the HGET or HGETALL), `cdr` (the
INSERT of a session), `pipe` at command `n`, and `commit`. One action is one call
to Kafka, Redis or PostgreSQL with the local code up to the next call. So
`WriteHistory` includes the dispatch of `updateLatestState`, its early returns and
the rejection of payloads that do not unmarshal.

Redis is a function from slots to the event whose values the slot holds: the code
stores functions of one event, so that the event says all that properties
need. The fields one HSET writes are one slot. A pipeline is a sequence of
commands that are applied one per step: go-redis pipelines are not transactions.

Kafka is, per topic and partition, the log, the committed offset, the owner's
position and the owner. `Run` does not commit after an error and goes on; the
reader does not go back until a restart or rebalance sets `pos` to `committed`.

Faults: a call fails before or after taking effect (`DedupFails`, `HistoryFails`,
`CdrFails`, `PipeFails`), an ignored read error (`ReadFails`: kind "read" for the
guard's HGET, "lookup" for the HGETALL of `tx:active`), commands repeated by
go-redis (`DedupRetried`, `PipeRetried`), a commit that is only logged
(`CommitFails`), `Crash` (equally SIGTERM: nobody waits for the goroutines),
`Rebalance`, `DedupExpires` and `TxExpires`. Expiry may come at any time: the
models have no clock, and one hour or 24 is nothing other code measures against.

### Gateway

A frame is what `ParseMessage` and `MakeCallResult` look at: how many elements its
array has, its type, whether its id is a text that `%q` quotes as JSON does, and
its action. `h[c]` is the handler of connection `c`: `reading`, `answer` (the CALL
is processed, its reply to be written), `publish`, `waiting` in `WriteMessages`,
and `closed`. A StartTransaction whose id makes no JSON takes a number of
`txCounter` and gets neither an answer nor an event. A connection is used once; a
reconnecting charger takes another. The producer is a queue per partition, which
the writer empties in order.  `Quit`, `CloseWriter` and `Exit` are main's
shutdown, during which handlers go on; `Crash` drops the queues.

### Pipeline

Instances of `Gateway` and `StateProcessorProperties`. They share the variable
`kafka`: the gateway appends frames, and the state-processor sees each as the event
`makeEvent` builds of it (`Consumed`, `EventOf`). Its own `feed` is empty, so that
the gateway is the only producer.

### ApiReader

EXTENDS `StateProcessor` and adds one request: its Redis reads are steps between
the state-processor's. Requests write nothing, so several at once see no more
than one does. The order of chargers in a list is some fixed one.

### Simulator

`step` is the call of `sendAndWait` that the charger's goroutine is in, named for
what it sends, or `idle` in the loop of `chargerSession`, or `down` between two of
them. `Then` gives the calls that may follow each. The reader goroutine moves
replies from the `wire` to the channel `responses`. Replies carry no more than the
number of CALLs sent since the one they answer (`age`), as all that `sendAndWait`
does is take the next. A connection ends with an error (`Break`) or falls silent
(`Silence`: no packet and no error, until a timeout).

Behind the wire the gateway handles a connection's CALLs in order and may discard
those of one that is gone. The platform is taken to lose nothing there (what it
loses is `Pipeline`'s subject) and to show the newest status by timestamp. A new
connection comes five seconds after the last at least, so that its timestamps
are later. Within one connection they grow from one status of a connector to the
next but for two pairs that can have one second, so that the guard drops the second
of them: an announced Available (`main.go:111`) and the Preparing of a session that
begins at once (`main.go:156`), and Charging (`main.go:193`) and a SuspendedEV
(`main.go:254`). No property depends on either: `IdleShowsAvailable` asks for
the last Available of a charger that has no session.

Chargers share nothing, so that one is modelled. A dial that fails changes
nothing. The gateway sends no CALLERROR and the channel's capacity of 100 is not
reached: a charger has one CALL out, and late replies are bounded by its faults.

### Dashboard

`current` is `currentView` with `currentChargerId`, `timers` the intervals the
browser runs, `entries` and `cursor` its history. A fetch goes out without
data, gets a version number (`AnswerData`) or an error that is JSON all the same
(`AnswerError`), and arrives (`Arrive`) or not (`Fail`). `fetch` answers in any
order. Stepping back or forward moves the cursor before `popstate` runs.

## 3. Runs

`tlc -config <run>.cfg <module>`. All runs say `CHECK_DEADLOCK FALSE`: events,
frames, sessions and navigations are finite, and a model stops when all are
handled.

| Run | Module | Bounds | Shows |
|---|---|---|---|
| `SPFaults` | `MCStateProcessor` | 5 feeds of 2 or 3 events of all types, resent and redelivered ones among them, 2 instances, any 2 faults | `TypeOK`, `StateFromHistory`, `ListedIsReadable`, `LossBounded`, `HistoryOncePerMessage` |
| `SPOneInstance` | | 8 feeds of 3 or 4 status and meter events in disorder, or of 1 or 2 transactions, in a row or of two chargers; 1 instance, any 2 faults but failed reads of the guard; fairness | `ShowsNewestHandled`, `SessionPairsOwnStart`, `SessionLossBounded`, `RefinesLatestState`, `EventuallyDrained`, `EventuallySessions` |
| `GWFaults` | `MCGateway` | 3 connections of 2 chargers, 2 partitions, a CALL that cannot be answered and one without topic, any 2 faults, crash and shutdown included | `TypeOK`, `AcknowledgedIsKept`, `ConnectionOrder`, `TransactionIdsDistinct`, `AnswersInOrder`, `OnlyAnsweredArePublished` |
| `Pipeline` | `MCPipeline` | a charger with 2 connections, 2 status events and a CALL without topic, 2 instances; any 2 of a drop, a deadline, a lost publication and a repeated batch; 1 of a failed call, a failed read of the guard, a failed commit, a rebalance and an expired key; fairness | `LossEndToEnd`, `AnsweredIsRecorded`, `ShownCatchesUp` |
| `ApiReads` | `MCApiReader` | 2 events of 1 or 2 chargers, in disorder too, 1 fault, 1 failed read, any number of requests | `ApiTypeOK`, `AnswersAreReadable`, `MissesOnlyFailures`, `StatusNeverGoesBack` |
| `Charger` | `MCSimulator` | 2 connectors, 2 sessions of 3 readings, 2 faults (2 late replies, 1 break, 1 silence), 3 connections; fairness | `TypeOK`, `ReplyLag`, `SessionLossBounded`, `IdleShowsAvailable`, `EventuallyOnline` |
| `Browser` | `MCDashboard` | 2 chargers, 3 navigations, 3 fetches in flight, 2 versions, 1 failed fetch; fairness | `TypeOK`, `PageIsCurrent`, `OneTimer`, `AddressIsCurrent`, `EventuallyFresh` |

Why the bounds are enough.

- State-processor. A goroutine handles one event at a time and its steps touch one
  charger, so conflicts need two events for one connector or charger: every
  feed has two, and most a third that has to survive them. Two instances make
  every conflict of the consumer group; no step depends on a third. A fault has
  its effect at one step; two allow one during the recovery from another. A second
  has ten ticks, and feeds have events in the same second, in both orders.
- Sessions need one instance: after a rebalance the old owner's stop and the new
  owner's start run side by side and can be taken for a pair. One fault is the
  limit of `SessionPairsOwnStart` itself: two (a start that is lost, and an
  earlier stop whose DEL was) do pair a stop with an old start. Two chargers in
  one partition show that the bound on losses is one of each charger: when
  several stops have failed, one restart can bring all of them back too late.
- Gateway. Order is a matter of two events of one connection; a reconnect makes
  the second connection, and a third, of another charger, competes for
  transaction ids and hashes to the other partition.
- Pipeline. The faults not in its budget are those of `GWFaults` and `SPFaults`;
  these are the ones whose effects meet: a reconnect and a deadline reorder, a
  repeated batch puts an event into Kafka twice, a partition moves to the second
  instance while the first still handles its event, and two ways to lose an event
  are there. `MCFairSpec` leaves out what the rest stands for: instances differ in
  their name only, so that all partitions begin with the first; only the partition
  that holds something moves; and the connections open in one order.
  `ShownCatchesUp` is not true of all that this run lets happen, and says so: a
  second owner writes an older status last (`ClaimLatest`), and a failed read of the
  guard lets one pass. Without the first of these conditions TLC refutes it here.
  `AnsweredIsRecorded` needs neither.
  `LossEndToEnd` counts messages, not frames: two CALLs with one message id are one
  message to the state-processor, and one failed SETNX costs both of them.
- Charger. Three readings are the fewest with a pause and a heartbeat. A second
  session shows what the first has left, a second connector what the first loop
  does with an error. Two ignored timeouts on a connection make a lag of two.
- Browser. Going away, coming back and once more is three; answers of three
  fetches can pass each other in every way.

Budgets make faults finite: without them liveness would be refuted by a fault
that repeats for ever, and invariants like `LossBounded` count them.

Runs that TLC finds violated, each by a sentence of the documentation; the
findings in `PROJECT.json` quote them:

| Run | Property | The code |
|---|---|---|
| `ClaimHistory` | `HistoryAlwaysWritten` | skips an event whose handling failed |
| `ClaimLatest` | `LatestStateCorrect` | checks and writes in separate calls, wrong with two instances |
| `ClaimPairing` | `SessionsMatchTransactions` | keeps one open transaction per charger |
| `ClaimOrder` | `ChargerOrder` | publishes for a lost connection beside its successor |
| `ClaimBack` | `BackAndForward` | pushes a new entry on every step back or forward |

Smaller differences that were met and have no run of their own:

- `last_seen` is written without a guard (`main.go:232, 256, 300, 309, 380`), though
  `docs/architecture.md:93` speaks of guards for all of the latest state: an older
  event that is handled later takes it back.
- `MakeCallResult` quotes the message id with `%q`, which writes control characters
  as Go does: such a CALL gets no answer (`docs/architecture.md:38` says all do) and
  is not published, though a StartTransaction has used up its id, and the
  connection goes on. `AnswersInOrder` names this exception, and
  `OnlyAnsweredArePublished` says that it leaves nothing in Kafka.
- The simulator's timestamps have whole seconds, and the guard wants a later one:
  of an announced Available and a Preparing (`cp-simulator/main.go:111`, 156), or
  Charging and a SuspendedEV (193, 254), in the same second the platform keeps the
  first.
- The dashboard does not look at an answer's status: the JSON of a 404 or 503 is
  rendered as an empty charger or list.
- `status_ts` and `meter_ts` keep whole seconds, so that an event up to a second
  older than the stored one passes the guard (`main.go:246`;
  `docs/architecture.md:93` compares timestamps). `LatestState` therefore ranks
  events by second.
- `ON CONFLICT (event_id)` is no safety net for the message id
  (`docs/architecture.md:92`): a resent message has a new event id.
  `HistoryOncePerMessage` holds only until a dedup key expires.
- `GET /chargers/{id}/state` drops the error of SISMEMBER (`api/main.go:248`) and
  answers 404 for a charger that is listed.
- A boot or heartbeat does not add the charger to `chargers`
  (`main.go:220-235`, 307-310), which `docs/architecture.md:74` calls the set of
  all charger ids.

### Fairness

`StateProcessor!FairSpec`: `Run`'s goroutines are scheduled by Go and their calls
return (their failures are faults of their own), so each goroutine that can
take a step takes one; and what the gateway has to publish is published. A
successful step of a goroutine stays enabled until it or a fault is taken, so that
weak fairness is enough. Nothing is assumed of faults. `Gateway!FairSpec` is the
same for handlers and the writer's goroutines; chargers need not connect, and
nothing makes the process end.

`Pipeline!FairSpec`: while some goroutine on either side can go on, one does. A
single condition does for all of them, since a behaviour has finitely many
steps of work: none can be put off for ever by the others.

`Simulator!FairSpec`: the charger's goroutine, its reader and the gateway's
handlers run, and tickers fire. A session need not begin, a fault need not happen
and a handler need not fail, so that a reply may be as late as it likes.

`Dashboard!FairSpec`: the browser fires timers, the API answers each fetch and
the answer arrives, weakly fair for each kind of fetch. Users need do nothing.

## 4. Proofs

Every theorem holds for all values of the constants that satisfy the named
assumptions of the module; `PROJECT.json` lists them with the properties they
state. Each rests on an inductive invariant: a formula that holds at the start,
that every step keeps and that implies the property.

### State-processor

For any events, feeds, chargers, connectors, partitions, instances and budgets:

| Theorem | States | Proved in |
|---|---|---|
| `TypeCorrect` | `Spec => []TypeOK` | `StateProcessorProofs` |
| `ShownWasRecorded` | `Spec => []StateFromHistory` | |
| `OneRowPerMessage` | `Spec => []HistoryOncePerMessage` | |
| `GuardRefinesLatest` | with one instance and no failed reads, `Spec => RefinesLatestState` | |
| `ListedCanBeRead` | `Spec => []ListedIsReadable` | |
| `NewestIsShown` | with one instance, `Spec => []ShowsNewestHandled` | |
| `LossIsBounded` | `Spec => []LossBounded` | `StateProcessorLossProofs` |
| `SessionLossIsBounded` | with one instance and one transaction at a time, `Spec => []SessionLossBounded` | `StateProcessorSessionProofs` |
| `SessionsPairOwnStart` | under the same assumptions, `Spec => []SessionPairsOwnStart` | |

- `Inv1`: the types, that a goroutine at work holds an event of its topic and, in a
  pipeline, is at one of its commands, and that a partition holds the events
  that hash to it. Without the position in the pipeline the next command would
  not be known to exist.
- `Inv2` adds that an event past `history` in some goroutine is recorded, and the
  start it holds too; then whatever its pipeline writes is recorded.
- `Inv3` adds, while no dedup key has expired, that a recorded message has its
  key, that a goroutine between the key and the row is the only one with that
  message and that its message has no row yet: SETNX makes the second one give up.
- `Inv4` adds that an event that passed the guard is still newer, to the second,
  than what its slot shows. With one instance the goroutine of a topic is the
  only writer of the slots of its guarded type, so that what it read holds when it
  writes.
- `Inv5`: a goroutine that is at command `n` of a pipeline has left something in
  every lasting slot that the commands before `n` write. The lemma `PipeOrder`
  says of all six pipelines that a command which lists a charger or connector
  comes after one that gives it something to show, and `PipeFills` that nothing
  but `tx` and its expiry is ever deleted.
- `Inv6`: as long as no call has failed and nothing crashed, each recorded status
  or meter event is covered by its slot, or a goroutine is about to pass the guard
  or write with it.
- `Inv7` counts the messages that are `Doomed`: without a row, and either their
  key is taken and no goroutine is at `writeHistory` with them, or the group is
  past them and no goroutine has them. The first half is what `LossBounded`
  itself lacks to be inductive: a failed SETNX that did set the key loses the
  message before the group has moved past it, or any redelivery of it later. That a
  rebalance or a late commit loses nothing needs `Reached`: an offset that a
  goroutine still holds counts as passed.

`GuardRefinesLatest` assumes that reads of the guard do not fail, as an error of
HGET passes for "nothing stored" in the code (`main.go:243-246`); a failed lookup
of `tx:active` does not touch it. One instance is needed because two can both pass
the guard (`ClaimLatest`).

The two theorems on sessions assume one instance too, and `OneTransactionAtATime`: in
each feed the starts and stops of a charger alternate, and no other message has the
id of one. Other chargers and events may come in any way between them, and so may
every fault that the model has. All feeds of `SPOneInstance` satisfy it. Without it
a session is missing though nothing has failed, as in `ClaimPairing`, where two
connectors charge at once and `tx:active` has one entry for both. It also leaves out feeds in which Kafka holds a start twice, as after a batch that the
writer repeats. Feeds are what is published: what is assumed is that chargers
behave, not what the state-processor makes of it. `Pipeline` does not publish through
`feed`, so that these theorems say nothing of it.

- `Inv8`: what is assumed of a feed holds of the log and the rest of the feed
  together (`FeedOK`); a goroutine is at the event its offset names, and keys and
  sessions belong to events of the log (`PlacesOK`).
- `Inv9(c)`: the transactions of charger `c` that are not `Safe` are no more than its
  faults. A transaction is safe if it has its session (`Joined`), has not been
  reached (`Coming`), has its start in `tx:active` or about to be written, with
  nothing at hand or to return that would overwrite or delete it (`Begun`), or
  has its stop at work with the start in reach (`Ending`). The property counts
  missing sessions only once their stop was handled, which is too late: a fault
  does its damage while the start is handled, or when it sends the group back.
  The proof is that a step without a fault breaks no transaction, and a fault one
  of each charger at most, as only one at a time is begun or ending.
- `Inv10`: without faults the group moves forward only, the messages up to its
  position have their keys, and `tx:active` holds the last start or nothing
  (`Faultless`). After one fault less is true but enough (`OneFault`): what the
  group goes back to has its keys up to where it was; no start
  after the one in `tx:active` was handled; and a stop that is about to write a
  session has read its own start (`ReadsOwn`). `Mishap` says what any first fault can
  do to a charger, so that there is one proof for all of them.

Two attempts at these proofs failed for good reasons and changed the model's
properties. `Pairs` did not ask that what a stop is joined to be a
`StartTransaction` of its charger. And the bound on lost sessions was one for all
chargers together, which a restart that brings back the stops of two chargers
violates; it is now a bound for each.

### Gateway

`GatewayProofs`, for any connections, chargers, frames, partitions and budgets:

| Theorem | States |
|---|---|
| `TypeCorrect` | `Spec => []TypeOK` |
| `IdsAreDistinct` | `Spec => []TransactionIdsDistinct` |
| `NothingAnsweredIsLost` | `Spec => []AcknowledgedIsKept` |
| `ConnectionsAreOrdered` | `Spec => []ConnectionOrder` |
| `CallsAnsweredInOrder` | `Spec => []AnswersInOrder` |
| `UnansweredLeavesNothing` | `Spec => []OnlyAnsweredArePublished` |

- `Inv1`: the types, that a busy handler is at a frame of its connection and what it
  publishes has a topic, and that writers are closed only after a SIGTERM. The
  last is why a closed writer is no other way to lose an event.
- `Inv2` adds that the ids given or about to be given by the running process are at
  most `txCounter` and distinct: the next one is above them all.
- `Inv3`: until the process ends, the answered CALLs that are in nobody's hands are
  no more than the publications given up. An event goes from a handler's hands to
  the queue and from its head to the log, and only those faults take one away.
- `Inv4`: of each partition, that the queue and the log hold its own events, in the
  order of their frames, the queue's behind the log's, and that all of them are
  past: at most the frame at hand, and before it if the handler has yet to
  publish that. The last is what a new event needs to come after all others of its
  connection, also when an earlier one still waits in the queue after its deadline.
- `Inv5`: the replies on an open connection are those of its `CallsDue`, the CALLs
  read that can be answered, but for the one that a handler is about to answer, and
  on a closed one at most the last is missing (`RepliesOK`). The property speaks of
  all CALLs read, and follows as those that are not due are the ones without a
  quotable id.
- `Inv6`: only CALLs that can be answered and have a topic are queued.
- `Inv7` adds to `OnlyAnsweredArePublished` that a handler about to publish has
  answered, which makes the queue hold answered CALLs only.

### From CALL to row

`PipelineProofs` proves `CallsAreLostOnlyToFailures`: `Spec => []LossEndToEnd`, for
any instance of `Pipeline`'s assumptions, which say what `makeEvent` makes of a
frame. Nothing is proved anew of the parts: the modules of theorems are
instantiated with Kafka between them, and the invariant is the conjunction of the
gateway's `Inv3` and `Inv6` and the state-processor's `Inv7`. A step of the
gateway leaves the state-processor alone, or puts an event into a partition that
both compute alike (`DeliveredArrives`); the state-processor's invariant survives
that, whoever publishes (`ArriveInv7`). An answered message that is gone is then
either one the gateway abandoned or one that is doomed
(`GoneAbandonedOrDoomed`), and the two bounds add up.

### REST API

`ApiReaderProofs`, for any requests beside the state-processor's steps:

| Theorem | States |
|---|---|
| `ApiTypeCorrect` | `ApiSpec => []ApiTypeOK` |
| `AnswersReadable` | `ApiSpec => []AnswersAreReadable` |
| `OnlyFailuresMiss` | `ApiSpec => []MissesOnlyFailures` |
| `StatusGoesForward` | with one instance and no failed reads of the guard, `ApiSpec => StatusNeverGoesBack` |

- `RequestOK` and `AnswerOK`: what a request is to read is listed, and what it has
  read can be shown. With `Inv5` of the state-processor, and since nothing listed
  is ever unlisted or emptied, this survives whatever is written between two reads.
- `MissOK`: the chargers a request was asked for and neither has nor is going to
  show are no more than the reads that failed since it began.
- `StatusInv`: a status that a request has read is not behind the last answer's and
  not ahead of Redis, a connector is read once per answer, and with `Inv4` what
  Redis shows goes forward only.

### Simulator

`SimulatorProofs`, for any connectors, sessions, readings, connections and budgets:

| Theorem | States |
|---|---|
| `TypeCorrect` | `Spec => []TypeOK` |
| `ReplyLagsByTimeouts` | `Spec => []ReplyLag` |
| `IdleIsAvailable` | `Spec => []IdleShowsAvailable` |
| `FaultsCostOneSession` | `Spec => []SessionLossBounded` |

- `Inv1`: the types; readings are left while the meter loop sends; the charger has
  dialled once more than connections failed, at most, which bounds `conn`.
- `Replies`: the replies in the channel, those on the wire and the CALLs the gateway
  has still to handle are numbered without a gap, from as many as there were
  timeouts, and one for the CALL that waits, down to the last.
- `Statused`: a connector that is announced and has no session is shown Available by
  this connection, or the last CALL on its way that concerns it says Available.
  Statuses of earlier connections may still be handled, but lose against these.
- `LossInv`: faults pay for each session that was to be closed and is not, and for
  each ignored timeout of a connection that works. Once a connection is dead, they
  pay as well for the sessions that its unread replies can still open: late
  replies let the loop go on for a while, and that they are paid for is what the
  property by itself does not say.

### Dashboard

`DashboardProofs`, for any chargers and bounds:

| Theorem | States |
|---|---|
| `TypeCorrect` | `Spec => []TypeOK` |
| `PageFollowsView`, `TimersDoNotPileUp`, `AddressFollowsView` | `Spec => []PageIsCurrent`, `[]OneTimer`, `[]AddressIsCurrent` |

One invariant, `Inv`: the three properties, the types, and that no fetch for the
fleet holds an error as JSON. The properties need each other: `OneTimer` tells
what the timer that fires fetches, and a reload opens a view of the page because
the address is current.

### Only model-checked

Liveness and fairness, which the prover does not reach: `EventuallyDrained`,
`EventuallySessions`, `AnsweredIsRecorded`, `ShownCatchesUp`, `EventuallyOnline`,
`EventuallyFresh`. Every safety property that a passing run checks is a theorem.

## 5. Not modelled, and why

- `GET /sessions`: a single query.
- JSON, OCPP payloads and formatting: abstracted to what the code branches on
  (`body`, `Frames`). An envelope that does not unmarshal is left out of
  `StateProcessor`, since the gateway makes all of them.
- `makeEvent`'s timestamp (the payload's, or the time of receipt): events have any.
- The arithmetic of a session's duration and energy, and of the simulator's power
  and meter values: no decision depends on it.
- The simulator's `main`, which starts chargers that share nothing.
- The dashboard's rendering, filters and sorting, and the set of session ids by
  which it highlights new rows: they change nothing that is fetched or opened.
- The writer that `Publish` makes for a topic it does not know: the gateway
  publishes to the five it has.
- Waiting for services at startup, metrics, static files, containers.

## 6. Plan

1. Done: `StateProcessor` with `LatestState`, its runs and first theorems;
   `Gateway`; `ApiReader`.
2. Done: `Pipeline`, `Simulator`, `Dashboard`; failed lookups of a transaction,
   frames as `ParseMessage` and `MakeCallResult` see them.
3. Done: theorems of the gateway and the dashboard.
4. Done: theorems of the state-processor on what is listed, shown and lost, of the
   API, of the simulator, of order in the gateway, and the loss bound of the
   whole, composed of those of its parts.
5. Done: `SessionPairsOwnStart` and `SessionLossBounded` of the state-processor, under
   an assumption on what chargers send.
6. Open: the same for a log in which the Kafka writer has repeated a batch, so that a
   start or a stop is there twice, and then from the gateway on, in `Pipeline`.
