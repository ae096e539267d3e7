# A TLA+ model of the k8s-countermeasures operator

The operator watches `CounterMeasure` and `Prometheus` custom resources. For
each Prometheus resource it runs a producer that polls alerts and publishes
events on an in-process event bus; for each CounterMeasure it runs a goroutine
that receives matching events and performs the countermeasure's actions (delete,
debug, patch, restart) on cluster objects. This directory models its concurrent
core, model-checks it with TLC on small instances, and proves with TLAPS its
safety properties, and that the bus implements an abstract specification, for
all values of the parameters.

    tlc -workers 2 -config EventBusSafety.cfg MCEventBus      # one of the runs
    tlapm EventBusProofs.tla                                  # the proofs

`PROJECT.json` lists the runs, the source lines behind every definition, the
hazards, the findings and the mutants (definitions marked `Mutant:` that show
each property to be sensitive to a plausible bug).

## Inventory

| Component | State | Operations | Interacts with |
|---|---|---|---|
| Event bus, `pkg/eventbus/eventbus.go`, `consumer.go` | `subscribers` map under an RWMutex, rate-limited workqueue, one buffered channel per consumer | `Publish`, `Subscribe`, `unsubscribe`, `Start`, workers in `processNextWorkItem` | producers publish; the action manager subscribes; consumers range over their channel |
| Matching, `matcher.go` | none (reads `subscribers`) | `SubscriberMatch` | called by workers under the read lock |
| Merged consumers, `consumer.go` | the set of consumers, `mergedCh` | `MergeConsumers`, `Merge`, `OnEvent`, `OnEventSync`, `UnSubscribe` | a goroutine between the consumers' channels and one reader |
| Action manager, `pkg/actions/manager.go` | `consumers` map | `Add`, `Remove`, `Exists`, a goroutine per countermeasure | reconciler calls it; it uses the bus, the state and the runner |
| Action state, `pkg/actions/state/state.go` | `counterMeasures` map of entries, each with `running` and `lastRuns` | `Add`, `Remove`, `GetCounterMeasure`, `CounterMeasureStart/End`, `IsSuppressed` | goroutines look entries up by key, three times per event |
| Action runner and actions, `pkg/actions/action.go`, `delete.go`, `debug.go`, `patch.go`, `restart.go` | none of its own; the cluster object | `Run`, `Perform` with retry | API server and informer cache |
| Producer manager, `pkg/producer/manager.go` | `producers` map, `shutdown` channel | `Add`, `Remove`, `Exists`, `Start` | Prometheus reconciler; controller manager |
| Prometheus producer, `pkg/producer/prometheus/` | configuration | `Start`, `poll` | Prometheus HTTP API; `Publish` on the bus |
| CounterMeasure controller, `controllers/countermeasure/` | resource status in the API server | `Reconcile`, `MarkInitializing`, `HandleSuccess`, `HandleErrorAndRequeue` | cache, API server, action manager |
| Prometheus controller, `controllers/eventsource/` | resource status | `Reconcile` and handlers | producer manager |
| Event keys and topics, `pkg/events`, `pkg/manager` | none | `Event.Key`, `CreateFullyQualifiedTopicName`, `ToKey` | producers' topics; suppression; entry lookup |
| Webhooks, `apis/*/v1alpha1` | none | `Default`, `ValidateCreate/Update`, `ValidateSpec` | API server admission; the CounterMeasure controller calls `ValidateSpec` too |
| Wiring, metrics, assets | none that matters | - | - |

### What is hard in it

* **Concurrency.** Workers, the two reconcilers, one goroutine per
  countermeasure, one per producer and `Start` of each manager share maps,
  channels and locks. Channels are closed by parties other than the sender.
* **Check, unlock, act.** The countermeasure goroutine looks its entry up,
  checks suppression, starts and ends a run in four separate critical sections.
* **Backpressure.** A full channel makes a worker abandon the rest of its
  subscribers and requeue the message, so some get it twice and some must get
  it later.
* **Shutdown.** The drain, the closing of channels and the stop of the workers
  interleave with everything else.
* **Identity of events.** Suppression depends on a key that is computed twice per
  event from a map that is visited in another order each time.
* **Stale reads and lost replies.** Reconcilers and `Debug` read a lagging
  cache; a write may be applied although its reply is an error.
* **Restarts.** All managers keep their state in memory only; what survives is
  the status in the API server.

### What makes each part correct

* Bus: no message owed to a subscriber is lost while the bus serves; it is
  delivered in the end; nobody sends on a closed channel; `Start` returns.
* Matching: exactly the subscribers of the topic's prefixes, each once.
* Merged consumers: no event lost or repeated, all of them forwarded until an
  input is closed, and then an end.
* Alerts: one that keeps firing runs its countermeasure, not twice within the
  suppression, and keeps none from running but those of its key, for that long.
* Action manager: whatever is installed listens; no goroutine without an
  owner; goroutines of removed countermeasures end; suppression holds, and no
  countermeasure runs twice at a time, but where such goroutines are still at
  work.
* Runner: actions in order, stop at the first failure, no repeated effect
  without leave to retry, no duplicate debug container, termination (by a panic
  of the process if a template does not parse).
* Producers: every registered one polls, active alerts are published, all stop
  at shutdown.
* Controllers: status never ahead of the installation, deletions and
  installable resources take effect in the end, across restarts; a missing service is tried
  again; no generation gets two producers; the status updates come to rest.
* Webhooks: what they and the controller let through can be run.

## Modules

| Module | Models | Used by |
|---|---|---|
| `EventBus` | bus, workqueue semantics, `RWMutex`, `Start`'s shutdown | `MCEventBus`, `EventBusProofs` |
| `PubSub` | what the bus promises, without workqueue, workers and locks | `EventBus`, by `INSTANCE` |
| `Matcher` | the slices in the map and the recursion of `SubscriberMatch` | `MergedConsumers` |
| `MergedConsumers` | consumers and merged consumers on `Matcher`'s subscriptions | `MCMergedConsumers`, `ConsumerProofs` |
| `Events` | `ToEvents`, `Event.Key`, topics (operators) | `AlertFlow` |
| `AlertFlow` | alerts, sources, the bus as `PubSub` promises it, one countermeasure's goroutine | `MCAlertFlow`, `AlertFlowProofs` |
| `ActionManager` | manager and state with the goroutines | run directly, `ActionManagerProofs` |
| `ActionRunner` | `Run`, retries, the four `Perform`s | `MCActionRunner`, `RunnerProofs` |
| `ProducerManager` | manager and Prometheus producers | run directly, `ProducerProofs` |
| `Admission` | the webhooks' defaulting and validation, the action registry, `GetSecret` (operators) | the two controllers |
| `CounterMeasureController` | `Reconcile` for one resource name, webhooks, time | `MCCounterMeasureController`, `ControllerProofs` |
| `PrometheusController` | `Reconcile` of a Prometheus resource, webhooks, service and secret, crashes | `MCPrometheusController`, `PrometheusProofs` |
| `EventBusProofs`, `ConsumerProofs`, `ActionManagerProofs`, `RunnerProofs`, `ProducerProofs`, `ControllerProofs`, `PrometheusProofs`, `AlertFlowProofs` | theorems | - |

### EventBus

The workqueue (external) has its documented parts: `queue`, `dirty`,
`processing`, and `waiting` for items in the back-off of `AddRateLimited`.
`pc[w]` is a worker's place in `processNextWorkItem`: `get` (in
`workqueue.Get`), `lock` (before `RLock`), `deliver` (in the loop over
`SubscriberMatch`, `todo[w]` being the channels left), `done` (before the
deferred `Done`), `idle` (back in `wait.Until`), `stopped`. The read lock is held
by workers in `deliver` and by `Start` from `StartRLock` on. `writer` is the
reconciler in `Subscribe` or `unsubscribe`; a waiting writer keeps new readers
out, as in `sync.RWMutex`. `starter` follows `Start`: serving, draining, locking,
closing the channels one by one, stopping one worker, returned. A send on a
closed channel sets `panic` and ends the behaviour. `owed` is a history
variable: the channels that were registered for a message when it was published,
have not got it since and have not been unsubscribed.

### PubSub

The abstract specification of the bus: mailboxes of bounded size, messages in
flight, and who is owed what. `EventBus` defines `RefinesPubSub` as its `Spec` under
the mapping: `phase` is up, down or broken as `Start` serves, is past its
context or a worker has panicked; a mailbox is a channel; a message is in flight
while the workqueue or a worker has it (`InFlight`). The specification says what
the rest of the operator may count on and what it may not: a message is not
dropped while somebody is owed it, is only sent to subscribers of a prefix of
its topic, may arrive twice, and mailboxes are only closed by their owner or by
the shutdown, which alone may break the bus. `Delivery`, checked of `EventBus`
itself, is its liveness part. `AlertFlow` builds on it.

### Matcher and MergedConsumers

A slice per topic, shifted in place by `unsubscribe`; the code's recursion over
the topic's parents is compared with a set comprehension and a sort. The set is
the one `EventBus` uses as its `SubscriberMatch`, and the order the one of its
`IsNext`. The recursion is a recursive function of the number of segments left, so
that it can be proved about. `Topics` is closed under prefixes (`MatcherAssumption`):
a prefix nobody subscribes to has an empty slice.

`MergedConsumers` adds `Publish` to the matches, and one `MergeConsumers`: its
goroutine is at `reflect.Select` (`select`), holds an event for `mergedCh`
(`send`) or has `ended`. `OnEvent` is the meeting of reader and goroutine, as
`mergedCh` has no buffer; `OnEventSync` goes past the goroutine to the inputs.
`sent`, `got` and `empties` are histories. At most `CONSUMER_BUFFER_SIZE` events
are published (`MergeAssumption`), so that no channel is full; `EventBus` has
the full ones. `UnSubscribe` of the set unsubscribes its consumers one at a
time, so the model lets each be unsubscribed on its own.

### Events and AlertFlow

A label's value is a sequence, so that `Key` can write values one after the
other as the code does; the order in which `range` visits the labels is chosen
anew at each call. The hash `Fnv32a` is a parameter and may be any function, so
that texts may collide. Alerts can have one key without a collision, as nothing
separates the values; the run has two such alerts. The properties are therefore
about keys: a run suppresses the alerts of its key and no others.

`AlertFlow` lets sources poll the same alerts, publish each under its own topic,
and one countermeasure with a suppression policy receive them from a channel.
The bus is a set of messages it may deliver in any order and more than once. The
goroutine has the steps it has in `ActionManager`, for a countermeasure that
stays installed; what is new is that the key is computed and not given. `Steady`,
a bound, is the set of alerts that fire all the time; the others come and go.

### ActionManager

Installation *i* is what the *i*-th `Add` makes: channel, entry and goroutine.
`Add` and `Remove` are two steps each, cut where the code calls the bus outside
its own lock. `gpc` follows the goroutine: `recv`, `lookup`
(`GetCounterMeasure`), `check` (`IsSuppressed`), `start`
(`CounterMeasureStart`), `run`, `end` (`CounterMeasureEnd`). Keys are name and
generation; a resource deleted and created again starts at generation 1, so an
old goroutine may find a new entry. The bus is reduced to `BusSend` and
`BusShutdown`; the reconciler to "add what does not exist, remove anything". The
inside of a run is in `ActionRunner`; here it returns (`Run`) or, if the
countermeasure is one of the `Malformed`, may panic (`RunPanics`), which ends the
process (`crashed`). `last` is a history, by entry and event key: which goroutine
made the last start, its own entry's or a later one's, and until when that start
suppresses.

### ActionRunner

One object, which runs of several countermeasures act upon. `Debug` reads it
from the cache and its update carries a resource version; the other actions go
by name and read the API server. A write may be applied and answered with an
error (`Write` with `Fail`). There are three ways to get nowhere before a write:
the target's apiVersion is malformed (`RejectVersion`, an error, found first); a
template of the target does not parse, which `template.Must` turns into a panic
that nothing recovers (`Panic`, after which no run takes a step); or the read,
the patch's own template or the request fails (`Reject`, an error). `succeeded`
and `effects` are histories.

### ProducerManager

`StartBlocks` is one step because `startProducers` never leaves the first
producer's `Start`: it waits for a channel that is closed only after
`startProducers` returns, and holds `producersMux` meanwhile.

### Admission

What the webhooks, the registry and `Manager.Add` look at in a spec: whether an
event name is set, whether there is a source selector and it is well formed,
which pointer fields an action defines, whether a debug image is given; whether
a Prometheus resource names a secret, whether its port can be in a URL, and what
it asks to poll. `AddressParses` is `FindNamedPort` and the parsing of the
address in `NewPrometheusClient`. `CounterMeasure.Default` assigns to the loop's
copies and so is the identity. `Prometheus.Default` overwrites `includePending`.

### CounterMeasureController

`server` is the resource in the API server, `cache` the informer's copy. Each
status update succeeds only if the cache is up to date, as optimistic
concurrency demands. `Add` and `Remove` of the manager are atomic here;
`ActionManager` has their insides. `webhooks` is chosen at the start
(`ENABLE_WEBHOOKS`); with them, users' specs pass `Admission` before they are
stored. `validate` checks the copy that `MarkInitializing` read again, and `Add`
installs it. `AddFails` is for the selectors: the event sources one selects
cannot be listed this time, or it is malformed, and then `Add` is never
possible. Every status carries a time. Times are abstracted to three values
relative to the present second, which is enough to tell whether an update
changes anything: if it does not, the API server sends no watch event. `Tick`
ends a second; it waits until the reconciler is quiet or has made two updates in
it (`rounds`).

### PrometheusController

As above, with `service` and `secret`, which change unnoticed by the reconciler,
`delayed` for the request due after `RequeueAfter`, and `producers` by generation.
A service is absent, found with a port of the name asked for (or with one port
only), or found without; in the last case the spec's port number makes the
address, which may not parse. `launched` counts, as a history, the producers made
from each incarnation and generation. A secret that is missing or of another type
makes `createP8sClient` log to a logger nobody has set, which ends the process
(`crashed`) until `Recover`; the webhooks, which the same process serves, admit
nothing meanwhile. No resync of the informer is assumed, so
`ReadyIsInstalled` rests on the delayed requeue alone.

## Runs

| Run | Instance | Shows |
|---|---|---|
| `event_bus_safety` | 2 workers, 2 messages, 2 nested topics, 2 subscriptions, 3 publishes, capacity 1 | `TypeOK`, `NoLostMessage`, `OnlyShutdownPanics`, `TopicIsolation`, `RefinesPubSub` |
| `event_bus_liveness` | 1 worker, 2 subscriptions, 2 publishes | `Delivery`; `StartReturnsUnlessWriter` |
| `consumers` | 3 nested topics, 3 subscriptions, 2 events, any set of them merged | `MatchIsOrderedPrefixes`, `MergedOnce`, `EmptyMeansClosed`, `MergeDelivers`, `MergeEnds` |
| `alert_flow` | 3 alerts, two of them with one key, 1 source, capacity 1, suppression 1, clock to 1 | `OncePerWindow`, `SkippedForItsKey`, `FiringRuns` |
| `action_manager` | 1 name, with a malformed template, 2 generations, 2 installations, clock to 1 | `NoOrphanGoroutine`, `InstalledListens`, `SuppressionHonoured`, `TwiceOnlyByLeftover`, `CrashCauses`, `GoroutineEnds` |
| `action_manager_no_crash` (violation) | as above, without the template | a nil entry is dereferenced |
| `action_runner` | 3 runs, one dry and with a malformed template at its end, 2 attempts, 2 lives of the object | `TypeOK`, `DebugOnce`, `StopsAtFailure`, `NoRetryNoRepeat`, `RunEnds` |
| `producer_manager` | 1 name, 2 generations, 1 alert, 2 adds | `TypeOK`, `NoProducerMissed`, `ActiveIsPublished`, `ShutdownStopsPolling` |
| `producer_starts_all` (violation) | as above | the second producer never starts |
| `countermeasure_controller` | 3 edits or restarts, 2 installable specs, 1 with a malformed selector, 3 invalid ones, webhooks on and off | `InstalledRuns`, `MonitoringMeansInstalled`, `DeletedIsRemoved`, `ValidIsInstalled`, `Settles` |
| `controller_changes` (violation) | 2 edits | changed specs are not installed |
| `prometheus_controller` | 3 edits or restarts, with a secret and a bad port or with neither, webhooks on and off | `LaunchedOnce`, `PollsAsStored`, `PollingIsRegistered`, `ReadyIsInstalled`, `DeletedIsForgotten` |

Deadlock checking is off where a system may come to rest: in the bus, the merged
consumers, the action manager and the runner, when all calls the bounds allow
have been made, or the process has shut down or crashed. It is on elsewhere.
The type invariants of `ActionManager`, `AlertFlow` and the two controllers have no
run: they are proved (`TypeCorrect` in their proof modules).

### Bounds, and why they are enough

* **Bus.** Capacity 1 makes a channel full after one event. Two subscriptions on
  nested topics give a message two receivers, one of which can be full. Two
  workers are what it takes to process two items at once and to coalesce an
  item one of them holds; three publishes, for a republication while it is held.
  One worker suffices for the liveness run: for `StartReturnsUnlessWriter` it is
  the hardest case, since any worker that gets back to `wait.Until` lets `Start`
  return; for `Delivery` the contention is between messages and channels.
* **Consumers.** Three nested topics are as deep as the topics that producers
  publish to. Three subscriptions let two have the same topic, or the merged
  consumer share a topic with one outside it. Two events: one in the goroutine's
  hand while another waits.
* **Alert flow.** Two alerts have one key, since their values make the same text,
  and a third has another. Those two fire all the time; the third comes and
  goes. An unsorted concatenation would give an alert two keys. The clock
  reaches exactly the end of the suppression. A capacity of 1 makes the channel
  full. A second source would only publish the same alerts again, which polling
  and repeated delivery do already.
* **Action manager.** Two installations of one name are one removed and one
  re-created, with an equal or a different generation. The clock reaches exactly
  the end of a suppression, the boundary at which clearing and checking must
  agree. More names and a longer clock only multiply states that do not
  interact; the safety invariants are proved for all of them.
* **Runner.** Two attempts: one retry. Two lives: the object is deleted and
  created again between attempts. The malformed template is in the third run's
  last action, so that the panic can come at any point of the other two, and also
  never, if an action before it fails.
* **Producers.** Two adds: one before and one after `Start`, or two generations.
* **Controllers.** Three edits: create, delete and create again, or create,
  restart and delete. The CounterMeasure specs are two that can be installed, one
  with and one without a selector, a valid one whose selector is malformed, and
  the ways to be invalid: no event, a debug action without an image, an entry
  with two actions. An update of the status takes a fraction of a second; that two of
  them, with the watch event between them, fit into one is what `Tick` assumes.

### Fairness, and why the code justifies it

* Goroutines of the process run: weak fairness on workers, consumers,
  countermeasure goroutines, the rest of a started `Add` or `Remove`, producers
  and the reconciler. Nobody has to publish, subscribe, edit or cancel.
* Timers fire: weak fairness on the back-off and on the resync.
* `RLock` is strongly fair: at each `Unlock`, `sync.RWMutex` admits the readers
  that wait before the next writer.
* A producer's stop is strongly fair: `wait.Until` looks at the channel on every
  round, between two polls.
* `reflect.Select` chooses at random among the inputs that are ready: strong
  fairness for each. The reader of a merged consumer goes on reading.
* In `AlertFlow`, the bus delivers what has room again and again: strong fairness
  of `Deliver`, which is what `Delivery` shows of the bus.
* The kubelet restarts a process that has crashed: weak fairness of `Recover`.
* `Resync` is ten hours after the last, so it is only possible, and weakly fair,
  when the reconciler has nothing else to do.
* Calls to the API server return. In the controllers, strong fairness on `Add`,
  `MarkInitializing` and the status updates: what is retried again and again
  succeeds in the end. Of `Add` that is the listing of the event sources; a
  malformed selector is not an error that passes, `Add` is not enabled for it, and
  `ValidIsInstalled` is about specs without one (`Installable`). Updates of a
  *changing* resource may fail for ever without the assumption.

### What the violations show

* **`NoCrash`.** `CounterMeasureStart` and `CounterMeasureEnd` dereference
  `s.counterMeasures[key]`; `Remove` may have deleted it since the goroutine
  looked it up. `CrashCauses`, proved, says that nothing else leads there, and that
  the only other crash is that of a malformed template.
* **`StartsAllProducers`.** With two producers registered before `Start`, the
  first one's blocking `Start` keeps the second from starting and `Add`, `Remove` and
  `Exists` from returning.
* **`ChangesAreInstalled`.** `Exists` ignores the generation, so an update, or a
  delete and create seen as one, leaves the old spec running under a status that
  claims the new generation.

Further behaviour visible in the models, without a violation run of its own:

* `ShutDownWithDrain` waits for the items being processed, not for the queued
  ones. Afterwards `Start` closes the channels under a read lock that a worker
  with a queued item can share, and the worker sends on a closed channel.
  `OnlyShutdownPanics`, proved, says that this is the only way to panic.
* `StartReturnsUnlessWriter` has its exception because `Start` waits for a worker
  while it holds the read lock, and a waiting writer keeps the workers from the
  lock.
* A countermeasure re-created during a run can run twice at a time, as the
  running flag belongs to the entry, and the new entry has no windows: whatever
  the old one suppressed may run again at once. If the generation is the same,
  the goroutine of the removed one finds the new entry and runs it too.
  `SuppressionHonoured` says what is left of the policy, and `TwiceOnlyByLeftover`
  that nothing but such a goroutine makes one entry run twice at a time.
* A countermeasure with a target template that does not parse passes
  `ValidateSpec`, and its first run that gets to it ends the process
  (`template.Must`, `action.go:159-164`), with all other runs.
* One with a malformed `sourceSelector` passes `ValidateSpec` too, and every `Add` of
  it fails (`manager.go:70-73`).
* A negative `service.port`, with a service of several ports none of which has the
  name asked for, makes an address that does not parse; the reconciler tries
  again every half minute.
* A removed or superseded producer goes on polling until the shutdown. A
  Prometheus resource that is deleted and re-created while the reconciler sees
  only one change keeps its old producer if the generation is the same.
* `Prometheus.Default` overwrites `includePending` and `pollingInterval` whatever the
  user wrote, which `docs/README.md:94-96` describes as fields to set.
* A Prometheus resource with a wrong secret crashes the process again and again
  until the secret is right (logr v1.2.3; `main.go:166-169` sets no `Log`).
* `CounterMeasure.Default` has no effect: it assigns to the variable of its loop.
* `Event.Key` concatenates values without separators and without their labels'
  names, so that alerts that differ in several labels can have one key even
  before the 32-bit hash. Then the run of one suppresses the other, for as long
  as `SkippedForItsKey` says.
* When one input of a merged consumer is closed, events still in the others stay
  behind, and `mergedCh` is never closed. `OnEventSync` of a merged consumer and its
  goroutine take events from each other (`consumer_test.go:148-149` uses both).
* The event sources a countermeasure's selector selects are listed and not used.

## Proofs

All proof modules follow the same argument: an inductive invariant holds
initially, every action preserves it, and it implies the properties. The
theorems hold for all values of the constants that the `ASSUME`s allow,
including the bounds, and any number of workers, messages, channels,
countermeasures and event keys.

**`EventBusProofs`**, from `BusAssumption`: `TypeCorrect` (no channel exceeds its
capacity), `MessagesKept` (`NoLostMessage`), `PanicsOnlyAtShutdown`
(`OnlyShutdownPanics`). `BusInv` strengthens these by

* `WorkersOK`: a worker between `Get` and `Done` has a message, and only a
  delivering one has channels left. Needed because `NoLostMessage` counts on the
  message a worker holds.
* `LockOK`: until `Start` closes channels, registered ones are open and a
  delivering worker's are registered. This is what the RWMutex gives:
  `unsubscribe` waits for delivering workers. Without it a send on a channel that
  `unsubscribe` closed cannot be excluded.
* `OwedOK`: a channel is owed only messages that match it, so that the worker's
  `SubscriberMatch` includes it.

On top of `BusInv`, the same module proves `TopicsIsolated` (`TopicIsolation`)
and `Refinement` (`RefinesPubSub`): the initial state maps to one of `PubSub`,
and each step of the bus to a step of `PubSub` or to none. `RefInv` adds

* `WorkQueueOK`, the books of client-go's workqueue: a message a worker forgets is
  nowhere else in it, unless it has been published again.
* `SendOK`: a channel a worker has still to send to is closed or registered for a
  prefix of the message's topic, which makes the send a `Deliver` or a `Break`.

`TopicIsolation` is inductive together with `SendOK` and with `FreshOK`, that channels
not made yet are empty. `NoLostMessage` is what lets a worker's end of a message
map to `Finish`, which asks that nobody is owed it.

**`ConsumerProofs`**, from `MatcherAssumption` and `MergeAssumption`: `ConsumersInvariant`,
`MatchOrdered` (`MatchIsOrderedPrefixes`), `MergeLosesNothing` (`MergedOnce`),
`EmptyEventTruthful` (`EmptyMeansClosed`). `ConsumerInv` has

* `SlicesOK`: a topic's slice holds its open channels, in increasing order.
  `unsubscribe`'s shift in place (`RemoveIndexProperties`) keeps both. With it, an
  induction on the number of segments (`GatherLevel`) shows what the recursion
  gathers level by level: the channels of the first *n* prefixes and no others,
  longer prefixes first.
* `AllOnce`: for every channel, what was sent is with the readers, in the
  goroutine's hand or in the channel, in one of them and once. `MergedOnce` counts
  the same thing by cardinalities, for the merged channels only; disjointness is
  what is inductive, and it has to hold before a channel is merged.
* `Numbered`: the next event's number is new, without which a send could repeat one.
* `EmptyOK`: the goroutine holds the empty event only if an input is closed and
  empty, and that does not change afterwards.

Induction over the naturals is itself proved, as a statement about sets
(`SetInduction`, from the well-foundedness of `<`), since the library's form takes
an operator.

**`ActionManagerProofs`**, from `ManagerAssumption`: `TypeCorrect`,
`GoroutinesOwned` (`NoOrphanGoroutine`), `InstalledAreListening`
(`InstalledListens`), `SuppressionIsHonoured` (`SuppressionHonoured`),
`OnlyLeftoversRunTwice` (`TwiceOnlyByLeftover`), `CrashesHaveCauses` (`CrashCauses`).
`ManagerInv` adds

* `InstallsOK`, `ChannelsOK`: goroutines exist for finished `Add`s, and end only
  on closed channels; a channel is registered or closed.
* `CallerOK`, `MapsOK`: what holds in the middle of `Add` and `Remove`, and that
  the consumers and the state agree otherwise.
* `EntriesOK`: a name's entry is never older than one a goroutine has seen for
  it, nor than its own.
* `QuietOK`, `PassedOK`: an entry remembers a suppression as long as it lasts
  (`clearExpiredLastRuns` drops only what is past), so that passing
  `IsSuppressed` means the time is over, unless another goroutine starts the entry
  afterwards.

Two further invariants are inductive on top of it. `ByOK`: a goroutine that has
started an entry never comes back to an older one. So if it finds an entry at
`CounterMeasureStart` that it has started before, that is the one it checked in
`IsSuppressed`, although it was looked up twice. `RunningOK`: a running entry is run
by a goroutine with its key; with one goroutine to an entry, a second run means
that one of the two belongs to an earlier installation.

**`RunnerProofs`**, from `RunnerAssumption`: `TypeCorrect`, `DebuggedOnce` (`DebugOnce`),
`FailureStops` (`StopsAtFailure`), `NotRetriedNotRepeated` (`NoRetryNoRepeat`). `RunnerInv` has
`ObjectsOK` and `PlacesOK` (types), `ProgressOK` (what has succeeded is what comes before
the present action, which has at most one effect per attempt made), `CopiesOK` (a
copy with the object's uid and version has its containers, and none is ahead:
optimistic concurrency) and `ReadOK` (`Debug` goes on to write only if what it read
lacks the container). The last two make `DebugOnce` inductive: an update that goes
through was made from what the object is. `CallsAreBounded` is the part of `RunEnds`
that is not about fairness: every call lowers `CallsLeft`, a number that starts at
2 * `Steps` per action and that no other run and no change of the object raises.
The theorems hold whichever actions are malformed and whenever they panic.

**`ProducerProofs`**, from `ProducerAssumption`: `TypeCorrect`, `NoneMissed`
(`NoProducerMissed`). `TypeOK`, which ties the shutdown channel to the state of `Start`,
is all the strengthening needed.

**`ControllerProofs`**, from `ControllerAssumption`: `TypeCorrect`, `InstalledAreRunnable`
(`InstalledRuns`), `MonitoringIsTrue` (`MonitoringMeansInstalled`). `ControllerInv` adds
`EditsOK` (uids and generations within the bound), `ValidOK` (what is at `add` or
installed has passed `ValidateSpec`) and `SuccessOK` (success is only reported on what
is installed). That a valid spec can be run is a lemma on `Admission`:
`ValidateAction` demands exactly one field, and the registry picks it.

**`PrometheusProofs`**, from `PrometheusAssumption`: `TypeCorrect`, `NoSecondProducer`
(`LaunchedOnce`), `ProducersFollowSpecs` (`PollsAsStored`), `PollingIsTrue`
(`PollingIsRegistered`). `PrometheusInv` adds `UidsOK` (uids are of past edits), `SpecsOK`
(a copy or a producer of the resource's uid is of its generation or an earlier
one, and of the same spec if of the same generation), `LaunchOK` (what was
launched for the resource the cache shows is still registered, so `Exists` finds
it) and `SuccessOK`.

**`AlertFlowProofs`**, from `FlowAssumption`: `TypeCorrect`, `NotTwiceInWindow`
(`OncePerWindow`). `FlowInv` adds `HandOK`, `RemembersOK` (a run is remembered under its
alert's key until its window is over, or a later run of an alert with the same
key is) and `PassedOK`. It rests on the lemma `KeyIsStable`: the key does not depend
on the order of the labels, because a sort of all of them comes first. The
theorem needs nothing of the hash, and neither does `SkippedForAKey`
(`SkippedForItsKey`). `SkipInv` adds for it that only alerts of the event's name get
to the goroutine (`NamedOK`), and that every entry of `lastRuns` is the last start of
an alert with that key (`TracedOK`).

Whether two alerts have one key is another matter. `OneLabelTellsApart` says when the
text that is hashed is not to blame: if they have the same labels and differ in
one, which alerts of one rule for several pods or nodes do, their texts differ;
then only the hash can make them clash. Its proof is an induction on the labels
written: up to the label the texts are equal, at the label they differ, and what
follows is equal again.

**Model-checked only.** The liveness properties (`Delivery`,
`StartReturnsUnlessWriter`, `GoroutineEnds`, `RunEnds`, `MergeDelivers`, `MergeEnds`,
`FiringRuns`, `ActiveIsPublished`, `ShutdownStopsPolling`, `DeletedIsRemoved`,
`ValidIsInstalled`, `Settles`, `ReadyIsInstalled`, `DeletedIsForgotten`): liveness under
fairness is beyond the prover. Every invariant and every action property of the
passing runs, and the refinement, is a theorem.

## Not modelled

* Consumer ids, logging, metrics, what templates evaluate to and the contents of
  patches: no property tells them apart.
* The Prometheus HTTP client and its authentication: I/O. A failed query leaves
  the producer where it was.
* Which port of a service `FindNamedPort` chooses: only whether it finds one matters.
* `MarkInitializing` of the Prometheus controller, `SplitKey`, `ServiceToKey`: no caller.
* The declarations of the API types and their generated deep copies.
* Flags, scheme registration and leader election in `main.go`.
* The FNV-1a function itself: a parameter, of which nothing is assumed.
* What re-encoding makes of `retryEnabled` (`omitempty` and the schema's default).
* The workqueue's rate limits: a back-off ends at some time.
* Which event sources a selector selects: `Manager.Add` does not use them. That it
  may be malformed, and that listing them may fail, is modelled (`AddFails`).

## Plan

Order of work: the bus first, since everything communicates through it; then the
manager that consumes from it, the runner, the producers and the controllers;
then what the bus promises and its refinement, the flow from alerts to runs on
top of it, consumers, webhooks and the time in the controller. Those are in
place. What is left:

1. A composition of `PrometheusController` and `ProducerManager`: the polling
   goroutines that accumulate over edits.
2. A composition of `EventBus` and `ActionManager` in full, in place of `AlertFlow`'s
   abstract bus and its countermeasure that stays installed.
3. A refinement of an abstract manager (a set of installed names) by
   `ActionManager`, to be used by `CounterMeasureController`.
