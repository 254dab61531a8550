# TLA+ models of the opni alerting condition pipeline

These TLA+ modules model the alerting plugin's condition pipeline
(`src/plugins/alerting/pkg/alerting/impl.go`) and, as the plan below lays out,
the other stateful parts of `src/`. TLC checks each module under the configs
listed here. `PROJECT.json` maps every definition to the lines of code it
translates. It also lists the runs, the mutants that show each property
can fail, the findings and the hazards.

## 1. The system

| Part | Code | State | Operations |
|---|---|---|---|
| Event Router | `ManagementWatcherHooks` (impl.go 23-49) | list of (predicate, hooks) cases | `RegisterEvent`, `HandleEvent` (synchronous, hook errors discarded) |
| Cluster Lifecycle Provisioner | `newClusterWatcherHooks` (impl.go 51-93) | durable consumers (JetStream), default evaluators (memory) | Created: create consumer (panic on error), start `disconnect` and `capability` evaluators. Deleted: tear both down. Updated: nothing. |
| Condition Evaluator | `InternalConditionEvaluator` (impl.go 95-330) | `inMemoryFiring` under `firingLock`; stored `CachedState` and `IncidentIntervals` | `CalculateInitialState`, then `SubscriberLoop` and `EvaluateLoop` as two goroutines; `UpdateState`, `IsFiring`, `SetFiring` |
| Storage contract | external (`storage.*`) | States and Incidents KV | Get/Put, `IsDiff`, `OpenInterval`, `CloseInterval` |
| Durable stream | external (NATS JetStream) | per-cluster stream; the durable consumers the Created hook provisions; the subscription each evaluator opens | publish, subscribe, deliver, ack |
| Cluster list UI | `src/pkg/opni/ui/clusters.go` | rows, `lateJoinHealthStatus` | `Update` per cluster event or health status; `ClusterListWatcher.Run` forwards two streams |
| Provider detection | `src/pkg/providers/detection.go` | none | `Detect`, `ContainerRuntime`, `String` (pure) |
| Management socket | `src/pkg/apis/management/v1/util.go` | none | `DefaultManagementSocket` (pure) |
| Agent command, ISM client, kube client | `commands/agent.go`, `opensearch/ism.go`, `opni/util/client.go` | none of their own | I/O and wiring |

How the parts interact:

1. The management plane emits Created, Updated and Deleted watch events.
2. `HandleEvent` runs the hooks of every matching case in order.
3. The Created hooks provision the cluster's durable consumer and then start its evaluators.
4. Each evaluator's `SubscriberLoop` subscribes to the cluster's stream subject. It does not bind the durable consumer: `ChanSubscribe` creates an ephemeral one that delivers the stream from its first message. The loop persists every health message through `UpdateState` and then acks it.
5. Meanwhile `EvaluateLoop` reads the stored state on every tick.
   - When the cluster has been unhealthy for longer than `evaluateDuration`, the loop fires the alert. It persists `Firing: true`, opens an incident interval and calls `triggerHook`.
   - When the stored state is healthy and the alert is firing, the loop clears the flag, closes the interval and calls `resolveHook`.

The terminal UI is a separate client of the management API. `ClusterListWatcher.Run` forwards two server streams into one channel: cluster events and cluster health statuses. `ClusterListModel.Update` folds that channel into the table the user sees.

The agent command picks a bootstrapper and a trust strategy from its config file (`configureBootstrap`). Provider detection tells the Kubernetes distribution apart from the node list (`Detect`).

The two loops share only the mutex-protected firing flag and the store. A
process death stops everything. Afterwards a new process receives a replayed
Created event for every cluster, and each new subscription replays the
stream from its first message, acknowledged or not.

## 2. Modules and how they correspond to the code

### ConditionEvaluator (+ MCConditionEvaluator)

One evaluator for one condition.

**Variables**

| Variable | Models |
|---|---|
| `firing` | `inMemoryFiring` |
| `states` | the stored `CachedState`, or `NotFound` |
| `incidents` | the stored `IncidentIntervals` |
| `stream` | the published messages |
| `acked` | the highest stream position acknowledged so far (history) |
| `delivered` | the subscriber's delivery position |
| `subPc`, `evalPc` | where each goroutine is between its atomic steps |
| `incoming` | the subscriber's `incomingState` |
| `lastKnown` | the tick's `lastKnownState`, from its `Get` until the tick's last use of it |
| `tickIn` | time until the next tick |
| `parentDone`, `evalDone` | the two contexts |
| `crashes` | process deaths so far |
| `alertActive` | whether the alert manager holds a triggered alert |
| `applied` | the messages that went through `UpdateState` (history) |

**Actions.** Each action is one step between two points where the other goroutine can interleave.
- `Subscribe` is the bootstrap loop; a successful `ChanSubscribe` starts delivery at the first message of the stream.
- `Receive` covers decode, `healthOnMessage` and `IsFiring` (lines 211-222).
- `SubscriberUpdate` is line 223 and `SubscriberAck` is line 224.
- `TickRead` is the tick's unlocked `States().Get` and the elapsed-time computation (lines 241-248); `TickReadFailed` is its `continue` on error. The SubscriberLoop can write between `TickRead` and the branch that acts on what it read.
- `TickTrigger`, `TickPending`, `TickResolve` and `TickHealthy` are the branches of the tick, decided on `lastKnown`. `IsFiring` and `SetFiring` stay inside one step, because only the EvaluateLoop writes the flag while the loops run.
- `EvaluatePersist`, `EvaluateOpen`, `EvaluateClose` and `EvaluateResolve` are the storage and hook calls that follow a branch.
- `SubscriberExit` and `EvaluateExit` are the `ctx.Done()` cases.
- `CalculateInitialState` is one step, because nothing else runs yet. Every Get and Put outcome is a nondeterministic choice.
- `Publish`, `Advance`, `CancelParent` and `Crash` are the environment.

**Abstractions**
- **Time.** A state's age is counted in evaluate intervals. It saturates at `EvaluateDuration + 1`, where further age changes no decision, so no clock bound is needed.
- **`Now()` timestamps.** These have age 0.
- **Incidents.** An incident record is reduced to the state of its last interval plus a flag for a second open interval.
- **Messages.** A message is healthy or unhealthy, and decodes or fails to.
- **Hooks.** `triggerHook` and `resolveHook` set or clear `alertActive`.

**Spec-modelled parts.** The storage client and `healthOnMessage` are not under `src/`, so they are modelled from spec sections 3 and 4.4 and marked `spec_modelled` in the map.

### AlertPolicy, and the refinement

`AlertPolicy` is the abstract specification of one evaluator, taken from spec 4.3. It has four variables:
- `stored`, the persisted state;
- `alert`, the alert at the alert manager;
- `evaluating`, whether the evaluator waits for its next tick;
- `read`, the state the evaluator read and is acting on, or `NoTick`.

Its actions are `Read`, `Raise`, `Decide`, `Resolve` and `Environment`:
- `Read` copies `stored` into `read`.
- `Raise` is only allowed when the alert is down and `read` is unhealthy for longer than `evaluateDuration`. This pair of conditions is `MustRaise`.
- `Decide` ends a tick that does not oblige the evaluator to raise.
- `Resolve` takes the alert down.
- `Environment` is any step that leaves the alert alone. It may drop `read` only when the evaluator stops.

`read` is a snapshot on purpose. Spec 5 lets the message-driven writer persist a newer state before the evaluator acts on what it read. The promise is therefore about the state the tick read, not about the state persisted when the hook fires. Weak fairness on `Read` and `Raise` says a waiting evaluator keeps reading, and does not sit on a state it must alert on.

`ConditionEvaluator` defines `AP == INSTANCE AlertPolicy WITH stored <- states, alert <- alertActive, evaluating <- evalPc = "idle", read <- IF evalPc = "decide" THEN lastKnown ELSE None`. The property `ImplementsAlertPolicy == AP!Spec` is checked in `evaluator_safety`. `evaluating` deliberately ignores cancellation: after `ctx.Done()` becomes ready, `select` may still take a tick and trigger.

Earlier versions of the model made the `Get` and `triggerHook` one step and checked the stricter promise "raise only while the persisted state is unhealthy past the threshold". That promise does not hold for the code: the subscriber can persist a healthy state between the two calls. Splitting the tick exposes that window, and the abstract spec now states what spec 5 allows.

The abstract spec says nothing about when an alert is resolved. "Resolved on the next healthy observation" is `HealthyResolvesAlert`, which the code violates (evaluator_flapping).

### ClusterWatcherHooks (+ MCClusterWatcherHooks)

The router and the provisioner together.

**Variables**

| Variable | Models |
|---|---|
| `registered` | the management plane's clusters |
| `watch` | the undelivered watch events |
| `consumers` | provisioned durable consumers |
| `evaluators` | running default evaluators, as ⟨cluster, condition⟩ |
| `todo`, `current` | the hooks `HandleEvent` still has to run for the current event |
| `up` | whether the process is alive |
| `changes` | bounds the management plane |
| `crashes` | bounds process deaths |

**Definitions and actions**
- `Cases` builds the two cases exactly as `newClusterWatcherHooks` registers them through `RegisterEvent`.
- `MatchedHooks` is the loop in `HandleEvent`.
- `ConsumerHook` creates the consumer. On failure it panics: the process dies, the evaluators stop and the remaining hooks never run.
- `EvaluatorHook` runs one of the four evaluator hooks and discards its error.
- `Restart` replays Created for every registered cluster, in any order.

### ClusterListModel (+ MCClusterListModel)

The terminal cluster list, `pkg/opni/ui/clusters.go`.

**Variables**

| Variable | Models |
|---|---|
| `registered`, `version`, `lastTs`, `changes`, `statuses` | the management server: its clusters, their label versions, the last status timestamp sent, and bounds |
| `clusterStream`, `statusStream` | the two gRPC streams |
| `clusterPc`, `statusPc` | the two forwarding goroutines of `Run`: receiving, sending `tea.Quit` after a `Recv` error, or returned |
| `messages` | the `Messages` channel, with capacity `MsgBuffer` |
| `rows` | `ClusterListModel.rows` |
| `lateJoin` | `lateJoinHealthStatus` |
| `table` | the rows last passed to `table.SetRows` |
| `received` | the newest status timestamp `Update` has seen per cluster (history) |
| `quit` | the program has quit |

**Actions and definitions**
- `ForwardCluster`, `ForwardStatus`, `ClusterRecvFailed`, `StatusRecvFailed`, `ClusterSendQuit` and `StatusSendQuit` are the two goroutine bodies.
- `Update` takes the head of the channel. Its branches are `OnCreated`, `OnUpdated`, `OnDeleted` and `OnStatus`, and every branch ends by rebuilding `table` with `Render`, as lines 182-205 do.
- `OnStatus` keeps the loop's `continue` over a row whose health is newer, then parks the status in `lateJoin` when no row took it.
- `KeyQuit` is the user pressing q.

**Abstractions**
- Labels and capabilities are abstracted to a version that every Updated event raises.
- A health status is abstracted to its timestamp. `Health.NewerThan` is not under `src/` and is taken to mean a strictly later timestamp.
- Window resizing only changes layout and is left out.

### ProviderDetection

`Detect`, `ContainerRuntime` and `String` of `pkg/providers/detection.go`, written as operators. The loop is a `RECURSIVE` operator.

A provider ID is abstracted to:
- its scheme (`k3s`, `rke2` or a cloud);
- the distribution names that occur in its host part.

The variables hold the input: every node list of up to `MaxNodes` nodes, and whether `List` fails.

### AgentBootstrap

`runMonitoringAgent` and `configureBootstrap` of `pkg/opni/commands/agent.go`, written as operators. `RunMonitoringAgent` yields one of four outcomes:
- `fatal`: config discovery, loading or `configureBootstrap` fails;
- `panic`: the file holds no AgentConfig, so `objects.Visit` leaves the pointer nil and line 135 dereferences it;
- `stopped`: `agentv1.New` fails, which is only logged;
- `serving`.

When the file holds several AgentConfig objects, `VisitAgentConfig` takes the last one. The inputs cover every config file with up to `MaxObjects` AgentConfig objects, each of every shape:
- a missing bootstrap section, an in-cluster address, or a token;
- up to `MaxItems` pins and CA cert paths, each good or bad;
- the four trust-strategy values: three cases and the empty string.

Library calls are reduced to their outcomes. The config types are not under `src/` and are marked `spec_modelled`.

## 3. Runs

All runs are listed in `PROJECT.json`. The evaluator runs use `EvaluateDuration = 2` and `EvaluateInterval = 1`. With these values an alert fires on the third tick of unhealthiness. That leaves room for the pending branch (elapsed ≤ duration while unhealthy) and for messages to arrive between ticks.

### Passing runs

- **evaluator_safety** (3 messages, no crashes or storage faults). It checks three properties:
  - `AlertMatchesIncident`: between ticks, the alert is active exactly when the last incident interval is open.
  - `HealthyClearsFiring`: a healthy stored state leads to `firing = FALSE`.
  - `ImplementsAlertPolicy`: the evaluator refines the abstract `AlertPolicy` (below).
  - The refinement is checked in this run because its liveness part holds only when storage reads do not fail: a failing read lets `TickReadFailed` skip every tick.
- **evaluator_redelivery** (1 message, one crash, failing storage). It checks two properties:
  - `EveryMessageApplied`: each published message is eventually run through `UpdateState`, unless the evaluator is cancelled. A restarted subscription replays the stream from its first message, so a message lost in a crash is handed over again.
  - `ShutdownCompletes`: once the evaluation context is cancelled, by shutdown or by a failed `CalculateInitialState`, both goroutines return unless the process dies first.
- **router_converges** (3 clusters, 6 changes, 2 crashes, symmetry over the clusters). It checks `EvaluatorsFollowClusters`: once the router is idle, the running evaluators are exactly registered × {disconnect, capability}.
- **router_faults** (3 clusters, 5 changes, 2 crashes, failing hooks; no symmetry, because it checks a liveness property). It checks `ConsumerEventuallyProvisioned`: the panic-and-replay path provisions every registered cluster's consumer.
- **ui_reordered**. Bounds: 2 clusters; 3 changes, enough to create, delete and re-create a cluster; 3 statuses with timestamps 1..3 that may arrive out of order; failing streams; a one-slot channel. It checks two properties:
  - `RowsMirrorClusters`: once every cluster event is through `Update`, the table lists each existing cluster once, with its latest labels (`TableMirrorsServer`).
  - `TableConverges`: the table eventually mirrors the server for good, unless the program quits. The forwarding goroutines keep the channel moving, and a failing stream sends `tea.Quit` rather than leaving events undelivered.

### Violation runs

Each violation run checks one property and is recorded as a finding:
- For the evaluator, each property is one that the spec states.
- For the other components, each property is one that the code's own checks or the package comment imply.

| Run | Property | What the code does |
|---|---|---|
| evaluator_flapping | `HealthyResolvesAlert` | The trigger write stamps `Now()`. The next tick then takes the pending branch and clears firing without closing or resolving, so the alert is never resolved (lines 259, 269-271). |
| evaluator_restart_resolve | `ResolveOnlyActive` | Resolve never persists `Firing: false`. After a restart the evaluator closes the interval and calls `resolveHook` a second time (lines 274, 326-328). |
| evaluator_decode_failure | `MalformedMessageIgnored` | The subscriber's write of an undecodable message is not a no-op: `{Healthy: false, Firing: IsFiring(), Timestamp: zero}` is persisted whenever it differs from the stored state (lines 212-223). |
| evaluator_replay | `ReplaysOnlyUnacked` | `ChanSubscribe(streamSubject, msgCh)` names neither a durable consumer nor `Bind`, and the evaluator's `durableConsumer` config is never used. Each start therefore gets an ephemeral consumer with the default DeliverAll policy, and a restart re-applies messages acknowledged before the crash (line 189). The spec says the subscription is against the durable consumer, which redelivers only unacknowledged messages. Old observations then overwrite the newer persisted state, and an old unhealthy one can trigger an alert for an episode that had ended. |
| ui_stale_status | `ShowsNewestStatus` | `lateJoinHealthStatus` keeps the last status to arrive rather than the newest, and so does the `continue` at line 169. A created row then shows a status older than one already received (clusters.go:178). |
| detect_uniform_cluster | `UniformClusterDetected` | `strings.Contains` on the whole provider ID reports an RKE2 node named `k3s-…` as K3s (detection.go:31). |
| agent_nil_trust | `TokenBootstrapHasTrust` | The trust-strategy switch has no default case. An empty strategy yields a token bootstrapper with a nil trust strategy and no error, and `runMonitoringAgent` goes on to serve with it (agent.go:148). |

### Mutants

Every property of a passing run has a mutant, defined just before the definition it replaces:

| Mutant | Plausible bug it stands for |
|---|---|
| `EvaluateCloseSkipped` | the close is dropped |
| `TickResolveKeepsFiring` | the resolve branch does not clear the flag |
| `SubscribeDeliverNew` | the subscription starts at new messages (DeliverNew), dropping those published before the restart |
| `UnhealthyForAtThreshold` | the elapsed-time test written `>=` instead of `>` (breaks `ImplementsAlertPolicy`) |
| `EvaluateExitOnParent` | the evaluate loop selects on the parent context |
| `CasesDeleteOnUpdate` | the teardown case is registered with the wrong predicate |
| `ConsumerHookNoPanic` | the consumer error is logged instead of panicking |
| `OnDeletedKeepsRow` | the slice is rejoined at `i` instead of `i+1` |
| `ClusterRecvFailedNoQuit` | a `Recv` error returns without `tea.Quit` |

TLC finds each one.

## 4. Fairness

- **Weak fairness**
  - on `CalculateInitialState` and on each loop's steps: a runnable goroutine is eventually scheduled;
  - on `Advance`: the ticker keeps ticking;
  - on the router's `HandleEvent`, hooks and `Restart`: the watch is drained and a dead process is restarted;
  - on the UI's forwarding goroutines and on `Update`, which the bubbletea event loop runs for every message it reads.
- **Strong fairness** on `SubscriberExit` and `EvaluateExit`. After cancellation the `Done` case stays ready, but it competes with ready message or tick cases. Go's `select` picks uniformly among ready cases, so a case that is ready infinitely often is taken with probability 1.
- **No fairness** on the environment: `Publish`, `Crash`, `CancelParent`, the management plane, the UI's server, stream failures and the user's key presses are its choices.

## 5. Bounds

Small bounds are enough here for the following reasons:
- **Messages.**
  - Three messages reach every branch of a tick: unhealthy, then unhealthy past the threshold, then healthy.
  - One message is enough to lose or redeliver a message across a crash.
- **Crashes.** One crash reaches the crash-between-steps cases.
- **Clusters.** The router runs use three clusters, so a restart replays Created events in several orders and the events of one cluster interleave with the hooks of two others. The UI uses two, enough for the events and statuses of different clusters to interleave.
- **Changes.** Three to six changes allow a create, a delete and a re-create, of one cluster or of several.
- **Statuses.** Three statuses with three timestamps allow a newer one followed by an older one, both before and after a row exists.
- **Operator models.** These enumerate every input up to two nodes, two pins and two CA certs.

Each passing run finishes in under three minutes. The largest are ui_reordered, at 1.5 million distinct states, and evaluator_safety, at 1.1 million (about two minutes, most of it the refinement's liveness check).

## 6. Not modelled, and why

- **AckWait redelivery without a crash.** Not modelled. Handler time is not measured.
- **AlertMatchesIncident under storage faults.** Not checked. The code only logs failed interval writes, and spec section 7 accepts this.
- **Startup read failure (impl.go:323).** `StartupKeepsState` states that a restart never replaces a persisted state. With `StorageFaults = TRUE` and one crash, TLC finds it violated: a failed States Get other than key-not-found leaves the default state, and `UpdateState` writes it over the stored one. It is not one of the runs; the restart path is checked through `ReplaysOnlyUnacked`, which every restart meets without any fault.
- **Run returns after one stream fails (clusters.go:241).** Not checked. The errgroup's context is discarded, so the other goroutine stays in `Recv` and `Run` waits until both streams fail.
- **Swapped `errors.Is` arguments (impl.go:308).** Not modelled. Whether the storage client wraps its errors is outside `src/`.
- **Stale health write (impl.go:256).** Listed as a hazard with no run. The trigger path writes the health it read at the start of the tick with the newest timestamp, over a healthy message the subscriber persisted meanwhile. Spec section 5 tolerates stale writes, but relies on the timestamp to tell them apart.
- **`DefaultManagementSocket` (management/v1/util.go).** A stateless three-way choice, not modelled. With `$XDG_RUNTIME_DIR` set but empty, `filepath.Join` yields a relative path, and the address `unix://opni-monitoring/management.sock` has an authority that gRPC rejects.
- **`BuildAgentCmd`, `runLoggingControllers`, `runEventsCollector`.** Flag parsing and library wiring, not modelled.
- **The nil-config panic and the silent stop of `runMonitoringAgent`.** These are modelled as the outcomes `panic` and `stopped`, but no run asserts against them. The panic at agent.go:135 replaces the Fatal message that every other config error gets.
- **No state of their own.** The ISM client and the kube client helpers are I/O, the protobuf code is generated, and the test suites test code outside `src/`.

- **Re-created cluster and the old cluster's state.** Not listed as a hazard. Whether a cluster re-created under the same ID reads back the persisted CachedState and incident intervals of the old one depends on the condition-id scheme and the teardown hooks. Neither is under `src/`, so it cannot be decided from the code.
- **Durable consumers left behind (impl.go:75).** Deleted tears down the evaluators but never deletes the durable consumer that Created provisioned. The router model tracks evaluators only; a property over leaked consumers would be a further violation run.
- **Remaining code bugs without a run (clusters.go:178 beyond `ShowsNewestStatus`, clusters.go:241, clusters.go:259, impl.go:256, impl.go:264).** Each of these is listed as a hazard. Each would need its own violation run, and each is a single-path disagreement that the model reaches in a few steps. They are described in `PROJECT.json` rather than checked, so that the runs stay one per question already asked.

## 7. Further work

1. **Composition.** Compose the router with the evaluators. The subscription does not use the provisioned durable consumer (see evaluator_replay), so the ordering between the consumer hook and the evaluator hooks does not matter. What remains to check is the Deleted teardown racing a running evaluator, and a re-created cluster replaying the old cluster's messages.
2. **Leaked durable consumers (impl.go:75).** Add consumers to the router model and a property over the ones deleted clusters leave behind.
3. **Detection reference check.** Check `Detect` against a reference definition.
