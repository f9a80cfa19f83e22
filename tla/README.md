# Formal models of eno's control loops

This directory holds TLA+ models of eno's synthesis dispatch loop, its
resource reconciliation loop and its watchdog, plus an abstract
specification of the synthesis slots that the dispatch loop refines. It also holds the TLC configurations that model-check
them and TLAPS proofs of their main safety properties.

## The system

eno turns Compositions into downstream Kubernetes resources in two stages.

1. **Synthesis.** A Composition gets a pending `CurrentSynthesis` slot, one
   with an empty UUID. The synthesis concurrency limiter
   (`src/internal/controllers/flowcontrol/synthesis.go`) dispatches pending
   slots by writing a fresh UUID, and it keeps at most `limit` syntheses
   active. A synthesizer pod then runs. It either succeeds (`Synthesized` is
   set) or fails and is retried up to `MaxRestarts`, after which the slot is
   `Failed`.
2. **Reconciliation.** The resource reconciler (`Controller` in
   `src/internal/controllers/reconciliation/ordering_test.go`, from line
   144) drives each resource of the synthesis to its desired state
   downstream. It enforces readiness-group ordering and writes a per-resource
   `ResourceState` into the ResourceSlice status. That write goes through the
   asynchronous status write buffer.

3. **Watchdog.** The watchdog (`src/internal/controllers/watchdog/controller.go`)
   lists every Composition and sets six gauges. The gauges count the
   compositions that have been waiting longer than a threshold: on inputs,
   on lockstep, on a first reconciliation, on reconciliation, on readiness,
   and those in a terminal error. It changes no system state. Its job is to
   expose deadlocks of the other loops.

All three loops read their inputs from informer caches that lag behind the API
server. Both write to the API server directly. Almost every disagreement
found below comes from that asymmetry.

## Inventory

| Part | Source | Module | Status |
|---|---|---|---|
| Synthesis concurrency limiter | `flowcontrol/synthesis.go` | `SynthesisFlow` | modelled |
| Composition writers (composition/rollout controllers, pod lifecycle) | not under src/ (spec.md 4.D-4.G) | `SynthesisFlow`, `Watchdog`, `SynthesisSlots` | partly, from the spec |
| Resource reconciler | `reconciliation/ordering_test.go` 144-574 | `ResourceReconciler` | partly |
| Status write buffer | not under src/ (spec.md 4.B) | `ResourceReconciler` | partly, from the spec |
| Reconstitution cache and slice informer | not under src/ (spec.md 4.A) | `ResourceReconciler` | partly, from the spec |
| Watchdog | `watchdog/controller.go` | `Watchdog` | modelled |
| Schema discovery cache, status controller, Symphony, CLI, telemetry | not under src/, or docs | none | not modelled |

`PROJECT.json` lists each part with a note on what is left out.

## Modules

### `SynthesisFlow`: dispatch loop

State:

* `cur` and `prev` are the two synthesis slots on the server.
* `gen` is the Composition generation.
* `events` is the Composition watch stream not yet applied to the cache.
* `cache` is the limiter's view of the slots.
* `queued` says whether the limiter's single work item is queued
  (`SingleEventHandler`).
* `nextUUID` is a fresh-UUID source.

A slot is a record with these fields: `uuid`, where 0 stands for the empty
string; `gen`; `synthesized`; `attempts`; `failed`.

Actions:

* `LimitReached`, `NothingPending` and `Dispatch(c)` are the three exits of
  `Reconcile` (lines 37-94). They are computed from the cache, as `List` at
  line 41 computes them.
* In `Dispatch`, the JSON patch applies only when its `test` op holds on the
  server (`PatchTestHolds`). Either way the item is requeued: after cooldown
  on success, with backoff on a conflict.
* `CacheSync` applies the next watch event and enqueues the work item.
* `UpdateComposition`, `RequestSynthesis` (new pending slot plus slot swap),
  `PodSucceeded` and `PodFailed` are the writers not under src/. They are
  modelled from spec.md.

Every write except the generation bump is published on the watch stream.
`MaxLag` bounds the stream by a guard on the writers, so it is not a
state constraint and liveness stays sound.

### `SynthesisSlots`: what the slots promise

This is an abstract specification. It has the same slot variables as
`SynthesisFlow` (`cur`, `prev`, `gen`, `nextUUID`) and no cache, no stream
and no queue. A pending slot is dispatched with a fresh uuid (`Dispatch`).
A generation bump is `Update`. A new pending slot, with a synthesized
current slot moving to `prev`, is `Author`. A running slot ends in
`Succeed` or `Fail`. `SynthesisFlow` instantiates it under the identity
mapping (`Slots == INSTANCE SynthesisSlots`), and `SlotsRefinement ==
Slots!Spec` is checked as a property. Every limiter step that changes the
server's slots must therefore be an abstract step. In particular, a
dispatch must hit a slot that is pending on the server, even though the
patch's `test` op (synthesis.go line 80) checks only the uuid. The module
states the promise, so it has no entries in `PROJECT.json`'s map.

### `Watchdog`: the gauges

State:

* `comp` is each Composition on the server, reduced to its creation time
  and the timestamps of its two slots: `initialized`, `synthesized`,
  `failed`, `reconciled`, `ready`.
* `syn` is the outcome of the Synthesizer `Get` for each composition:
  `found`, `inputsExist`, `outOfLockstep`.
* `events` and `cache` are the Composition watch stream and the informer
  cache.
* `queued` is the single work item (`SingleEventHandler`).
* `gauge` holds each gauge as the set of compositions it counts, so the
  model can say which compositions a wrong count is wrong about.
* `now` is the clock.
* `nsyn` and `nedits` bound the writers.

Every predicate of controller.go lines 75-138 is a definition of the same
name. `time.Since(t) > threshold` is `Past(t)`. `Reconcile` (lines 31-73)
sets all six gauges from `Counted(cache)` in one step, because nothing else
runs in between that the watchdog could see. A failed `List` returns an
error and changes nothing, so it is a stutter. `CacheSync` applies watch
events in order. `Resync` is the informer's periodic resync, which
enqueues the item again. The writers are modelled from spec.md: creation,
a new synthesis with the slot swap, dispatch (`Initialize`), the pod
outcome, `Reconciled` and `Ready` from the status controller, and
Synthesizer edits. Synthesizer edits publish no event, because the
watchdog does not watch Synthesizers. `Tick` advances the clock.

### `ResourceReconciler`: reconciliation loop of one synthesis

State:

* `down` is the downstream object of each resource, reduced to a
  resourceVersion and a "matches desired" flag.
* `healthy` says whether the readiness checks pass on the object.
* `lastSeen` is the reconstitution cache's observed resourceVersion.
* `status` and `scache` are the ResourceState on the server and in the
  slice cache.
* `events` is the slice watch stream.
* `buffer` holds the pending `StatusPatchFn` of each resource.
* `queued` is the workqueue.
* `now` is the clock.
* `edits` counts external changes.
* `readySeen` is a history variable: the resources whose server status has
  ever had a Ready.

Actions are one per exit of `Reconcile`:

* `ReconcileBlocked`: the gate, lines 324-339.
* `ReconcileModified`: lines 341-356.
* `ReconcileFailed`: reconcileResource returns an error after
  `ObserveVersion("")`.
* `ReconcileSettled`: lines 357-372.

They are built from these operators:

* `GetCurrent`: lines 500-527, with the metadata-read hot path.
* `EvalReady`: lines 304-322.
* `GateBlocks`.
* `ReconcileResource`: lines 375-450.
* `PatchNonEmpty`: buildPatch and mungePatch, reduced to whether the object
  differs from the desired state.

`FlushStatus` applies `patchResourceState` (lines 552-563) through the
buffer. `SliceSync` feeds the cache and enqueues every resource. `Tick`,
`ExternalEdit`, `ExternalDelete` and `ToggleHealth` are the environment. A
health change is a write of the object, so it bumps its resourceVersion.

### `ReconcilerPromise`: what the reconciler promises

This abstract specification keeps only `down`, `status`, `edits` and
`readySeen`. It has no cache, no stream, no buffer and no queue. Its
actions are:

* `Write(r)`: a resource not marked Deleted gets an object. Every lower
  readiness group must already be in `readySeen` (`GatePassed`).
* `Remove(r)`: a resource marked Deleted loses its object.
* `RecordStatus(r)`: a Reconciled state reaches the server. For a resource
  not marked Deleted, this also waits for `GatePassed`.
* `External(r)`: someone else changes or deletes an object, at most
  `MaxEdits` times.

`ResourceReconciler` instantiates it under the identity mapping
(`Promise == INSTANCE ReconcilerPromise`), and `PromiseRefinement ==
Promise!Spec` is checked as a property. The status half matters because
of line 325: a resource whose cached status is Reconciled skips the gate.
So a status written before the gate would let a later write through.
Because the model starts from a fresh synthesis with no downstream
objects, `Remove` is never taken on TLC's instances. The proof covers it.
The module states the promise, so it has no entries in the map.

## Runs

| Run | cfg | Result | Shows |
|---|---|---|---|
| limiter_safety | MCSynthesisFlow.cfg | pass, 666k states | `TypeOK`, `SlotsRefinement`: the loop implements `SynthesisSlots`, so every dispatch that reaches the server hits a slot that is really pending there, although the limiter picks from a stale cache and its patch tests only the uuid |
| limiter_progress | MCDispatchProgress.cfg | pass | `DispatchProgress`: a pending composition is dispatched unless failed syntheses hold every slot |
| limiter_concurrency | MCConcurrencyLimit.cfg | violation | `ConcurrencyLimit` (spec 8.1) fails: the stale cache lets a second synthesis start |
| limiter_failed_stall | MCFailedHoldsSlot.cfg | violation | `PendingEventuallyDispatched` (spec 4.D) fails: Failed syntheses count as active forever |
| reconciler_safety | MCResourceReconciler.cfg | pass, 307k states | `TypeOK`, `ReadinessOrderOnce`, `PromiseRefinement`: a resource is written only after every lower-group resource has had a Ready on the server, and the loop implements `ReconcilerPromise` |
| reconciler_converges | MCReconcilerConverges.cfg | pass | `Converges`: without checks and external deletion, every managed resource is created and stays present |
| reconciler_ready_stable | MCReadyStable.cfg | violation | `ReadyStable` (spec 8.6) fails: a Ready not yet cached is overwritten |
| reconciler_deleted_flag | MCStatusDeleted.cfg | violation | `StatusDeletedMeansAbsent` fails: the hot path writes Deleted = true |
| reconciler_external_delete | MCExternalDelete.cfg | violation | `Converges` fails: an externally deleted resource is never recreated |
| watchdog_idle_gauge | MCWatchdog.cfg | pass, 162k states | `IdleTerminalExact`: with the stream drained and nothing queued, the terminal-error gauge is the server's set, because every Composition event enqueues the watchdog |
| watchdog_no_resync | MCWatchdogNoResync.cfg | violation | `GaugesConverge` fails without the informer resync: nothing enqueues the watchdog when a threshold is crossed or a Synthesizer changes |
| watchdog_lockstep_alarm | MCLockstepAlarm.cfg | violation | `LockstepNeedsSynthesizer` fails: a failed Synthesizer `Get` counts the composition as out of lockstep, against the comment at line 94 |

`PROJECT.json` "findings" describes each violation at its source line.

Two further consequences were seen while modelling but are not runs of
their own:

* **Stuck on the hot path.** A resource with readiness checks whose Ready
  was erased stays on the hot path. There its checks run on a nil current,
  so it is never ready again until its resourceVersion changes, and the
  higher groups are never created. `Converges` with `CheckedRes = {a}`
  fails this way.
* **Strict ordering fails.** The strict server-side form of ordering
  (`ReadinessOrder`, spec 8.4) fails through the same erasure: the gate
  reads a cached Ready that the server no longer has. It is recorded with
  the `reconciler_ready_stable` finding. What the code does guarantee is
  the "has been ready" form that `reconciler_safety` checks.

### Bounds

* **Limiter.**
  * Three compositions with limit 1 and symmetry make two dispatches
    compete for one slot, and let a third event trigger a reconcile.
  * `MaxLag = 2` is enough for the cache to miss the limiter's own last
    write.
  * `MaxGen = 2` allows one slot swap.
  * `MaxRestarts = 1` gives both a retried and a failed pod.
  * The liveness runs use two compositions, which is enough for contention.
* **Reconciler.**
  * Three resources in groups 0, 1, 1: two resources wait on one lower
    resource.
  * `a` has readiness checks. `b` can be deleted by someone else and has
    DisableUpdates. `c` is given as a patch, so it is never created but
    still writes a status, and that status must wait for the gate.
  * `MaxRV = 3` allows a create followed by two changes.
  * `MaxTime = 2` allows two distinct Ready times, so an overwrite is
    visible.
  * `MaxLag = 2` is enough for the cache to miss a write.
  * `MaxEdits = 1` allows one external change per behaviour.
  * The liveness runs use `MaxLag = MaxTime = 1`.
* **Watchdog.**
  * One composition. The gauges are sets, and each composition's
    membership depends only on its own Composition, its own Synthesizer
    and the shared clock. A second composition can only add Composition
    events that enqueue the watchdog, and `Resync` already enqueues it at
    any time. Two compositions did not finish within 20 minutes.
  * `Threshold = 1` and `MaxTime = 3` let every timestamp be either within
    or past the threshold, and let a threshold be crossed with no event.
  * `MaxSyntheses = 2` gives a slot swap, so the `prev` conjuncts matter.
  * `MaxSynEdits = 1` allows one Synthesizer change, which is enough to
    reach a lost or out-of-lockstep Synthesizer.
  * `MaxLag = 2` lets the cache miss two writes.

### Fairness

* **Watchdog.**
  * The informer (`CacheSync`) and the worker (`Reconcile`) are weakly fair.
  * `Resync` is weakly fair. controller-runtime's informers resync every
    `SyncPeriod`, which defaults to about ten hours, and each resync
    enqueues the item. This is configuration outside src/, and
    `watchdog_no_resync` shows that convergence depends on it.
  * The writers and the clock have no fairness. `GaugesConverge` (checked
    only in `watchdog_no_resync`, where it fails) is about what the
    watchdog reports once they stop, and `<>[]` lets them stop at any
    point. With `Resync` weakly fair, `GaugesConverge` would hold whatever
    the code enqueues, so no passing run checks it.

* **Limiter.**
  * The informer (`CacheSync`) and the limiter's worker (`LimiterReconcile`)
    are weakly fair: controller-runtime keeps both running.
  * `Dispatch(c)` is strongly fair. Line 71 picks uniformly at random among
    the pending compositions, so one that is offered infinitely often is
    chosen with probability 1.
  * Each pod attempt ends: the synthesis Timeout gives weak fairness of
    success or failure.
* **Reconciler.**
  * The workers, the write buffer and the informer are weakly fair.
  * Fairness is on `ReconcileOK`, a Reconcile that does not fail. API errors
    are transient and the workqueue retries with backoff, so a failed
    reconcile is allowed, just not forever.

## Proofs (`SynthesisFlowProofs`)

Checked by `tlapm`, for every value of the constants that satisfies the
module's assumptions (`Limit`, `MaxGen`, `MaxLag` positive naturals;
`MaxRestarts` a natural; `Nil` not a synthesis):

* `TypeCorrect: Spec => []TypeOK`. `TypeOK` is inductive here. `TypeInit`
  proves the initial states. `TypeStep` proves each action, one step per
  action. The lemmas `SlotIsSynthesis` and `SynthesisUpdate` carry the
  record reasoning, and `PublishType` the watch stream.
* `Refinement: Spec => SlotsRefinement`. `SynthesisFlow` implements
  `SynthesisSlots`. The initial states coincide. `RefinementStep` maps each
  action to an abstract one:
  * `Dispatch` under `PatchTestHolds` maps to `Slots!Dispatch`.
  * `UpdateComposition` maps to `Update`, `RequestSynthesis` to `Author`,
    `PodSucceeded` to `Succeed` and `PodFailed` to `Fail`.
  * Every other step leaves the slots unchanged, which is a stutter.

  The test op only checks `uuid = 0`, while abstract `Pending` also needs
  `~synthesized`. So the step rests on `PendingFresh`: a slot with an empty
  uuid is not synthesized. That holds because slots are authored unsynthesized
  and only a running slot (uuid set) can succeed. `Spec => [](TypeOK /\
  PendingFresh)` is proved by `RInvInit` and `RInvStep`.

## Proofs (`WatchdogProofs`)

Checked for every value of the constants that satisfies `WatchdogBounds`
(all bounds naturals, `MaxLag` positive) and `NilAssumption`:

* `TypeCorrect: Spec => []TypeOK`. The lemmas `WriteType` and
  `WriterType` carry the writes that all writers share. `SlotType` builds
  slots.
* `IdleTerminalExactHolds: Spec => []IdleTerminalExact`. When the stream
  is drained and nothing is queued, the terminal-error gauge is exactly
  the set of compositions in terminal error on the server. The proof
  rests on two auxiliary invariants.

  The first is `CacheLags`: the cache is the server state delayed by the
  watch stream. `TypeOK /\ CacheLags` is inductive:
  * `LagsWrite`: a write appends the composition's new state as its last
    pending event.
  * `LagsSync`: applying the head event either empties the composition's
    part of the stream, in which case the head was its last event and
    carried the server state, or leaves a later event of it pending.

  `CacheLags` is a fact about the model's own stream, so it is not a
  property of any run. It is a step of this proof only.

  The second is `QueueCovers`: while nothing is queued, the gauge equals
  the set computed from the cache (`TerminalOf(cache)`). The argument is:
  * `Reconcile` recomputes the gauge from the cache.
  * `CacheSync` changes the cache but enqueues the watchdog.
  * Writers and `Resync` leave the cache alone.

  With an empty stream, `CacheLags` makes the cache equal to the server
  state. A `CacheSync` that did not enqueue (the mutant
  `CacheSyncNoEnqueue`) breaks the property.

## Proofs (`ResourceReconcilerProofs`)

Checked by `tlapm` for every value of the constants that satisfies the
assumptions of `ResourceReconciler`:

* `TypeCorrect: Spec => []TypeOK`. `TypeOK` is inductive here too. Lemmas
  type what the operators return (`GetCurrentType`,
  `ReconcileResourceType`, `EvalReadyType`, `ObservedVersionType`,
  `PatchResourceStateType`).
* `ReadinessOrderOnceHolds: Spec => ReadinessOrderOnce`. The gate reads the
  lagging slice cache, so the property is not inductive on its own. It
  rests on `IInvHolds: Spec => []IInv`, where `IInv` is `TypeOK` and two
  more conjuncts:
  * `ReadyRecorded`: a Ready in the cache or in a not yet applied watch
    event belongs to a resource in `readySeen`.
  * `ReconciledAfterGate`: for a resource not marked Deleted, three things
    exist only once the resource has passed the gate, that is, once its
    lower groups are all in `readySeen`. These are a Reconciled state in
    the cache, a pending buffered write, and an event on the stream.

  The second conjunct is needed because the gate is skipped for a resource
  whose cached state is already Reconciled (line 325). The proof runs in
  three parts:
  * `GateOpen`: the gate letting a resource through implies its lower
    groups are in `readySeen`.
  * Per action: `SettledKeepsIInv`, `FlushKeepsIInv`, `SyncKeepsIInv` and
    `FrameKeepsIInv` keep the invariant.
  * `OrderStep`: only `ReconcileModified` writes an object without being an
    external change. Through `DeletedOnlyDeletes`, a resource marked
    Deleted is never written at all.

  `IInv` was model-checked before it was proved: under
  `MCResourceReconciler.cfg`, and with `DeletedRes` and `PatchRes`
  non-empty.

* `PromiseHolds: Spec => PromiseRefinement`. The initial states coincide
  (`PromiseInit`). `PromiseStep` maps every step, from a state satisfying
  `IInv`:
  * `ModifiedStep`: `ReconcileModified` is `Write` or `Remove`.
    `DeletedOnlyDeletes` and `GateOpen` decide which.
  * `FlushStep`: a flush that writes is `RecordStatus`. The gate comes
    from `ReconciledAfterGate`, which covers the pending buffered write.
    A flush that writes nothing is a stutter.
  * `ExternalStep`: the three environment actions are `External`.
  * Every other step leaves the abstract variables alone.

  The proof needs `NilNotObject`, the assumption that `Nil` is no object
  record whatever its resourceVersion. Without it, nothing rules out `Nil`
  being an object whose resourceVersion is past `MaxRV`.
  The refinement was model-checked (`reconciler_safety`) before it was
  proved.

Only model-checked:

* All liveness properties, since TLAPS does not reason about fairness.
* The violated properties, whose counterexamples are the findings.

## Not modelled, and the plan

Planned modules and extensions, in order:

1. `ReconcileInterval` requeues in `ResourceReconciler`.
2. The status controller, composed with `Watchdog`'s `Reconciled` and
   `Ready` writers.
3. The previous-synthesis side of the three-way merge.
4. Composing `Watchdog` with `SynthesisFlow`, so that the watchdog watches
   the limiter's failed-slot stall (`limiter_failed_stall`).

The CRD gate (ordering_test.go lines 276-296) is left out. It defers a
custom resource while its CRD became ready less than a second ago. A
property about it would restate the guard. Whether a second is enough
depends on the API server's type registration, which the code does not
control.

Left out because there is nothing to check:

* The content of manifests and patches. It is abstracted to "matches
  desired".
* The OpenAPI discovery cache. It only picks the patch flavour.
* Logging, metrics and the CLI.
