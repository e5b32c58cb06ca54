# Taskvisor in TLA+

Taskvisor supervises asynchronous tasks in one process: it admits them under
unique names, restarts them by policy, removes them with a grace period and a
force-abort, and shuts everything down in order. With the `controller` feature
it also serialises submissions that share a slot. All of it is concurrent: the
registry listener, one removal owner per task being removed, the reaper of
aborted attempts, the actors, the event relay, the shutdown owner and the
controller loop run as separate tokio tasks over shared state, subscriber
callbacks and destructors run on threads of their own, and user code inside a
task, a callback or a destructor may panic, hang or refuse to stop.

This directory holds the models of that machinery, their TLC configurations
and the TLAPS proofs. Definitions carry the names of the code where TLA+ allows
it; `PROJECT.json` maps each to its lines.

    tlc -workers 2 -config RegistryPair.cfg MCRegistry     # any run
    tlapm RegistryProofs.tla                               # any ...Proofs module

## Inventory

| Part | State | Operations | Talks to |
|---|---|---|---|
| Registry membership (`core/registry/{state,protocol,completion}.rs`, `admission/`) | `tasks`, `by_name`, entry state, start gates | add, add batch, look up | listener, removal owners, reaper |
| Registry listener (`listener.rs`) | command queue, completion channel, control channel | handle command, completion, fence; break, drain, sweep, end | callers, actors, shutdown |
| Removal owners (`removal/`) | claim, join, grace timer, latches, report | remove, cancel, natural completion, sweep; commit, report, finish | actors, reaper, waiting callers |
| Scheduler and reaper (`scheduler/`) | actor handle, result, abort; reserved names, active count, records | abort, register, reap, attach terminal | removal owners, admission |
| Queries (`query.rs`) | none | `is_alive`, `wait_until_empty`, list | registry, reaper |
| Management (`core/runtime/management/`) | admission gate, queue permits | commit a command, wait for its reply | callers, listener, controller |
| Actor and runner (`core/actor.rs`, `core/runner.rs`) | attempt counters, permit, activity flag, user future | wait, run, classify, back off, exit; drop under abort | semaphore, registry |
| Shutdown (`core/runtime/shutdown_workflow/`) | one shared operation, gate, two tokens, verdict | begin, fence, sweep, verdict, cleanup tail; abandon | everything |
| Controller (`controller/engine/`) | slots, queues, two indexes, watchers, capacity pump, tracked operations | submit, remove, cancel; results; drain and finalize | registry, callers |
| Runtime lifecycle (`core/runtime/lifecycle/`, `core/owner.rs`, `supervisor.rs`, `handle.rs`) | started workers, the run claim, public owners, signal | run, serve, add, stop, drop | shutdown, registry |
| Deferred cleanup (`core/deferred_drop/`) | ownership capacity, worker queue | reserve, own, submit, destroy | every place that drops user values |
| Bus and subscribers (`events/bus.rs`, `core/runtime/event_relay.rs`, `subscribers/subscriber_set.rs`) | event ring, one lane per subscriber, ready queue, callback threads | publish, relay, offer, call, summarise losses, close, drop | everything publishes; shutdown closes |
| Policies (`policies/`) | none; values | construct, adjust, draw a delay | the actor |
| Task, error and event data, caller operations | none of their own | | |

What makes it hard: an admission decision is taken under a read lock and
applied under a write lock; a force-aborted task leaves the registry while its
code still runs, so names and places are held in two data structures without a
common lock; the two halves of an aborted attempt arrive in either order; four
parties race to claim one entry; a grace timer races an exit; completions are
lost when the listener closes; the fence has to order shutdown after every
committed command; a permit can be granted to a waiter that is being cancelled;
a replacement arrives while an admission is undecided; the registry's gate
closes before the controller hears of shutdown; a callback thread looks at its
lane, lets go of the lock and looks again before it rests, while the relay
fills the lane and close ends it; triggers, handle drops and a dying runtime
race for the one shutdown whose answer they all share. `PROJECT.json` lists
these hazards line by line, with the properties aimed at each.

What makes each part correct: a name and a place belong to one task until its
code is gone (registry); a removal's latches and report tell the truth (removal
owners); a verdict says what happened to every task (shutdown drain); permits
and retry budgets are exact (actor); one task per slot, nothing lost (controller);
every value destroyed, every unit back (cleanup); every event delivered once, in
order, or counted as lost (bus and lanes); one shutdown, one earned answer for
everybody (lifecycle).

## Modules

| Module | Models | Remarks |
|---|---|---|
| `Registry` | registry, listener, removal owners, reaper, management gate, shutdown drain | one action per step that ends at a lock, an await or a send |
| `RegistryInv` | | the two inductive invariants, as named conjuncts |
| `RegistryProofs` | | the theorems, the lease refinement included |
| `NameLease`, `RegistryLease` | what admission promises: a name is leased to one task until its code is gone, within the limit | the registry is shown to implement it |
| `RegistryQuery` | `is_alive`, which reads registry and reaper in two steps | extends `Registry` |
| `RegistryWaiter` | `wait_until_empty` with tokio's `Notify` | extends `Registry` |
| `TaskActor`, `TaskActorProofs` | restart loop, attempt, timeout, panics, permits, abort | several actors share the semaphore |
| `ActorLife`, `TaskActorLife` | the life of an actor as `Registry` assumes it | `TaskActor` is shown to implement it |
| `ListenerLoop`, `ListenerLoopProofs` | the burst bound of the listener's `select!` loop | the controller's loop has the same shape |
| `Controller`, `ControllerProofs` | the slot controller | the registry appears by its decisions about a task, any that `Registry` could take |
| `DeferredDrop`, `DeferredDropProofs` | ownership capacity, bundles, the cleanup worker pool | clients bring one user lifetime after the other |
| `EventBus`, `SubscriberLane` | the event ring and one subscriber's lane, as operators on what their mutexes protect | the ring's bell is tokio's `Notify` |
| `EventDelivery`, `EventDeliveryProofs` | publishers, relay, lanes, callback threads, close | composes ring and lanes |
| `Shutdown`, `ShutdownProofs` | startup, static runs, handles, and the shutdown operation they share | the workers appear by their ends |
| `Backoff` | retry delays and jitter | operators only; its theorems are in `TaskActorProofs` |
| `QueueLemmas` | | facts about queues that list a set once each, for the proofs of the controller, of cleanup and of event delivery |
| `MC...` | instances for TLC | |

Operators called "Mutant" in a comment are faulty variants of the definition
they precede. No specification uses them; replacing a definition by its mutant
makes the named property fail, which shows that the property bites.

### Registry

`cmdq` is the bounded command channel, `gate` the admission gate; `SubmitAdd` and
`SubmitStop` commit a command under the gate, as `try_reserve_command_admission`
does. `lpc`, `mode` and `batch` are the listener's position. An add takes its
first decision in `LTakeAdd` (read lock), repeats it in `LInsert` (write lock),
spawns its actors in `LSpawn` and opens their start gates in
`LOpen`. `entry`, `byName` are the two indexes; `own` is the progress of a
removal owner: queued in a sweep, joining, aborting, reporting, handing the
terminal over, and then the three steps with which `TerminalFinalizer::drop`
ends: out of the pending count (`DecPending`), the logical latch completed
(`CompleteLogical`), the empty notification given (`NotifyEmpty`).
`rec`, `reserved`, `active` are the reaper. The actor itself is what `ActorLife`
says: gated, between attempts, in an attempt, its result sent, its completion
sent, gone.

Where the model is coarser than the code, and why nothing is lost:

* The check of `by_name`, the reserved names and the active count are three
  reads and one step. Membership cannot change meanwhile (state lock); the
  reaper can, but only so that the three reads equal an atomic read at the
  first or the last of them. The batch's preliminary count may be stale; it is
  repeated under the write lock, and that repetition is modelled.
* A cancel token is cancelled in the step that claims the entry; the code does
  so right after, and only the start of an attempt can fall in between, which
  the token check at the top of the loop makes equivalent.
* The completion channel is a set: its order matters only to the burst bound,
  which `ListenerLoop` models.
* The listener may take commands after the runtime token is set until it
  notices; the code allows at most the one it has already picked.
* `LSpawn` spawns a whole batch: its actors wait at their start gates until the
  last of them is there.
* The two completions a finalizer may hold, the entry's and the report's, are
  clones with one pair of latches, so `CompleteLogical` completes it once.
* Outcomes are kept as rejected, exit or aborted.
* Not modelled: branches the code marks as defensive (a duplicate reaper
  record, a signal that precedes its registration, a commit whose continuation
  was cancelled, the panic guard around listener handlers, the coordinator's
  fallback after close), and poisoning after a panic in the crate's own code.

### TaskActor

`pc` follows `TaskActor::run`: top, waiting for a permit, running, disposing of
the future, classifying, releasing, sleeping, exited; `unwinding`, `guards` and
`dropped` are the drop order of an aborted task. The semaphore is tokio's fair
one (external): a released permit goes to the oldest waiter, a dropped acquire
returns what it was granted. Counters are u32 and saturate at `U32Max`, which the
instance sets low enough to reach. A back-off delay ends at any time.

### Controller

The handlers are serialised by the loop, so each is one action: `HandleSubmission`
(with one operator per placement), `HandleIdentity`, `CapacityResult`,
`AdmissionResult`, `CompletionResult`, `RemovalResult`. `slots` holds phase and
owner ("absent" is a name not in the map), `queue` the queues, `indexed` the keys
of `queued_slots`, `capacity` those of `capacity_pending`, `pump` the active
reservation followed by its queue (`PumpEnqueue`, `PumpCancel` and `PumpNext` are
the pump's methods); `admissions`, `completions`, `removals` and the
callers in `Tracked` are the tracked operations. `fate` says who holds a
submission's outcome sender (command, controller, registry) or how it was
rejected; an unwatched submission is the same ownership without a receiver.
`reg` is the task as the registry sees it, including "released", the state of a
force-aborted attempt that outlives its registration.

A handler reads the shutdown token more than once. The registry gate closes
before the token is cancelled (`begin_shutdown`), and these are two actions; a
token set between two reads of one handler gives the result of the handler that
read it set from the start, so one read per action is enough. After the token is
set the model lets the loop take any number of further branches; the code takes
at most the one `select!` had picked. The reads of the supervisor's weak
reference, handler panics and stale results are left out; `SlotsMoveOn` shows
that a result always finds the owner it is about.

### DeferredDrop

`broker` is the state behind the capacity broker's mutex, `pool` the state behind
the worker queue's; `own` says where a client's lifetime, and its unit, is:
waiting for a unit, granted and not yet looked at, held in a bundle, queued,
running on a worker, out again. A waiter whose future is dropped (shutdown or
the ownership timeout) is `CancelRequest`. `wpc` is what each cleanup thread
really does, kept apart from the counters the code keeps about it; `notify_one`
picks any sleeping thread, including an elastic worker in its expansion delay;
a thread may always fail to start. `ExecutorHeld` is the reference count of the
executor, whose drop closes the broker and the queue.

Left out: the unlimited mode, in which the broker does no accounting; the
retirement and panic reporters; a failed start, which leaves nothing behind;
snapshots; panics in the worker's own code, which the guards around it turn
into an exit and a replacement. A refused request changes nothing and is no
action; the bounded waiter queue does fill up.

`ValuesDestroyed` assumes fewer hanging destructors than core workers, as the
comment on `CORE_WORKER_COUNT` does. Beyond that it does not hold, even when
threads could be started: a core worker that takes a batch while an elastic
worker is alive does not ask for another one (`take`, the comparison of live and
starting workers with the core set), so with every thread hanging a batch can
stay queued below the worker ceiling until the next submission. The
documentation promises no more.

### EventBus, SubscriberLane, EventDelivery

`ring` is the bounded ring behind the bus's mutex, `bell` the `Notify` on which
the relay waits; only the publication that finds the ring empty rings it, and it
does so after it has released the lock, as a second step (`Notify`,
`WorkerNotifies`). `relay` follows the relay's loop: look at the token, register
with the bell, take an event, offer it to every lane, report closed lanes; after
cancellation it drains a bounded number of events and closes the ring. `lane` has
one record per subscriber, `ready` is the queue of the shared worker, and `worker`
is each callback thread: choosing, calling, notifying, resting, finishing. The
look that finds a lane empty (`Pick`) and the second look before it rests
(`StopCalling`) are two actions, because the code takes the lock twice. `close`
begins, then drains or meets its deadline; `DropSet` is the drop of a set that
was never closed.

An action is one critical section. The loops over all lanes in `emit_arc`, `close`
and `Drop` are one action each: a thread works on one lane at a time, and
sections of different lanes commute. An event is what the code tells apart: an
ordinary one with its number, a loss report with its count, a panic report.
`unreported`, `owed` and `last` are histories that only the properties read.

Left out: the guards against panics in the worker's own code
(`fail_running_after_unwind`, `finish_panicked_lane`), which no modelled step
reaches; a `close` future lost with its runtime; a callback thread that cannot be
started, after which nothing has changed.

### Shutdown

A caller is a static run or a handle; `call` says where it is in
`run_until_trigger`, `shutdown` or an add, `core` holds the flags, the two tokens
and the lock of the shared operation, and `owner` is the detached task that
resolves the trigger, drains, joins the controller, cancels the runtime token,
joins listener and relay, closes the subscribers and publishes the outcome. The
operation is begun, installed and its owner spawned in three steps, since other
callers see the state between them. `leases` are the public owners; the drop of
the last one abandons the runtime unless an operation is installed.

The faults are those the code handles: a panic in a guarded phase, a panic
between phases, after which the whole tail runs once more, a worker that ends
abnormally, and the loss of the tokio runtime on which everything was started.
A second panic between phases cannot happen, as the token is cancelled by then.

The registry, the controller, the relay and the subscriber workers appear only by
their ends and by whether they can be joined; `Registry`, `Controller` and
`EventDelivery` model what they do. An add of a handle waits for ownership and for
the queue, and is decided as soon as it is committed. A `serve` whose start fails
changes nothing and is no action. A clone of a handle is a further handle. Nobody
can begin a shutdown before the first start, because every path to it starts the
runtime first.

### Backoff

Policies are records of naturals, a duration is a number of nanoseconds. The
floating-point product `first * factor^index` is a parameter, any natural: what is
said of a delay holds however it is rounded, and a product that no `Duration`
holds is a number above the cap. A random draw is the set of its results. The
table of ranges in `jitter.rs` is the reference definition `Documented`;
`JitterAsDocumented` compares it with what the code draws for every valid policy
with bounds up to 4 and every growth up to 7, which covers zero, odd and capped
delays. TLC evaluates it with the `TaskActor` runs.

## Runs

| Run | Instance | Question |
|---|---|---|
| `RegistryPair` | 2 tasks, 1 name, limit 2, queue 2, 2 stop commands, a caller of `is_alive` | ownership, names, latches, outcomes, fence, verdict; no attempt overlooked; the lease refinement |
| `RegistryLive` | 2 tasks with own names, limit 1, queue 1, 1 stop, a caller of `wait_until_empty` | the limit counts members and aborted attempts; adds are decided, latches complete, shutdown ends, no wakeup is lost |
| `TaskActor` | 3 actors, different policies, 1 permit | permits, budgets, exit reasons; the life refinement |
| `TaskActorLive` | 2 actors | a cancelled actor ends, a waiter is served |
| `ListenerLoop` | burst 4, 3 commands, 5 completions | a command waits at most one burst |
| `Controller` | 3 submissions, 2 names, 1 slot, 1 caller, 1 reservation, 2 pending | nothing lost, one task per slot, budgets, no stuck slot, verdicts final |
| `ControllerLive` | 2 submissions, 1 slot, 2 callers | answers true, a displaced owner leaves, shutdown resolves everything |
| `DeferredDrop` | 4 clients, 3 units, 1 core and 2 elastic workers, one attachment | units conserved, FIFO, exact counters, no lost batch or wakeup |
| `DeferredDropLive` | 3 clients, one of whose destructors hangs, 2 core and 1 elastic worker | every other value is destroyed |
| `EventDelivery` | a shared lane whose callback may panic, a dedicated one whose callback may hang, ring 2, lanes 2, quantum 2, 3 events, 1 reported panic | losses accounted, order, no unattended lane, delivery settles |
| `EventDrain` | 2 shared lanes, ring 2, lanes 2, 2 events | a close before its deadline delivers everything: **violated** |
| `Shutdown` | 2 static runs, one with a signal, 1 handle, a controller, 1 fault | one operation, one earned answer, everybody answered |

All pass except `EventDrain`, which shows the disagreement described below. The
bounds make the interesting cases happen: two tasks of one name are enough for
every conflict over a name, a batch of two for a partial batch, two stop commands
for a lost claim and for a cancel that joins somebody else's removal; two tasks of
different names for one place let one be an aborted attempt while the other is
refused. A queue of two lets commands wait behind the fence. Three actors on one
permit put two in the wait queue. Three submissions to a slot make an owner, a
head and a displacement; two names for one slot make a refusal, and one
reservation exhausts the pump. Four clients on three units make one wait while
three batches keep three workers busy, the smallest pool in which an elastic
worker can ask for a further one. A ring and lanes of two places hold events in an
order and overflow with the third, a quantum of two lets a lane both return early
and use its turn up;
two shared lanes in `EventDrain` take turns. Two static runs and a handle give a
claim that is lost, a shutdown that is joined and one that is begun twice. A
deadlock is not looked for where the system may stop for good: in `EventDelivery`
and `Shutdown`, when nobody publishes or calls any more. Symmetry is used only
where identities are interchangeable and no liveness is checked. Some limits are
out of reach of their runs and rest on the theorems alone: the budgets of tracked
operations and of one slot's queue in `Controller` (`BudgetsAreKept`), and the
lease's limit in `RegistryPair` (`LeasesImplemented`).

What the less obvious properties say:

* `LatchesHonest`, `OutcomeHonest`: a waiter released by a removal's logical or
  physical latch finds what the latch promises, a cancel caller waits only on a
  latch whose owner is still at work, and a report says what the removal owner
  really did.
* `RequestsSettle`: every add is decided and both latches complete, the logical
  one whatever the attempt does, the physical one once the aborted attempt is
  gone.
* `VerdictSound`: what "all stopped within grace" means. Once the fence is
  acknowledged every command committed before the gate closed has been decided.
  When the drain reports success no member and no pending removal owner is
  left, and every task submitted has been told its outcome. The owner that leaves
  the pending count last wakes the drain before it completes its own logical latch
  (`removal/terminal.rs`, lines 283 to 287): a cancel caller may still wait for
  that latch when the verdict is given, and `LatchesHonest` and `RequestsSettle`
  are what it has. An attempt that was force-aborted by an earlier, detached removal may
  still be winding down; it is the reaper's and is not counted by the code
  either. However the listener came to its end, no entry, pending owner, command
  or untold task is left behind.
* `PermitsConserved`: no permit leaks or is duplicated, and user code runs only
  under one. `ExitHonest`: an actor stops for the reason it reports, within its
  retry budget. `ActorsProgress`: a cancelled actor ends and no actor starves.
* `ImplementsLease`, `ImplementsLife`: refinements, checked as properties.
* `SlotsMoveOn`: an occupied slot always has exactly one result on its way that
  will move it on, no queue waits behind nobody, and a queued replacement means
  that the owner is on its way out.
* `PoolExact`: the worker counters, which decide whether a thread is started and
  which saturate instead of failing, always agree with the threads; no batch
  is lost to a closed queue and no unit is given up with a destructor not run.
* `LossAccounted`: every event the ring displaced is still counted or was
  reported to every lane, and every event offered to an open lane reaches its
  callback, is queued, or is counted for the next summary.
* `SerialInOrder`: one callback at a time per subscriber, in order, with the
  subscriber in exactly one place.
* `LanesAttended`: no wakeup is lost between relay, lanes and threads.
  `Settles`: delivery comes to rest and a close ends, beside a hung callback too.
* `SharedAnswer`: all callers of the operation get one answer, and nobody who saw
  the started token looks for the operation in vain. `OutcomeEarned`: the answer
  is true of tasks and workers when it is given. `LifecycleClaimed`: only one
  static run ever holds the runtime, and only a failure before its commit gives
  it back. `DrainUndisturbed`: nobody cancels the runtime under a drain.
  `EveryoneAnswered`: all of this ends, whatever single fault happens.
* `BacklogAttended`: no worker sleeps beside a queued batch unless another one is
  on its way to the queue or about to wake everybody.

### A disagreement: close may drop an event before its deadline

The documentation of `close` and `docs/cancellation-and-shutdown.md` describe a
drain that drops queued events at the deadline, and a unit test expects all events
delivered when `close` returns. `EventDrain` checks that promise as `CloseDrains`,
and TLC finds a counterexample. A worker that found its lane empty lets go of the
lock and takes it again before it rests; at this second look (`subscriber_set.rs`,
lines 482 and 569) it finishes the lane if it is closing, whatever the queue holds
by then. If the relay's last event and `close` both fall between the two looks, the
event is discarded without a report. The branch at the end of a quantum (line 588)
asks for an empty queue as well, and has no such gap. `LossAccounted` in the passing
run therefore speaks of lanes that have not finished.

### Fairness

Liveness runs assume weak fairness of the tokio tasks (a woken task is polled)
and of timers (a grace period ends). In `Registry` nothing is assumed of user
attempts: they may run for ever, and the code must still make progress by
aborting. An aborted task is dropped at its next await, so `RequestsSettle`
speaks of attempts that are gone. In `TaskActor` user code that was cancelled
returns. In `Controller` every `select!` branch that stays ready is taken
(branches are polled in random order, and a burst of results lets a command
in), the registry decides adds, and a task being removed is physically gone in
the end: the documentation of `Replace` says that it waits for exactly that and
has no timeout of its own. In `DeferredDrop` the cleanup threads are scheduled,
their timed waits end, the thread factory answers (yes or no), and destructors
outside `Stuck` return; clients may hold a value for ever. In `EventDelivery` the
callback threads and the relay are scheduled, a publisher that has stored its
event rings the bell, the deadline of `close` passes, and callbacks outside `Hung`
return; nobody has to publish or to shut down. In `Shutdown` futures under way are
polled and tasks are scheduled; nothing makes a caller start, drop or trigger
anything or capacity come free.

`Registry`, `Controller`, `EventDelivery` and `Shutdown` state weak fairness once,
for the union of the fair steps. Each of these steps is taken finitely often in a
behaviour (every one moves a task, a submission, an event or a call forward, and
those are finitely many; in `Shutdown`, once the gate is closed), so a step that
stays enabled is taken in the end, and fairness of the union is fairness of each.

## Proofs

Every theorem holds for all values of the constants that satisfy the named
assumptions of the modelled module: sets of tasks, clients, submissions, slots
and callers are finite and otherwise arbitrary (static runs and handles need not
even be finite), limits are arbitrary naturals, positive where the code refuses
zero. No theorem assumes anything of fairness. Each
component follows one plan: the properties TLC checks are seldom inductive, so
the module states an invariant that says where each party may be and what that
tells the others, shows that the initial state establishes it and that every
action keeps it (one lemma per action or group of actions, one step per part the
action disturbs), and derives the properties.

### Registry

From `IdsAssumption`, `NamesAssumption`, `LimitAssumption`, `QueueAssumption`:

| Theorem | Says |
|---|---|
| `Invariance` | `RegistryInvariant` holds always |
| `TypeCorrect` | types; the pending counts and the active count never go negative |
| `AllActorsOwned` | an existing actor has an entry or a reaper record waiting for it |
| `NamesExclusive` | two actors of one name never coexist |
| `LimitRespected` | members and existing actors never pass the limit |
| `PromisesKept` | `PromiseInvariant` holds always |
| `LatchesAreHonest`, `OutcomesAreHonest` | latches and reports are true |
| `VerdictsAreSound` | fence, drain and the listener's end leave behind what shutdown concludes from them |
| `OutcomesAreFinal` | an action property: an outcome is given once |
| `QueriesSee` | `is_alive` overlooks no attempt that runs all the while |
| `LeasesImplemented` | the registry implements `NameLease` |

Name exclusion is not inductive: it is kept by an agreement between the
registry's indexes, the phase of each removal owner and the reaper's records.
`RegistryInvariant` states that agreement:

* `Queue`: what is in the command queue is new, once each, and consistent with
  the gate, so an add that is taken cannot already be a member;
* `Admitting`: what the listener's position says of the batch in its hands,
  which carries the read-lock decision to the write lock;
* `Fenced`: what the shutdown owner may rely on after the fence;
* `Phases`: for each task, which combinations of entry, owner phase, actor state
  and reaper record can occur;
* `Indexes`: both indexes agree, and a name is held by one of the registry and
  the reaper;
* `Counted`: the reaper's count is the number of records it stands for.

The limit needs one more induction, `LimitKept`: the members together with the
records not yet collected number at most the limit; it holds because an abort
moves a task from the one to the other and only `LInsert` adds one, under its
check.

What callers are told needs more: `PromiseInvariant` adds `Told` (which report and
which latches a removal phase allows), `Evidence` (what the joined actor left
behind for the report), `Decided` (an add is undecided exactly while it is with
its caller, in the queue or in the listener's hands, which is what makes the
fence mean something) and `Course` (how gate, fence, sweep, drain and token follow
each other, and that after a sweep nobody is left to claim). Its step lemmas use
`RegistryInvariant` before and after the step. TLC checks it in `RegistryPair`.
`QueriesSee` extends the specification by the query's two reads; between them a
task can only move from the registry to the reaper, never back. The refinement maps
a lease to the entry in `by_name` or the reaper's reservation that `Keeps` a name:
a step of the registry grants a whole batch under the write lock, begins or ends an
execution under a lease, gives one back, or changes none.

### TaskActor, ListenerLoop

| Theorem | Says |
|---|---|
| `LoopInvariance` | `ActorInvariant` holds always |
| `PermitsAreConserved` | permits are exact, and user code runs under one |
| `ExitsAreHonest` | the exit reason is the true one, within the retry budget |
| `LifeImplemented` | the loop implements `ActorLife`, the actor that `Registry` assumes |
| `CommandsNotStarved` | a command waits for at most one burst |

`ActorInvariant` has `Guarded` (where permit, activity flag and user future exist),
`Semaphore` (the permits add up, the wait queue lists each waiting actor without a
permit once, and nobody waits while a permit is free), `Budgeted` (the saturating
retry counter is the number of failures in a row, up to the point of decision),
`Classifies` and `Exited`. Permits alone are not inductive: a released permit goes
to the head of a queue, so one must know that the head still waits. In the listener's
loop the history of overtaking completions is bounded by the burst counter, since
both are reset together.

### Controller

From `ControllerAssumption`:

| Theorem | Says |
|---|---|
| `ControllerInvariance` | `ControllerInvariant` holds always |
| `NothingIsLost` | every submission is in exactly one place |
| `SlotsAreExclusive` | a slot serves one task at a time |
| `BudgetsAreKept` | types and all limits |
| `SlotsDoMoveOn` | no slot waits for nothing |
| `AnswersAreHonest` | what callers of remove and cancel hear is so |
| `VerdictsAreFinal` | an action property: a submission is decided once |

`SlotExclusive` speaks of the registry, which the controller sees through results
that arrive in any order; it is kept because a slot has one owner and the owner one
result on its way. `ControllerInvariant` therefore relates all of it: `Commanded`
(the channel lists what was sent, once each, an operation after the submission it
is about), `Watched` (watchers and both indexes agree), `Reserved` (the pump lists
the capacity waiters), `Known` and `Awaited` (what the registry has was handed over,
and its result is tracked), `Serves` (a slot waits for its owner and for nobody
else), `Lined` (a queue lists the indexed submissions of its slot, within its limit,
replacements at the head), `Called` and `Told` (callers), `Course` (gate before token
before the end of the loop).

A handler calls others that work on a half-made state. The parts are
therefore operators on the pieces of state a handler passes on, `Watched` and
`Known` with the set of submissions that are in its hands. `Handled` says what any
handler does to the one slot it works on; lemmas for starting, vacating, releasing
and advancing a slot establish it, `HandledKeeps` lifts it to the whole state,
and `OnlyCallers`, `OnlyRegistry` and `Still` cover the actions that touch no slot.
Unlike the registry's, this invariant is not part of a run.

### DeferredDrop

From `OwnersAssumption`, `LimitAssumption`, `WorkerAssumption`, `StuckAssumption`:

| Theorem | Says |
|---|---|
| `DropInvariance` | `DropInvariant` holds always |
| `UnitsAreConserved` | every unit is free, charged once or retired; none is free while a request is parked |
| `PoolIsExact` | the counters agree with the threads, every batch is in one place |
| `BacklogIsAttended` | no worker sleeps through a backlog |
| `NobodyBarges` | an action property: units are granted in order of arrival |

The invariant has one part per lock, the broker's `Budget` and the pool's counters
(`Exact`), and the parts that tie the two to the lifetimes: the stage of the
executor (`Stage`), the batches in the queue and on workers (`Batches`), and what is
left to run of each bundle (`Bundles`). `Accounted` is the budget without the claim
that free units have been passed on, which does not hold inside a critical section:
`dispatch` restores it.

### Shutdown

From `LifeAssumption`:

| Theorem | Says |
|---|---|
| `ShutdownInvariance` | `ShutdownInvariant` holds always |
| `ClaimIsExclusive` | one static run has the lifecycle, and the flag says so |
| `DrainIsUndisturbed` | nobody cancels the runtime token under a drain |
| `AnswerIsShared` | one answer for everybody |
| `OutcomeIsEarned` | an outcome is true when it is published |

The invariant says where a caller may be before the operation exists, while it is
installed and while it runs (`Anchored`, `Claiming`, `Installing`, `Answered`), that
there is one claim and one operation (`OneClaim`, `OneOperation`), and what each
phase of the owner has established for the later ones (`Tail`, `Swept`), the
repetition of the tail after a panic included.

### EventDelivery

From `RingAssumption`, `LaneAssumption`, `SubscriberAssumption`,
`WorkerNameAssumption` and `BoundAssumption`, for any subscribers in any order, any
of them dedicated, panicking or (if dedicated) hanging, any publishers and any
positive capacities:

| Theorem | Says |
|---|---|
| `DeliveryCorrect` | `DeliveryInvariant` holds always |
| `DeliverySerial` | one callback of a subscriber at a time, in order of publication |
| `DeliveryAttended` | no wakeup is lost |
| `DeliveryAccounted` | every lost event is counted until it is reported |

`SerialInOrder` relates the last event a callback got to its queue, but what keeps
it true lies further up: events still in the relay's hands or in the ring, in the
order in which they come. `Coming` says of a number that all of those are newer, and
the invariant has it of every number a lane has `Seen`; `Numbered` says the same
within the bus. `Forwarding` says which events the relay may have in hand (one from
the ring, a loss report behind it or alone) and that a closed ring owes nothing,
`Lost` adds up the ring's losses, `Rung` is the agreement between the bell and
those who still have to ring it.

A lane is judged beside its one thread (`Served`): `Attended` ties its phase to
where the thread is, to the subscriber's ownership and to the ready queue, `Owing`
is its debt, `Ordered` the order in it. These are operators on the lane's record,
the thread's record and the queue, so that a lemma about one lane (`TakesEvent`,
`CallOver`, `OfferedServed`) says nothing of the others; `HandsOnly`, `ThreadOnly`
and `AllServed` lift it to the whole set, and `LanesBeside` covers the steps of
bus and relay that leave all lanes alone. The debt counts positions of the queue
that hold ordinary events; `OrdinaryAppend` and `OrdinaryTail` say how that number
changes when one event joins or leaves, which is all the induction needs.
`InOrderFacts` shows that the idle lanes an event finds are scheduled each once.

### Retry delays

From `BackoffAssumption` (the default first delay is within the default cap):

| Theorem | Says |
|---|---|
| `PoliciesValid` | whatever the constructor and the order of builder methods, first delay and floor stay within the cap |
| `DelaysBounded` | every delay of such a policy lies between its floor and its cap, and above the safety floor unless the base is zero, for any growth |

The second rests on `JitterBounded`, one case per jitter: a draw never leaves the
interval from zero to the cap.

### Only model-checked

All liveness, which with `ENABLED` is out of the prover's reach, and the comparison
of the jitters with their table. `CloseDrains` of `EventDrain` is false, as the
finding there explains. No module of the project declares a `RECURSIVE` operator.

## Not modelled

* Builders and configuration, which validate values before anything runs.
* Task specifications, errors and events as data: records, formatting and
  conversions without control of their own.
* Caller operations, which select a management call and map its error; the
  timeouts of `cancel` and `remove`, which only stop a caller from waiting.
* Snapshots and lists, which are copies of reads that are modelled.
* The unlimited mode of deferred cleanup and its reporters; the built-in
  tracing and logging subscribers.
* Branches the code marks as defensive, and panics in the crate's own code where
  no modelled step can raise one (named in the sections above).
* Time: a grace period, a delay or a deadline ends at any moment.

## Plan

1. Done: all models and runs; the proofs of every invariant and action property
   the runs check, and both refinements.
2. Worth composing later: `Shutdown` with `Controller`, whose join precedes the
   runtime token, in place of the controller's end.
