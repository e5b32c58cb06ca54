------------------------------ MODULE Shutdown ------------------------------
(***************************************************************************)
(* The life of one supervisor as its callers see it: startup, the single-  *)
(* use static run, public ownership, and the one shutdown operation that   *)
(* every trigger creates or joins (core/runtime/lifecycle,                 *)
(* core/runtime/shutdown_workflow, core/owner.rs).                         *)
(*                                                                         *)
(* A caller is a static run (run, run_until, run_with_os_signals) or a     *)
(* SupervisorHandle.  The registry, the controller, the event relay and    *)
(* the subscriber workers are modelled by what shutdown sees of them: when *)
(* they end and whether they can be joined.  Registry, Controller and      *)
(* EventDelivery model what they do.                                       *)
(***************************************************************************)
EXTENDS Naturals, FiniteSets

CONSTANTS
    Runs,           \* calls of the static run methods
    Handles,        \* values of SupervisorHandle
    Triggered,      \* the runs with a shutdown future: run_until, or a signal
    Signals,        \* those of them that wait for an operating-system signal
    Controller,     \* whether a controller is configured
    MaxFaults,      \* bound on panics, lost workers and the loss of the runtime
    Nobody

ASSUME LifeAssumption ==
    /\ Runs \cap Handles = {} /\ {Nobody, "supervisor"} \cap (Runs \cup Handles) = {}
    /\ Signals \subseteq Triggered /\ Triggered \subseteq Runs
    /\ Controller \in BOOLEAN /\ MaxFaults \in Nat

Callers == Runs \cup Handles
Tasks == {"controller", "listener", "relay"}    \* live on the startup runtime
Outcomes == {"Completed", "GraceExceeded", "SignalSetupFailed", "ShuttingDown"}

VARIABLES
    core,       \* the flags, tokens and the operation lock of SupervisorCore
    worker,     \* the workers start() launches, and the subscriber set
    members,    \* whether the registry has a member
    batch,      \* per run: its static batch in the registry's command queue
    owner,      \* the detached owner of the shutdown operation
    outcome,    \* what the owner published for every caller
    call,       \* per caller: where it is, its claim, trigger and answer
    leases,     \* public owners of the runtime (RuntimeOwner)
    faults

life == <<core, worker, members, batch, owner, outcome, call, leases, faults>>

LifeInit ==
    /\ core = [started |-> FALSE, alive |-> TRUE, running |-> FALSE,
               shutting_down |-> FALSE, announced |-> FALSE,
               runtime_token |-> FALSE, operation |-> FALSE, lock |-> Nobody]
    /\ worker = [w \in Tasks \cup {"subs"} |-> "off"]
    /\ members = FALSE
    /\ batch = [r \in Runs |-> "none"]
    /\ owner = [at |-> "none", trigger |-> "none", verdict |-> "none",
                clean |-> TRUE, redo |-> FALSE]
    /\ outcome = "none"
    /\ call = [c \in Callers |-> [at |-> "idle", claim |-> "none",
                                  trigger |-> "none", result |-> "none"]]
    /\ leases = {"supervisor"}
    /\ faults = 0

-----------------------------------------------------------------------------
(* Callers: moving on, leaving, and the last owner's drop.                 *)

At(c, place) == call[c].at = place
Goto(c, place) == call' = [call EXCEPT ![c].at = place]
WithTrigger(c, place, t) ==
    call' = [call EXCEPT ![c].at = place, ![c].trigger = t]
Committed(c, place) ==
    call' = [call EXCEPT ![c].at = place, ![c].claim = "committed"]

\* SupervisorCore::abandon, called by the drop of the last RuntimeOwner: an
\* installed operation keeps the cleanup.
AbandonedAnyway(k, left) ==
    IF left # {} THEN k
    ELSE [k EXCEPT !.shutting_down = TRUE, !.announced = TRUE, !.runtime_token = TRUE]
Abandoned(k, left) ==
    IF left # {} \/ k.operation THEN k
    ELSE [k EXCEPT !.shutting_down = TRUE, !.announced = TRUE, !.runtime_token = TRUE]

\* StaticRunClaim::drop: an uncommitted claim is given back.
ReleasedAlways(k, c) ==
    IF call[c].claim # "none" THEN [k EXCEPT !.running = FALSE] ELSE k
Released(k, c) ==
    IF call[c].claim = "held" THEN [k EXCEPT !.running = FALSE] ELSE k

\* The call returns, or its future is dropped: the claim guard goes, and a
\* handle, which shutdown(self) consumed, goes with it.
Leave(c, answer) ==
    /\ call' = [call EXCEPT ![c].at = "done", ![c].result = answer,
                            ![c].claim = IF @ = "held" THEN "none" ELSE @]
    /\ leases' = leases \ {c}
    /\ core' = Abandoned(Released(core, c), leases \ {c})

\* A future that is awaiting may be dropped by its caller.
CallDropped(c) ==
    /\ call[c].at \in {"enqueue", "reply", "drive", "lookup", "wait"}
    /\ Leave(c, "dropped")
    /\ UNCHANGED <<worker, members, batch, owner, outcome, faults>>

-----------------------------------------------------------------------------
(* Startup and handles.                                                    *)

\* SupervisorCore::start under its gate; a second start finds it done.
Started ==
    /\ core' = [core EXCEPT !.started = TRUE]
    /\ worker' = IF core.started THEN worker
                 ELSE [w \in Tasks \cup {"subs"} |->
                         IF w = "controller" /\ ~Controller THEN "off" ELSE "up"]

\* Supervisor::serve.  A failed first start changes nothing and may be retried.
Serve(h) ==
    /\ At(h, "idle") /\ "supervisor" \in leases
    /\ Started
    /\ leases' = leases \cup {h}
    /\ Goto(h, "held")
    /\ UNCHANGED <<members, batch, owner, outcome, faults>>

\* add_task and its variants, refused at once behind a closed gate.  The future
\* borrows the handle, which outlives it.
AddTask(h) ==
    /\ At(h, "held") /\ ~core.shutting_down
    /\ Goto(h, "add")
    /\ UNCHANGED <<core, worker, members, batch, owner, outcome, leases, faults>>

\* The command channel is closed once the listener has ended.
IntakeClosed == core.announced \/ worker["listener"] # "up"

\* enqueue_add_task_wait_inner: ownership, then a slot of the command queue,
\* then the gate and commit_add.  Both waits are biased towards shutdown and
\* closed intake; a deadline or the drop of the future may end them, and
\* capacity need never come free.  Registry models what becomes of the
\* command; here it is decided at once.
EnqueueAdd(h) ==
    /\ At(h, "add")
    /\ Goto(h, "held")
    /\ members' \in {members, members \/ ~(IntakeClosed \/ core.shutting_down)}
    /\ UNCHANGED <<core, worker, batch, owner, outcome, leases, faults>>

\* SupervisorHandle::shutdown, first poll.
RequestShutdown(h) ==
    /\ At(h, "held")
    /\ WithTrigger(h, "begin", "Requested")
    /\ UNCHANGED <<core, worker, members, batch, owner, outcome, leases, faults>>

DropHandle(h) ==
    /\ At(h, "held")
    /\ Leave(h, "dropped")
    /\ UNCHANGED <<worker, members, batch, owner, outcome, faults>>

\* Run futures borrow the supervisor, so it outlives them.
DropSupervisor ==
    /\ "supervisor" \in leases
    /\ \A r \in Runs : call[r].at \in {"idle", "done"}
    /\ leases' = leases \ {"supervisor"}
    /\ core' = Abandoned(core, leases \ {"supervisor"})
    /\ UNCHANGED <<worker, members, batch, owner, outcome, call, faults>>

-----------------------------------------------------------------------------
(* Static runs: SupervisorCore::run_until_trigger.                         *)

\* StaticRunClaim::acquire.
Claim(r) ==
    /\ At(r, "idle") /\ "supervisor" \in leases
    /\ \/ /\ core.running
          /\ Leave(r, "AlreadyRunning")
       \/ /\ ~core.running
          /\ core' = [core EXCEPT !.running = TRUE]
          /\ call' = [call EXCEPT ![r].at = "claimed", ![r].claim = "held"]
          /\ UNCHANGED leases
    /\ UNCHANGED <<worker, members, batch, owner, outcome, faults>>

\* What the shutdown future of run r may resolve to, if it is ready.
Fires(r) ==
    IF r \notin Triggered THEN {}
    ELSE {"Requested"} \cup IF r \in Signals THEN {"SignalSetupFailed"} ELSE {}

\* The limits, then the branch for an empty task set.
PreflightEmpty(r) ==
    IF core.shutting_down THEN Committed(r, "lookup") ELSE Goto(r, "startEmpty")

\* The first select!, biased: a started shutdown, the trigger, go on.
PreflightBatch(r) ==
    \/ core.announced /\ Goto(r, "lookup")
    \/ ~core.announced /\ \E t \in Fires(r) : WithTrigger(r, "startTrigger", t)
    \/ ~core.announced /\ Goto(r, "reserve")

Preflight(r) ==
    /\ At(r, "claimed")
    /\ \/ /\ Leave(r, "Refused")
       \/ /\ PreflightEmpty(r) \/ PreflightBatch(r)
          /\ UNCHANGED <<core, leases>>
    /\ UNCHANGED <<worker, members, batch, owner, outcome, faults>>

\* Ownership for the whole batch, or no Tokio runtime; then the second look
\* at the admission flag.
Reserve(r) ==
    /\ At(r, "reserve")
    /\ \/ Leave(r, "Refused")
       \/ /\ IF core.shutting_down THEN Committed(r, "lookup") ELSE Goto(r, "startBatch")
          /\ UNCHANGED <<core, leases>>
    /\ UNCHANGED <<worker, members, batch, owner, outcome, faults>>

\* start_static_run()?; run_claim.commit().
AfterStart == [startEmpty |-> "drive", startTrigger |-> "begin", startBatch |-> "enqueue"]

StartRun(r) ==
    /\ call[r].at \in DOMAIN AfterStart
    /\ \/ /\ ~core.started
          /\ Leave(r, "StartFailed")
          /\ UNCHANGED worker
       \/ /\ Started
          /\ Committed(r, AfterStart[call[r].at])
          /\ UNCHANGED leases
    /\ UNCHANGED <<members, batch, owner, outcome, faults>>

\* The second select!, biased, around enqueue_add_batch_wait.
Enqueue(r) ==
    /\ At(r, "enqueue")
    /\ \/ /\ core.announced
          /\ Goto(r, "lookup")
          /\ UNCHANGED batch
       \/ /\ ~core.announced
          /\ \E t \in Fires(r) : WithTrigger(r, "begin", t)
          /\ UNCHANGED batch
       \/ /\ ~core.announced
          /\ core.shutting_down \/ worker["listener"] # "up"
          /\ Goto(r, "refused")
          /\ UNCHANGED batch
       \/ /\ ~core.announced /\ ~core.shutting_down /\ worker["listener"] = "up"
          /\ batch' = [batch EXCEPT ![r] = "queued"]
          /\ Goto(r, "reply")
    /\ UNCHANGED <<core, worker, members, owner, outcome, leases, faults>>

\* await_add_batch_reply.
Reply(r) ==
    /\ At(r, "reply")
    /\ \/ /\ batch[r] = "accepted"
          /\ Goto(r, "drive")
          /\ UNCHANGED <<core, leases>>
       \/ /\ batch[r] = "rejected"
          /\ Leave(r, "Rejected")
       \/ /\ batch[r] = "queued" /\ worker["listener"] # "up"
          /\ Goto(r, "refused")
          /\ UNCHANGED <<core, leases>>
    /\ UNCHANGED <<worker, members, batch, owner, outcome, faults>>

\* ShuttingDown from the queue or the reply: joined if a shutdown has started.
Refused(r) ==
    /\ At(r, "refused")
    /\ \/ core.announced /\ Goto(r, "lookup") /\ UNCHANGED <<core, leases>>
       \/ ~core.announced /\ Leave(r, "Closed")
    /\ UNCHANGED <<worker, members, batch, owner, outcome, faults>>

\* drive_shutdown: whichever of the three is ready.
Drive(r) ==
    /\ At(r, "drive")
    /\ \/ core.announced /\ Goto(r, "lookup")
       \/ \E t \in Fires(r) : WithTrigger(r, "begin", t)
       \/ ~members /\ WithTrigger(r, "begin", "Natural")
    /\ UNCHANGED <<core, worker, members, batch, owner, outcome, leases, faults>>

-----------------------------------------------------------------------------
(* The shared operation: begin_shutdown, wait_started_shutdown, wait.      *)

\* Under the operation lock: join, or close admission and install.
BeginShutdownTwice(c) ==
    /\ At(c, "begin") /\ core.lock = Nobody
    /\ core' = [core EXCEPT !.lock = c, !.shutting_down = TRUE]
    /\ Goto(c, "install")
    /\ UNCHANGED <<worker, members, batch, owner, outcome, leases, faults>>
BeginShutdown(c) ==
    /\ At(c, "begin") /\ core.lock = Nobody
    /\ \/ core.operation /\ Goto(c, "wait") /\ UNCHANGED core
       \/ /\ ~core.operation
          /\ core' = [core EXCEPT !.lock = c, !.shutting_down = TRUE]
          /\ Goto(c, "install")
    /\ UNCHANGED <<worker, members, batch, owner, outcome, leases, faults>>

\* The operation is stored, the started token cancelled, the lock released.
InstallLate(c) ==
    /\ At(c, "install")
    /\ core' = [core EXCEPT !.announced = TRUE, !.lock = Nobody]
    /\ Goto(c, "spawn")
    /\ UNCHANGED <<worker, members, batch, owner, outcome, leases, faults>>
Install(c) ==
    /\ At(c, "install")
    /\ core' = [core EXCEPT !.operation = TRUE, !.announced = TRUE, !.lock = Nobody]
    /\ Goto(c, "spawn")
    /\ UNCHANGED <<worker, members, batch, owner, outcome, leases, faults>>

\* The owner is a task of the startup runtime; a dead runtime drops it at
\* once, and the sender of the outcome with it.
Spawn(c) ==
    /\ At(c, "spawn")
    /\ owner' = [at |-> IF core.alive THEN "resolve" ELSE "gone", trigger |-> call[c].trigger,
                 verdict |-> "none", clean |-> TRUE, redo |-> FALSE]
    /\ Goto(c, "wait")
    /\ UNCHANGED <<core, worker, members, batch, outcome, leases, faults>>

\* wait_started_shutdown expects the operation once the token has fired.
Lookup(c) ==
    /\ At(c, "lookup") /\ core.announced /\ core.lock = Nobody
    /\ \/ core.operation /\ Goto(c, "wait") /\ UNCHANGED <<core, leases>>
       \/ ~core.operation /\ Leave(c, "Panic")
    /\ UNCHANGED <<worker, members, batch, owner, outcome, faults>>

\* ShutdownOperation::wait: the cached outcome, or the sender was lost.
WaitOutcome(c) ==
    /\ At(c, "wait")
    /\ \/ outcome # "none" /\ Leave(c, outcome)
       \/ outcome = "none" /\ owner.at = "gone" /\ Leave(c, "ShuttingDown")
    /\ UNCHANGED <<worker, members, batch, owner, outcome, faults>>

-----------------------------------------------------------------------------
(* The detached owner: perform_shutdown and the mandatory cleanup tail.    *)

\* finish_shutdown_cleanup's order.
Following ==
    [controller |-> "token", token |-> "listener", listener |-> "relay",
     relay |-> "subs", subs |-> "publish"]

Resolved(v) == owner' = [owner EXCEPT !.verdict = v, !.at = "controller"]

\* close_admission_and_fence_registry: the listener answers after every
\* command committed before; if it is gone the fence fails.
Fence ==
    /\ owner.at = "resolve"
    /\ worker["listener"] = "up" => \A r \in Runs : batch[r] # "queued"
    /\ core' = [core EXCEPT !.shutting_down = TRUE]
    /\ \/ /\ owner.trigger = "SignalSetupFailed"
          /\ Resolved("SignalSetupFailed")
       \/ /\ owner.trigger # "SignalSetupFailed" /\ worker["listener"] = "up"
          /\ owner' = [owner EXCEPT !.at = "drain"]
       \/ /\ owner.trigger # "SignalSetupFailed" /\ worker["listener"] # "up"
          /\ Resolved("ShuttingDown")
    /\ UNCHANGED <<worker, members, batch, outcome, call, leases, faults>>

\* drain_with_grace after the fence: every member is claimed; some may miss
\* the deadline.
Drain ==
    /\ owner.at = "drain"
    /\ members' = FALSE
    /\ \E v \in {"Completed", "GraceExceeded"} : Resolved(v)
    /\ UNCHANGED <<core, worker, batch, outcome, call, leases, faults>>

\* The join of one worker, clean if the task ended by itself.  On a second
\* pass the handles are gone or the stored result is read again.
JoinUnchecked(w) ==
    /\ owner.at = w /\ worker[w] # "up"
    /\ owner' = [owner EXCEPT !.at = Following[w]]
    /\ UNCHANGED <<core, worker, members, batch, outcome, call, leases, faults>>
Join(w) ==
    /\ owner.at = w /\ worker[w] # "up"
    /\ owner' = [owner EXCEPT !.at = Following[w], !.clean = @ /\ worker[w] # "failed"]
    /\ UNCHANGED <<core, worker, members, batch, outcome, call, leases, faults>>

CancelTokenLate ==
    /\ owner.at = "token"
    /\ owner' = [owner EXCEPT !.at = Following["token"]]
    /\ UNCHANGED <<core, worker, members, batch, outcome, call, leases, faults>>
CancelToken ==
    /\ owner.at = "token"
    /\ core' = [core EXCEPT !.runtime_token = TRUE]
    /\ owner' = [owner EXCEPT !.at = Following["token"]]
    /\ UNCHANGED <<worker, members, batch, outcome, call, leases, faults>>

\* SubscriberSet::close returns by its own deadline at the latest.
CloseSubs ==
    /\ owner.at = "subs"
    /\ worker' = [worker EXCEPT !["subs"] = "ended"]
    /\ owner' = [owner EXCEPT !.at = Following["subs"]]
    /\ UNCHANGED <<core, members, batch, outcome, call, leases, faults>>

\* outcome_tx.send_replace.
Publish ==
    /\ owner.at = "publish"
    /\ outcome' = IF owner.clean /\ ~owner.redo THEN owner.verdict ELSE "ShuttingDown"
    /\ owner' = [owner EXCEPT !.at = "done"]
    /\ UNCHANGED <<core, worker, members, batch, call, leases, faults>>

\* A panic inside a guarded phase: reported, unclean, the next phase runs.
PhasePanics ==
    /\ faults < MaxFaults /\ faults' = faults + 1
    /\ \/ /\ owner.at \in {"resolve", "drain"}
          /\ Resolved("ShuttingDown")
          /\ UNCHANGED worker
       \/ /\ owner.at \in Tasks
          /\ owner' = [owner EXCEPT !.clean = FALSE, !.at = Following[@]]
          /\ UNCHANGED worker
       \/ /\ owner.at = "subs"
          /\ owner' = [owner EXCEPT !.clean = FALSE, !.at = Following[@]]
          /\ worker' = [worker EXCEPT !["subs"] = "failed"]
    /\ UNCHANGED <<core, members, batch, outcome, call, leases>>

\* A panic between the guarded phases, in a waker that cancelling the token
\* runs: the token is cancelled already, and the whole tail runs once more.
OwnerPanics ==
    /\ faults < MaxFaults /\ faults' = faults + 1
    /\ owner.at = "token" /\ ~core.runtime_token
    /\ core' = [core EXCEPT !.runtime_token = TRUE]
    /\ owner' = [owner EXCEPT !.at = "controller", !.redo = TRUE]
    /\ UNCHANGED <<worker, members, batch, outcome, call, leases>>

-----------------------------------------------------------------------------
(* The workers, as shutdown sees them.                                     *)

\* The last member leaves by itself.
TasksEnd ==
    /\ members /\ worker["listener"] = "up"
    /\ members' = FALSE
    /\ UNCHANGED <<core, worker, batch, owner, outcome, call, leases, faults>>

\* The listener decides the static batch; a reply that nobody awaits any more
\* is lost.
Decide(r) ==
    /\ batch[r] = "queued" /\ worker["listener"] = "up"
    /\ \E v \in {"accepted", "rejected"} :
          /\ batch' = [batch EXCEPT ![r] = IF At(r, "reply") THEN v ELSE "none"]
          /\ members' = (members \/ v = "accepted")
    /\ UNCHANGED <<core, worker, owner, outcome, call, leases, faults>>

\* The controller follows the started token, listener and relay the runtime
\* token; the listener sweeps the members before it ends.
WorkerEnds(w) ==
    /\ worker[w] = "up"
    /\ IF w = "controller" THEN core.announced ELSE core.runtime_token
    /\ worker' = [worker EXCEPT ![w] = "ended"]
    /\ members' = (members /\ w # "listener")
    /\ UNCHANGED <<core, batch, owner, outcome, call, leases, faults>>

WorkerFails(w) ==
    /\ faults < MaxFaults /\ faults' = faults + 1
    /\ worker[w] = "up"
    /\ worker' = [worker EXCEPT ![w] = "failed"]
    /\ UNCHANGED <<core, members, batch, owner, outcome, call, leases>>

\* The startup runtime is dropped, and every task on it.
RuntimeLost ==
    /\ faults < MaxFaults /\ faults' = faults + 1
    /\ core.started /\ core.alive
    /\ core' = [core EXCEPT !.alive = FALSE]
    /\ worker' = [w \in DOMAIN worker |->
                    IF w \in Tasks /\ worker[w] = "up" THEN "failed" ELSE worker[w]]
    /\ owner' = IF owner.at \in {"none", "done"} THEN owner ELSE [owner EXCEPT !.at = "gone"]
    /\ UNCHANGED <<members, batch, outcome, call, leases>>

-----------------------------------------------------------------------------
CallStep(c) == BeginShutdown(c) \/ Install(c) \/ Spawn(c) \/ Lookup(c) \/ WaitOutcome(c)
RunStep(r) == Preflight(r) \/ Reserve(r) \/ StartRun(r) \/ Enqueue(r) \/ Reply(r) \/ Refused(r)
OwnerStep == Fence \/ Drain \/ (\E w \in Tasks : Join(w)) \/ CancelToken \/ CloseSubs \/ Publish

LifeNext ==
    \/ \E h \in Handles : \/ Serve(h) \/ RequestShutdown(h) \/ DropHandle(h)
                          \/ AddTask(h) \/ EnqueueAdd(h)
    \/ DropSupervisor
    \/ \E r \in Runs : Claim(r) \/ RunStep(r) \/ Drive(r) \/ Decide(r)
    \/ \E c \in Callers : CallStep(c) \/ CallDropped(c)
    \/ OwnerStep \/ PhasePanics \/ OwnerPanics
    \/ TasksEnd \/ \E w \in Tasks : WorkerEnds(w) \/ WorkerFails(w)
    \/ RuntimeLost

LifeSpec == LifeInit /\ [][LifeNext]_life

\* Futures that are polled and tasks that are scheduled go on; nothing makes
\* a caller start, drop or trigger anything, a task end by itself, or capacity
\* come free.  Once the gate is closed each of these steps is taken finitely
\* often, so fairness of their union is fairness of each.
LifeFairSpec ==
    /\ LifeSpec
    /\ WF_life(\/ \E c \in Callers : CallStep(c)
               \/ \E r \in Runs : RunStep(r) \/ Drive(r) \/ Decide(r)
               \/ \E h \in Handles : IntakeClosed /\ EnqueueAdd(h)
               \/ OwnerStep
               \/ \E w \in Tasks : WorkerEnds(w))

-----------------------------------------------------------------------------
(* Properties.                                                             *)

\* Every caller answered by the shared operation gets the same answer, however
\* many triggers raced, whoever dropped its future and whenever it joined, and
\* none looks for the operation in vain: the expect() of wait_started_shutdown
\* never panics.
SharedAnswer ==
    /\ \A c, d \in Callers :
          {call[c].result, call[d].result} \subseteq Outcomes => call[c].result = call[d].result
    /\ \A c \in Callers : call[c].result # "Panic"

\* A caller told Completed finds no member, no undecided batch and every worker
\* joined after a normal end; GraceExceeded and SignalSetupFailed promise the
\* workers too.  As long as the startup runtime lives, even ShuttingDown comes
\* only after the whole tail: token cancelled and subscribers closed.
OutcomeEarned ==
    \A c \in Callers : call[c].result \in Outcomes =>
        /\ core.shutting_down
        /\ call[c].result = "Completed" =>
              ~members /\ \A r \in Runs : batch[r] # "queued"
        /\ call[c].result # "ShuttingDown" =>
              \A w \in DOMAIN worker : worker[w] \in {"off", "ended"}
        /\ core.alive /\ owner.at = "done" => core.runtime_token /\ worker["subs"] # "up"

\* The running flag is set exactly while a static run holds or has committed
\* the lifecycle, and two runs never both have: a failure before the commit
\* gives it back, one after it does not.
LifecycleClaimed ==
    /\ core.running <=> \E r \in Runs : call[r].claim # "none"
    /\ Cardinality({r \in Runs : call[r].claim # "none"}) <= 1

\* While the operation's owner fences, drains and joins the controller, nobody
\* cancels the runtime token under it: the last owner's drop finds the
\* operation installed and leaves it alone.
DrainUndisturbed ==
    core.operation /\ ~owner.redo /\ owner.at \in {"none", "resolve", "drain", "controller"}
        => ~core.runtime_token

\* Once shutdown has been announced every call under way returns, an add that
\* waits for ownership or for the command queue among them, and every worker
\* ends, whether the owner panics, workers fail, the initiating future is
\* dropped, or the startup runtime dies.
EveryoneAnswered ==
    core.announced ~>
        /\ \A c \in Callers : call[c].at \in {"idle", "held", "done"}
        /\ \A w \in Tasks : worker[w] # "up"
=============================================================================
