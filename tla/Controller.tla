----------------------------- MODULE Controller -----------------------------
(***************************************************************************)
(* The slot controller (controller/engine): one loop that takes ordered    *)
(* commands and the results of its own operations, keeps one owner and one *)
(* queue per slot, waits for registry command capacity, retires an owner   *)
(* that a Replace submission displaced, and resolves whatever is left when *)
(* the runtime shuts down.                                                 *)
(*                                                                         *)
(* The handlers run one at a time.  What changes under them is the         *)
(* registry: its admission gate, its decisions and the life of a task,     *)
(* seen here only as far as the controller can tell.                       *)
(***************************************************************************)
EXTENDS Integers, Sequences, FiniteSets, SequencesExt

CONSTANTS
    Ids,           \* task identities, one submission each
    Slots,         \* slot names
    Callers,       \* callers of remove and cancel, one operation each
    NoId,
    CommandCap,    \* queue_capacity of the command channel
    MaxSlotQueue,  \* max_slot_queue
    MaxPending,    \* max_total_pending
    MaxSlots,      \* max_controller_slots
    AdmissionCap,  \* admission_capacity: reservations of the pump
    IdentityCap    \* identity_operation_capacity

ASSUME ControllerAssumption ==
    /\ IsFiniteSet(Ids) /\ IsFiniteSet(Slots) /\ IsFiniteSet(Callers)
    /\ NoId \notin Ids
    /\ MaxSlotQueue \in Nat
    /\ CommandCap \in Nat \ {0} /\ MaxPending \in Nat \ {0}
    /\ MaxSlots \in Nat \ {0} /\ AdmissionCap \in Nat \ {0}
    /\ IdentityCap \in Nat \ {0}

VARIABLES
    slotOf,       \* the slot each submission names; never changes
    policy,       \* its admission policy; never changes
    cmds,         \* the command channel
    loop,         \* the driver: "running", "draining" or "done"
    gate,         \* the registry's admission gate
    token,        \* shutdown_started
    fate,         \* who holds a submission's outcome sender, or its rejection
    slots,        \* phase and owner of each slot, "absent" when not in the map
    queue,        \* the queue of each slot
    indexed,      \* keys of queued_slots
    capacity,     \* keys of capacity_pending
    pump,         \* CapacityAdmissionPump: the active reservation, then its queue
    admissions,   \* registry decisions being awaited
    completions,  \* physical completions being awaited
    removals,     \* removals of displaced owners under way
    reg,          \* a submission as the registry sees it
    caller,       \* progress of each remove or cancel
    target        \* the identity it is about

inputs    == <<slotOf, policy>>
slotVars  == <<slots, queue, indexed>>
waitVars  == <<capacity, pump>>
trackVars == <<completions, removals>>
callVars  == <<caller, target>>
downVars  == <<loop, gate, token>>
vars == <<inputs, cmds, downVars, fate, slotVars, waitVars, admissions, trackVars, reg, callVars>>

Policies == {"Queue", "Replace", "DropIfRunning"}

\* RejectionKind; a failed registry hand-off of whatever kind is one value.
Kinds == {"QueueFull", "SlotBusy", "ResourceLimit", "HandoffFailed", "SupersededByReplace",
          "RemovedFromQueue", "ControllerShuttingDown"}

Phases == {"absent", "idle", "admitting", "cancelPending", "running", "terminating"}
Absent == [phase |-> "absent", owner |-> NoId]

\* A submission carries its identity, an identity operation its caller.
Commands == [op : {"submit"}, id : Ids] \cup [op : {"manage"}, by : Callers]

CallStates == {"idle", "sent", "tracked", "joined", "claimed", "true", "false", "error"}
RegStates  == {"none", "queued", "rejected", "live", "removing", "released", "gone"}

ControllerTypeOK ==
    /\ slotOf \in [Ids -> Slots] /\ policy \in [Ids -> Policies]
    /\ cmds \in Seq(Commands) /\ Len(cmds) <= CommandCap
    /\ loop \in {"running", "draining", "done"}
    /\ gate \in {"open", "closed"} /\ token \in BOOLEAN
    /\ fate \in [Ids -> {"new", "command", "controller", "registry"} \cup Kinds]
    /\ slots \in [Slots -> [phase : Phases, owner : Ids \cup {NoId}]]
    /\ queue \in [Slots -> Seq(Ids)]
    /\ indexed \subseteq Ids /\ capacity \subseteq Ids /\ pump \in Seq(Ids)
    /\ admissions \subseteq Ids /\ completions \subseteq Ids /\ removals \subseteq Ids
    /\ reg \in [Ids -> RegStates]
    /\ caller \in [Callers -> CallStates] /\ target \in [Callers -> Ids \cup {NoId}]

ControllerInit ==
    /\ slotOf \in [Ids -> Slots] /\ policy \in [Ids -> Policies]
    /\ cmds = <<>> /\ loop = "running" /\ gate = "open" /\ token = FALSE
    /\ fate = [i \in Ids |-> "new"]
    /\ slots = [s \in Slots |-> Absent] /\ queue = [s \in Slots |-> <<>>]
    /\ indexed = {} /\ capacity = {} /\ pump = <<>>
    /\ admissions = {} /\ completions = {} /\ removals = {}
    /\ reg = [i \in Ids |-> "none"]
    /\ caller = [c \in Callers |-> "idle"] /\ target = [c \in Callers |-> NoId]

Vacant(s)  == slots[s].phase \in {"absent", "idle"}
Present    == {s \in Slots : slots[s].phase # "absent"}

\* Mutant: submissions that wait for registry capacity are not counted.
PendingLenQueued == Cardinality(indexed)

\* pending_len.
PendingLen == Cardinality(indexed) + Cardinality(capacity)

-----------------------------------------------------------------------------
(* Clients.                                                                *)

\* Mutant: the channel has no capacity.
SendUnbounded(command) == cmds' = Append(cmds, command)

Send(command) == Len(cmds) < CommandCap /\ cmds' = Append(cmds, command)

\* submit and its variants: success confirms command intake only.
Submit(i) ==
    /\ loop = "running" /\ fate[i] = "new"
    /\ Send([op |-> "submit", id |-> i])
    /\ fate' = [fate EXCEPT ![i] = "command"]
    /\ UNCHANGED <<inputs, downVars, slotVars, waitVars, admissions, trackVars, reg, callVars>>

\* remove, cancel and their variants, for an identity a submission returned.
Manage(c, i) ==
    /\ loop = "running" /\ caller[c] = "idle" /\ fate[i] # "new"
    /\ Send([op |-> "manage", by |-> c])
    /\ caller' = [caller EXCEPT ![c] = "sent"] /\ target' = [target EXCEPT ![c] = i]
    /\ UNCHANGED <<inputs, downVars, fate, slotVars, waitVars, admissions, trackVars, reg>>

-----------------------------------------------------------------------------
(* Registry hand-off and the advance of a slot's queue.  A handler passes  *)
(* on what it already changed as a record b of fate, capacity, pump and    *)
(* admissions.                                                             *)

Base == [fate |-> fate, capacity |-> capacity, pump |-> pump, admissions |-> admissions]

\* Outcome Rejected is sent to every identity of R.
Rejecting(f, R, kind) == [i \in Ids |-> IF i \in R THEN kind ELSE f[i]]

\* An entry is looked up by its position and taken out.
Without(q, i) ==
    IF i \in ToSet(q) THEN RemoveAt(q, CHOOSE k \in DOMAIN q : q[k] = i) ELSE q

\* CapacityAdmissionPump: one reservation is active, the others wait behind it
\* in order, and all of them count against the limit.
PumpFull(p)       == Len(p) >= AdmissionCap
PumpEnqueue(p, i) == Append(p, i)
PumpCancel(p, i)  == Without(p, i)
PumpNext(p)       == Tail(p)

Leave(b) ==
    /\ fate' = b.fate /\ capacity' = b.capacity /\ pump' = b.pump
    /\ admissions' = b.admissions /\ UNCHANGED reg

\* The reply of the registry is awaited in the loop's own set of futures.
TrackAdmission(tracked, i) == tracked \cup {i}

\* start_in_slot: the Add command commits, or a full registry queue parks
\* the submission within both budgets; n is pending_len.
StartInSlot(s, i, n, b) ==
    /\ gate = "open"
    /\ slots' = [slots EXCEPT ![s] = [phase |-> "admitting", owner |-> i]]
    /\ \/ /\ fate' = [b.fate EXCEPT ![i] = "registry"]
          /\ reg' = [reg EXCEPT ![i] = "queued"]
          /\ admissions' = TrackAdmission(b.admissions, i)
          /\ capacity' = b.capacity /\ pump' = b.pump
       \/ /\ n < MaxPending /\ ~PumpFull(b.pump)
          /\ fate' = [b.fate EXCEPT ![i] = "controller"]
          /\ capacity' = b.capacity \cup {i} /\ pump' = PumpEnqueue(b.pump, i)
          /\ admissions' = b.admissions /\ UNCHANGED reg

\* The hand-offs that give the submission back: a closed gate, or a full
\* registry queue with no budget to wait for it.
HandoffFails(n, b) ==
    gate = "closed" \/ n >= MaxPending \/ PumpFull(b.pump)

\* The slot loses its owner and keeps its queue; gc_if_idle.
Vacate(s, b) ==
    /\ slots' = [slots EXCEPT ![s] = IF queue[s] = <<>> THEN Absent
                                     ELSE [phase |-> "idle", owner |-> NoId]]
    /\ Leave(b) /\ UNCHANGED <<queue, indexed>>

\* start_next_from_queue: entries whose hand-off fails are rejected until
\* one starts; an emptied slot is collected.
StartNext(s, b) ==
    \E k \in 0..Len(queue[s]) :
        LET failed == {queue[s][j] : j \in 1..k}
            Left(j) == Cardinality(indexed) - j + Cardinality(b.capacity)
            after == [b EXCEPT !.fate = Rejecting(b.fate, failed, "HandoffFailed")]
        IN /\ \A j \in 1..k : HandoffFails(Left(j), b)
           /\ \/ /\ k = Len(queue[s])
                 /\ queue' = [queue EXCEPT ![s] = <<>>] /\ indexed' = indexed \ failed
                 /\ slots' = [slots EXCEPT ![s] = Absent] /\ Leave(after)
              \/ /\ k < Len(queue[s])
                 /\ queue' = [queue EXCEPT ![s] = SubSeq(@, k + 2, Len(@))]
                 /\ indexed' = indexed \ (failed \cup {queue[s][k + 1]})
                 /\ StartInSlot(s, queue[s][k + 1], Left(k + 1), after)

\* The owner is gone: the queue advances unless shutdown was seen.
Release(s, b) == IF token THEN Vacate(s, b) ELSE StartNext(s, b)

-----------------------------------------------------------------------------
(* handle_submission, one action for each way it can go.                   *)

Taking(op) == loop = "running" /\ cmds # <<>> /\ Head(cmds).op = op /\ cmds' = Tail(cmds)

\* Nothing but the sender changes when a submission is turned away.
TurnAway(i, kind) ==
    /\ Leave([Base EXCEPT !.fate = [fate EXCEPT ![i] = kind]])
    /\ UNCHANGED <<slotVars, removals>>

\* Shutdown, a map that may hold no further slot, and a busy slot.
RejectEarly(i) ==
    \/ token /\ TurnAway(i, "ControllerShuttingDown")
    \/ /\ ~token /\ slots[slotOf[i]].phase = "absent" /\ Cardinality(Present) >= MaxSlots
       /\ TurnAway(i, "ResourceLimit")
    \/ /\ ~token /\ ~Vacant(slotOf[i]) /\ policy[i] = "DropIfRunning"
       /\ TurnAway(i, "SlotBusy")

\* An idle slot hands the submission to the registry whatever its policy.
AdmitIdle(i) ==
    LET s == slotOf[i]
    IN /\ ~token /\ Vacant(s)
       /\ s \in Present \/ Cardinality(Present) < MaxSlots
       /\ \/ StartInSlot(s, i, PendingLen, Base) /\ UNCHANGED <<queue, indexed>>
          \/ /\ HandoffFails(PendingLen, Base)
             /\ Vacate(s, [Base EXCEPT !.fate = [fate EXCEPT ![i] = "HandoffFailed"]])
       /\ UNCHANGED removals

QueueFull(s) == Len(queue[s]) >= MaxSlotQueue

\* try_push_queued: the aggregate budget and the index under the state lock.
PushQueued(i, s) ==
    /\ PendingLen < MaxPending
    /\ queue' = [queue EXCEPT ![s] = Append(@, i)] /\ indexed' = indexed \cup {i}

PlaceQueue(i) ==
    LET s == slotOf[i]
    IN /\ ~token /\ ~Vacant(s) /\ policy[i] = "Queue"
       /\ \/ QueueFull(s) /\ TurnAway(i, "QueueFull")
          \/ ~QueueFull(s) /\ PendingLen >= MaxPending /\ TurnAway(i, "ResourceLimit")
          \/ /\ ~QueueFull(s) /\ PushQueued(i, s)
             /\ Leave([Base EXCEPT !.fate = [fate EXCEPT ![i] = "controller"]])
             /\ UNCHANGED <<slots, removals>>

\* Mutant: an owner that is still being admitted is not marked for retirement.
RetireRunningOnly(s) ==
    \/ /\ slots[s].phase = "running"
       /\ slots' = [slots EXCEPT ![s].phase = "terminating"]
       /\ removals' = removals \cup {slots[s].owner}
    \/ slots[s].phase # "running" /\ UNCHANGED <<slots, removals>>

\* request_replacement, and the removal it asks for.
Retire(s) ==
    \/ /\ slots[s].phase = "running"
       /\ slots' = [slots EXCEPT ![s].phase = "terminating"]
       /\ removals' = removals \cup {slots[s].owner}
    \/ /\ slots[s].phase = "admitting"
       /\ slots' = [slots EXCEPT ![s].phase = "cancelPending"]
       /\ UNCHANGED removals
    \/ slots[s].phase \notin {"running", "admitting"} /\ UNCHANGED <<slots, removals>>

\* Mutant: the displaced head's watcher is forgotten.
ReplaceHeadSilently(i, s) ==
    /\ queue[s] # <<>>
    /\ queue' = [queue EXCEPT ![s][1] = i]
    /\ indexed' = (indexed \ {Head(queue[s])}) \cup {i}
    /\ fate' = [fate EXCEPT ![i] = "controller"]

\* replace_head_or_push on an occupied queue: the old head is rejected.
ReplaceHead(i, s) ==
    /\ queue[s] # <<>>
    /\ queue' = [queue EXCEPT ![s][1] = i]
    /\ indexed' = (indexed \ {Head(queue[s])}) \cup {i}
    /\ fate' = [fate EXCEPT ![i] = "controller", ![Head(queue[s])] = "SupersededByReplace"]

\* The first waiter of an empty queue needs the aggregate budget only.
PushHead(i, s) ==
    /\ queue[s] = <<>> /\ PendingLen < MaxPending
    /\ queue' = [queue EXCEPT ![s] = <<i>>] /\ indexed' = indexed \cup {i}
    /\ fate' = [fate EXCEPT ![i] = "controller"]

PlaceReplace(i) ==
    LET s == slotOf[i]
    IN /\ ~token /\ ~Vacant(s) /\ policy[i] = "Replace"
       /\ \/ queue[s] = <<>> /\ PendingLen >= MaxPending /\ TurnAway(i, "ResourceLimit")
          \/ /\ ReplaceHead(i, s) \/ PushHead(i, s)
             /\ Retire(s) /\ UNCHANGED <<capacity, pump, admissions, reg>>

HandleSubmission ==
    /\ Taking("submit")
    /\ LET i == Head(cmds).id
       IN RejectEarly(i) \/ AdmitIdle(i) \/ PlaceQueue(i) \/ PlaceReplace(i)
    /\ UNCHANGED <<inputs, downVars, completions, callVars>>

-----------------------------------------------------------------------------
(* handle_identity_operation: the queue first, then the registry.          *)

\* Callers whose operation the controller is tracking.
Tracked == {c \in Callers : caller[c] \in {"tracked", "joined", "claimed"}}

Answer(c, a) == caller' = [caller EXCEPT ![c] = a]

\* A submission that waits for registry capacity is claimed: its reservation
\* is cancelled and the slot it was to own goes to the next in the queue.
ClaimCapacity(i) ==
    /\ i \in capacity
    /\ StartNext(slotOf[i], [fate |-> [fate EXCEPT ![i] = "RemovedFromQueue"],
                             capacity |-> capacity \ {i}, pump |-> PumpCancel(pump, i),
                             admissions |-> admissions])

\* Mutant: the entry is rejected and unindexed, and stays in its queue.
ClaimQueuedKeepsEntry(i) ==
    /\ i \in indexed
    /\ indexed' = indexed \ {i}
    /\ Leave([Base EXCEPT !.fate = [fate EXCEPT ![i] = "RemovedFromQueue"]])
    /\ UNCHANGED <<queue, slots>>

\* remove_queued_at, then gc_if_idle.
ClaimQueued(i) ==
    LET s == slotOf[i]
        q == Without(queue[s], i)
    IN /\ i \in indexed
       /\ queue' = [queue EXCEPT ![s] = q] /\ indexed' = indexed \ {i}
       /\ Leave([Base EXCEPT !.fate = [fate EXCEPT ![i] = "RemovedFromQueue"]])
       /\ slots' = IF Vacant(s) /\ q = <<>> THEN [slots EXCEPT ![s] = Absent] ELSE slots

\* Mutant: only the slot queues are searched.
WaitingInQueue(i) == i \in indexed

\* The route of remove_queued_submission.
Waiting(i) == i \in capacity \cup indexed

HandleIdentity ==
    /\ Taking("manage")
    /\ LET c == Head(cmds).by
           i == target[c]
       IN \/ token /\ Answer(c, "error") /\ UNCHANGED <<fate, slotVars, waitVars, admissions, reg>>
          \/ /\ ~token /\ Waiting(i) /\ Answer(c, "true")
             /\ ClaimCapacity(i) \/ ClaimQueued(i)
          \/ /\ ~token /\ ~Waiting(i)
             /\ Answer(c, IF Cardinality(Tracked) < IdentityCap THEN "tracked" ELSE "error")
             /\ UNCHANGED <<fate, slotVars, waitVars, admissions, reg>>
    /\ UNCHANGED <<inputs, downVars, trackVars, target>>

-----------------------------------------------------------------------------
(* Results of the operations the loop tracks.                              *)

\* handle_registry_capacity_result: the commit passes the gate once more; a
\* closed gate turns the waiter away and leaves its slot's queue alone.
CapacityResult ==
    /\ loop = "running" /\ pump # <<>> /\ Head(pump) \in capacity
    /\ LET i == Head(pump)
       IN \/ /\ gate = "open"
             /\ fate' = [fate EXCEPT ![i] = "registry"] /\ reg' = [reg EXCEPT ![i] = "queued"]
             /\ admissions' = TrackAdmission(admissions, i)
             /\ capacity' = capacity \ {i} /\ pump' = PumpNext(pump)
             /\ UNCHANGED slotVars
          \/ /\ gate = "closed"
             /\ Vacate(slotOf[i], [fate |-> [fate EXCEPT ![i] = "ControllerShuttingDown"],
                                   capacity |-> capacity \ {i}, pump |-> PumpNext(pump),
                                   admissions |-> admissions])
    /\ UNCHANGED <<inputs, cmds, downVars, trackVars, callVars>>

\* Mutant: an owner displaced before its admission is confirmed but not removed.
ConfirmOnly(i) ==
    LET s == slotOf[i]
    IN /\ completions' = completions \cup {i}
       /\ slots' = [slots EXCEPT ![s].phase = IF @ = "admitting" THEN "running" ELSE "terminating"]
       /\ UNCHANGED removals

\* Mutant: an owner displaced before its admission is removed, its completion not awaited.
ConfirmUntracked(i) ==
    LET s == slotOf[i]
    IN \/ /\ slots[s].phase = "admitting"
          /\ slots' = [slots EXCEPT ![s].phase = "running"]
          /\ completions' = completions \cup {i} /\ UNCHANGED removals
       \/ /\ slots[s].phase = "cancelPending"
          /\ slots' = [slots EXCEPT ![s].phase = "terminating"]
          /\ removals' = removals \cup {i} /\ UNCHANGED completions

\* confirm_admission: the owner runs, or is removed if it was displaced meanwhile.
ConfirmAdmission(i) ==
    LET s == slotOf[i]
    IN /\ completions' = completions \cup {i}
       /\ \/ /\ slots[s].phase = "admitting"
             /\ slots' = [slots EXCEPT ![s].phase = "running"] /\ UNCHANGED removals
          \/ /\ slots[s].phase = "cancelPending"
             /\ slots' = [slots EXCEPT ![s].phase = "terminating"]
             /\ removals' = removals \cup {i}

\* Mutant: a rejected admission frees the slot and forgets its queue.
AdmissionRejectedNoAdvance(i) ==
    /\ reg[i] = "rejected"
    /\ Vacate(slotOf[i], [Base EXCEPT !.admissions = admissions \ {i}])
    /\ UNCHANGED trackVars

AdmissionRejected(i) ==
    /\ reg[i] = "rejected"
    /\ Release(slotOf[i], [Base EXCEPT !.admissions = admissions \ {i}])
    /\ UNCHANGED trackVars

\* handle_registry_decision for the owner of the slot; a stale result would be
\* dropped, and SlotsMoveOn shows there is none.
AdmissionResult(i) ==
    /\ loop = "running" /\ i \in admissions /\ slots[slotOf[i]].owner = i
    /\ \/ AdmissionRejected(i)
       \/ /\ reg[i] \in {"live", "removing", "released", "gone"}
          /\ ConfirmAdmission(i)
          /\ admissions' = admissions \ {i}
          /\ UNCHANGED <<fate, queue, indexed, waitVars, reg>>
    /\ UNCHANGED <<inputs, cmds, downVars, callVars>>

\* Mutant: the slot is reused after registry cleanup, before the attempt is gone.
ReleasedAfterCleanup(i) == reg[i] \in {"released", "gone"}

\* wait_physical.
PhysicallyReleased(i) == reg[i] = "gone"

\* handle_completion_result, likewise.
CompletionResult(i) ==
    /\ loop = "running" /\ i \in completions /\ PhysicallyReleased(i)
    /\ slots[slotOf[i]].owner = i /\ slots[slotOf[i]].phase \in {"running", "terminating"}
    /\ completions' = completions \ {i}
    /\ Release(slotOf[i], Base)
    /\ UNCHANGED <<inputs, cmds, downVars, removals, callVars>>

\* track_removal: the registry claims a task that is still registered; a
\* removal that finds the gate closed may fail.  The result is only reported.
RemovalResult(i) ==
    /\ loop = "running" /\ i \in removals
    /\ removals' = removals \ {i}
    /\ \/ reg' = [reg EXCEPT ![i] = IF @ = "live" THEN "removing" ELSE @]
       \/ gate = "closed" /\ UNCHANGED reg
    /\ UNCHANGED <<inputs, cmds, downVars, fate, slotVars, waitVars, admissions, completions, callVars>>

\* The registry decides a tracked remove (which answers at once) or cancel
\* (which waits); a fail-fast variant, or a closed gate, ends in an error.
IdentityDecided(c) ==
    /\ loop = "running" /\ caller[c] = "tracked" /\ reg[target[c]] # "queued"
    /\ LET i == target[c]
       IN \/ /\ reg[i] = "live" /\ reg' = [reg EXCEPT ![i] = "removing"]
             /\ Answer(c, "true") \/ Answer(c, "claimed")
          \/ reg[i] = "removing" /\ Answer(c, "joined") /\ UNCHANGED reg
          \/ reg[i] # "live" /\ Answer(c, "false") /\ UNCHANGED reg
          \/ Answer(c, "error") /\ UNCHANGED reg
    /\ UNCHANGED <<inputs, cmds, downVars, fate, slotVars, waitVars, admissions, trackVars, target>>

\* A cancel returns after registry cleanup, or times out.
CancelReturned(c) ==
    /\ loop = "running" /\ caller[c] \in {"claimed", "joined"}
    /\ \/ /\ reg[target[c]] \in {"released", "gone"}
          /\ Answer(c, IF caller[c] = "claimed" THEN "true" ELSE "false")
       \/ Answer(c, "error")
    /\ UNCHANGED <<inputs, cmds, downVars, fate, slotVars, waitVars, admissions, trackVars, reg, target>>

-----------------------------------------------------------------------------
(* The registry, as far as the controller can tell.                        *)

RegistryStep(i, from, to) ==
    /\ reg[i] \in from /\ reg' = [reg EXCEPT ![i] = to]
    /\ UNCHANGED <<inputs, cmds, downVars, fate, slotVars, waitVars, admissions, trackVars, callVars>>

\* The listener accepts or rejects a committed Add.
RegistryDecides(i) == RegistryStep(i, {"queued"}, "live") \/ RegistryStep(i, {"queued"}, "rejected")

\* The task exits, or another handle removes it.
RegistryClaims(i) == RegistryStep(i, {"live"}, "removing")

\* Cleanup ends with the attempt released, or with a force-aborted attempt
\* that outlives it for a while.
RegistryCleansUp(i) ==
    RegistryStep(i, {"removing"}, "released") \/ RegistryStep(i, {"removing", "released"}, "gone")

-----------------------------------------------------------------------------
(* Shutdown.                                                               *)

\* begin_shutdown closes the admission gate, then cancels shutdown_started.
CloseGate ==
    /\ gate = "open" /\ gate' = "closed"
    /\ UNCHANGED <<inputs, cmds, loop, token, fate, slotVars, waitVars, admissions, trackVars, reg, callVars>>

CancelStarted ==
    /\ gate = "closed" /\ ~token /\ token' = TRUE
    /\ UNCHANGED <<inputs, cmds, loop, gate, fate, slotVars, waitVars, admissions, trackVars, reg, callVars>>

\* Mutant: the callers of dropped operations are never answered.
LoopExitSilent ==
    /\ loop = "running" /\ token
    /\ loop' = "draining" /\ pump' = <<>>
    /\ admissions' = {} /\ completions' = {} /\ removals' = {}
    /\ UNCHANGED <<inputs, cmds, gate, token, fate, slotVars, capacity, reg, callVars>>

\* The loop breaks: intake closes and the tracked operations are dropped,
\* each answering its caller from the reply's destructor.
LoopExit ==
    /\ loop = "running" /\ token
    /\ loop' = "draining" /\ pump' = <<>>
    /\ admissions' = {} /\ completions' = {} /\ removals' = {}
    /\ caller' = [c \in Callers |-> IF c \in Tracked THEN "error" ELSE caller[c]]
    /\ UNCHANGED <<inputs, cmds, gate, token, fate, slotVars, capacity, reg, target>>

\* drain_pending_on_shutdown, one buffered command.
DrainCommand ==
    /\ loop = "draining" /\ cmds # <<>> /\ cmds' = Tail(cmds)
    /\ \/ /\ Head(cmds).op = "submit"
          /\ fate' = [fate EXCEPT ![Head(cmds).id] = "ControllerShuttingDown"] /\ UNCHANGED caller
       \/ Head(cmds).op = "manage" /\ Answer(Head(cmds).by, "error") /\ UNCHANGED fate
    /\ UNCHANGED <<inputs, downVars, slotVars, waitVars, admissions, trackVars, reg, target>>

\* finalize_slot_state_on_shutdown: capacity waiters, queues and whatever
\* watcher is left are rejected, and the indexes cleared.
FinalizeSlotState ==
    /\ loop = "draining" /\ cmds = <<>> /\ loop' = "done"
    /\ fate' = Rejecting(fate, {i \in Ids : fate[i] = "controller"}, "ControllerShuttingDown")
    /\ slots' = [s \in Slots |-> Absent] /\ queue' = [s \in Slots |-> <<>>]
    /\ indexed' = {} /\ capacity' = {}
    /\ UNCHANGED <<inputs, cmds, gate, token, pump, admissions, trackVars, reg, callVars>>

Terminated == loop = "done" /\ UNCHANGED vars

-----------------------------------------------------------------------------
ControllerStep ==
    \/ HandleSubmission \/ HandleIdentity \/ CapacityResult
    \/ \E i \in Ids : AdmissionResult(i) \/ CompletionResult(i) \/ RemovalResult(i)
    \/ \E c \in Callers : IdentityDecided(c) \/ CancelReturned(c)
    \/ LoopExit \/ DrainCommand \/ FinalizeSlotState

Environment ==
    \/ \E i \in Ids : Submit(i) \/ RegistryDecides(i) \/ RegistryClaims(i) \/ RegistryCleansUp(i)
    \/ \E c \in Callers, i \in Ids : Manage(c, i)
    \/ CloseGate \/ CancelStarted

ControllerNext == ControllerStep \/ Environment \/ Terminated
ControllerSpec == ControllerInit /\ [][ControllerNext]_vars

-----------------------------------------------------------------------------
(* Fairness.  select! polls its branches in random order and a burst of    *)
(* results lets a waiting command in, so a branch that stays ready is      *)
(* taken.  The registry decides every Add, and a task being removed leaves *)
(* its attempt in the end; nothing else is assumed of a task.  Each of     *)
(* these steps is taken finitely often: fairness of their union is         *)
(* fairness of each.                                                       *)

ControllerFairness ==
    WF_vars(\/ HandleSubmission \/ HandleIdentity \/ CapacityResult
            \/ LoopExit \/ DrainCommand \/ FinalizeSlotState \/ CancelStarted
            \/ \E i \in Ids :
                 \/ AdmissionResult(i) \/ CompletionResult(i) \/ RemovalResult(i)
                 \/ RegistryDecides(i)
                 \/ RegistryStep(i, {"removing", "released"}, "gone"))

ControllerFairSpec == ControllerSpec /\ ControllerFairness

-----------------------------------------------------------------------------
(* Properties.                                                             *)

\* A slot serves one task at a time: no two submissions of a slot are, at
\* once, waiting for registry capacity, in the registry, or physically alive
\* after the registry forgot them (start_in_slot, handle_completion_result).
SlotExclusive ==
    \A i, j \in Ids : i # j /\ slotOf[i] = slotOf[j] =>
        ~(/\ i \in capacity \/ reg[i] \in {"queued", "live", "removing", "released"}
          /\ j \in capacity \/ reg[j] \in {"queued", "live", "removing", "released"})

\* Every submission the controller took is in exactly one place, the
\* watcher and both indexes agree on which, and the loop ends holding none.
NothingLost ==
    /\ \A s \in Slots : \A m, n \in DOMAIN queue[s] :
          /\ slotOf[queue[s][m]] = s
          /\ queue[s][m] = queue[s][n] => m = n
    /\ indexed = UNION {ToSet(queue[s]) : s \in Slots}
    /\ indexed \cap capacity = {}
    /\ {i \in Ids : fate[i] = "controller"} = indexed \cup capacity
    /\ {i \in Ids : fate[i] = "command"} =
          {i \in Ids : [op |-> "submit", id |-> i] \in ToSet(cmds)}
    /\ loop = "running" => ToSet(pump) = capacity /\ Len(pump) = Cardinality(capacity)

\* Types, and the configured budgets: they hold whatever the mix of queue pushes, head
\* replacements and capacity waits; a replacement may be the one entry of a
\* queue whose limit is zero.
WithinBudgets ==
    /\ ControllerTypeOK
    /\ Cardinality(indexed) + Cardinality(capacity) <= MaxPending
    /\ Cardinality(Present) <= MaxSlots
    /\ Len(pump) <= AdmissionCap
    /\ Cardinality(Tracked) <= IdentityCap
    /\ \A s \in Slots : Len(queue[s]) <= MaxSlotQueue \/ Len(queue[s]) = 1

\* No slot waits for nothing.  An occupied slot has exactly one result on
\* its way that will move it on, of the kind its phase waits for; while
\* admission is open a slot is in the map only to serve an owner, so a queue
\* never waits behind nobody and an unused name is collected.  Only the head
\* of a queue can be a replacement (the latest one wins), and while it waits
\* there the owner it replaces is on its way out.
SlotsMoveOn ==
    /\ loop = "running" => \A s \in Slots :
          LET o == slots[s].owner
          IN /\ slots[s].phase \in {"admitting", "cancelPending"} =>
                   /\ slotOf[o] = s /\ o \notin completions
                   /\ (o \in capacity) # (o \in admissions)
             /\ slots[s].phase \in {"running", "terminating"} =>
                   /\ slotOf[o] = s /\ o \in completions
                   /\ o \notin capacity \cup admissions
             /\ Vacant(s) => \A i \in capacity \cup admissions \cup completions : slotOf[i] # s
    /\ gate = "open" => \A s \in Slots :
          /\ slots[s].phase # "idle"
          /\ queue[s] # <<>> => slots[s].phase # "absent"
    /\ \A s \in Slots : \A m \in DOMAIN queue[s] :
          policy[queue[s][m]] = "Replace" =>
              /\ m = 1
              /\ slots[s].phase \in {"cancelPending", "terminating"} \/ gate = "closed"

\* What a caller of remove or cancel was told is so: "true" to one caller
\* per task, which was then rejected unrun or is being removed; "false" only
\* if the task was already on its way out or had been turned away.
AnswersHonest ==
    \A c \in Callers :
        LET i == target[c]
        IN /\ caller[c] = "true" =>
                 /\ fate[i] = "RemovedFromQueue" \/ reg[i] \in {"removing", "released", "gone"}
                 /\ \A d \in Callers : caller[d] = "true" /\ target[d] = i => d = c
           /\ caller[c] = "false" =>
                 fate[i] \in Kinds \/ reg[i] \in {"rejected", "removing", "released", "gone"}

VerdictsKept == \A i \in Ids : fate[i] \in Kinds \cup {"registry"} => fate'[i] = fate[i]

\* A submission is rejected by the controller or handed to the registry,
\* once: a rejected one never reaches the registry and is never told twice.
VerdictIsFinal == [][VerdictsKept]_vars

\* A displaced owner gives up its slot, also when it was displaced while its
\* admission was undecided, unless shutdown takes over.
ReplacedOwnerLeaves ==
    []<>(gate = "closed" \/ \A s \in Slots : slots[s].phase \notin {"cancelPending", "terminating"})

\* Shutdown ends the loop with every accepted submission and every accepted
\* remove or cancel answered or in the registry's hands.
ShutdownResolves ==
    (gate = "closed") ~> (/\ loop = "done"
                          /\ \A i \in Ids : fate[i] \notin {"command", "controller"}
                          /\ \A c \in Callers : caller[c] \in {"idle", "true", "false", "error"})
=============================================================================
