------------------------------ MODULE Registry ------------------------------
(***************************************************************************)
(* The task registry of taskvisor (src/src/core/registry): one listener    *)
(* task that decides management commands in queue order, the two           *)
(* membership indexes behind one RwLock, the removal owners that join a    *)
(* claimed actor and commit its terminal state, the actor tasks, the       *)
(* reaper that keeps a force-aborted actor's name until the actor is       *)
(* physically gone, and the shutdown drain that sweeps the registry.       *)
(*                                                                         *)
(* A critical section of a lock is one action; everything the code does    *)
(* between two critical sections is interleaved with every other task.     *)
(***************************************************************************)
EXTENDS Integers, Sequences, FiniteSets

CONSTANTS
    Ids,        \* task identities; each is used by at most one add
    Names,      \* task names
    NameOf,     \* the name each identity is added under
    NoId,       \* "no identity": a name the index does not hold
    Limit,      \* max_registered_tasks
    QueueCap,   \* capacity of the management command queue
    MaxStops    \* bound: remove and cancel commands issued in a behaviour

ASSUME IdsAssumption == IsFiniteSet(Ids) /\ NoId \notin Ids
ASSUME NamesAssumption == NameOf \in [Ids -> Names]
ASSUME LimitAssumption == Limit \in Nat
ASSUME QueueAssumption == QueueCap \in Nat /\ MaxStops \in Nat

VARIABLES
    cmdq, gate, fresh, stops, waiters,        \* callers and the command queue
    mode, lpc, batch, doneq,                  \* the listener task
    fence, sd, deadline, forced, stuck, token,\* the shutdown drain
    entry, byName,                            \* Inner: tasks and by_name
    pending, own, via, join, sawEmpty, cancelled, logical, outcome, \* removal
    actor, result, aborted,                   \* actor tasks
    rec, reserved, active, handing, physical  \* the attempt reaper

callerVars   == <<cmdq, gate, fresh, stops, waiters>>
listenerVars == <<mode, lpc, batch, doneq>>
shutdownVars == <<fence, sd, deadline, forced, stuck, token>>
memberVars   == <<entry, byName>>
removalVars  == <<pending, own, via, join, sawEmpty, cancelled, logical, outcome>>
actorVars    == <<actor, result, aborted>>
reaperVars   == <<rec, reserved, active, handing, physical>>
vars == <<cmdq, gate, fresh, stops, waiters, mode, lpc, batch, doneq,
          fence, sd, deadline, forced, stuck, token, entry, byName,
          pending, own, via, join, sawEmpty, cancelled, logical, outcome,
          actor, result, aborted, rec, reserved, active, handing, physical>>

-----------------------------------------------------------------------------
(* Management commands.  An add carries the whole set it registers: one    *)
(* identity for Add, several for AddBatch.                                 *)

StopOps == {"remove", "cancel"}
Command == [op : {"add"}, ids : SUBSET Ids]
             \cup [op : StopOps, id : Ids]
             \cup [op : StopOps, name : Names]

EntryState == {"absent", "registered", "removing"}

\* A removal owner: claimed and waiting its turn in a sweep, joining the
\* actor, reserving the actor in the reaper, holding a join result, past the
\* membership commit, past the report, past the terminal hand-off, out of the
\* pending count, past the logical latch, finished.
OwnState == {"none", "queued", "join", "abort", "report", "final", "reported",
             "attached", "uncounted", "completed", "done"}

\* An actor task: not spawned, spawned behind the start gate, between
\* attempts, inside a user attempt, result sent, completion sent, exited.
ActorState == {"none", "gated", "live", "body", "sent", "tail", "gone"}

\* A reaper record: absent, neither half, physical half, terminal half.
RecState == {"none", "waiting", "exited", "terminal"}

CallerTypes ==
    /\ cmdq \in Seq(Command)
    /\ gate \in {"open", "closed"}
    /\ fresh \in SUBSET Ids
    /\ stops \in Nat
    /\ waiters \in SUBSET Ids

ListenerTypes ==
    /\ mode \in {"run", "fence", "final", "sweep", "drain", "ended"}
    /\ lpc \in {"idle", "checked", "inserted", "spawned", "inline"}
    /\ batch \in SUBSET Ids
    /\ doneq \in SUBSET Ids

ShutdownTypes ==
    /\ fence \in {"none", "sent", "acked"}
    /\ sd \in {"idle", "fencing", "sweeping", "drained", "skipped",
               "cancelled", "joined", "abandoned"}
    /\ deadline \in BOOLEAN
    /\ forced \in SUBSET Ids
    /\ stuck \in SUBSET Ids
    /\ token \in BOOLEAN

MemberTypes ==
    /\ entry \in [Ids -> EntryState]
    /\ byName \in [Names -> Ids \cup {NoId}]

RemovalTypes ==
    /\ pending \in [Ids -> Nat]
    /\ own \in [Ids -> OwnState]
    /\ via \in [Ids -> {"none", "detached", "inline", "sweep"}]
    /\ join \in [Ids -> {"none", "joined", "forced"}]
    /\ sawEmpty \in [Ids -> BOOLEAN]
    /\ cancelled \in [Ids -> BOOLEAN]
    /\ logical \in [Ids -> BOOLEAN]
    /\ outcome \in [Ids -> {"none", "rejected", "exit", "aborted"}]

ActorTypes ==
    /\ actor \in [Ids -> ActorState]
    /\ result \in [Ids -> BOOLEAN]
    /\ aborted \in [Ids -> BOOLEAN]

ReaperTypes ==
    /\ rec \in [Ids -> RecState]
    /\ reserved \in [Names -> SUBSET Ids]
    /\ active \in Nat
    /\ handing \in [Ids -> {"none", "finalizer", "reaper"}]
    /\ physical \in [Ids -> BOOLEAN]

\* Every variable stays in its domain; above all the two counters, pending and
\* the reaper's active count (both unsigned in the code), never pass below zero.
TypeOK ==
    /\ CallerTypes /\ ListenerTypes /\ ShutdownTypes /\ MemberTypes
    /\ RemovalTypes /\ ActorTypes /\ ReaperTypes

Init ==
    /\ cmdq = <<>> /\ gate = "open" /\ fresh = Ids /\ stops = 0 /\ waiters = {}
    /\ mode = "run" /\ lpc = "idle" /\ batch = {} /\ doneq = {}
    /\ fence = "none" /\ sd = "idle" /\ deadline = FALSE
    /\ forced = {} /\ stuck = {} /\ token = FALSE
    /\ entry = [i \in Ids |-> "absent"]
    /\ byName = [n \in Names |-> NoId]
    /\ pending = [i \in Ids |-> 0]
    /\ own = [i \in Ids |-> "none"]
    /\ via = [i \in Ids |-> "none"]
    /\ join = [i \in Ids |-> "none"]
    /\ sawEmpty = [i \in Ids |-> FALSE]
    /\ cancelled = [i \in Ids |-> FALSE]
    /\ logical = [i \in Ids |-> FALSE]
    /\ outcome = [i \in Ids |-> "none"]
    /\ actor = [i \in Ids |-> "none"]
    /\ result = [i \in Ids |-> FALSE]
    /\ aborted = [i \in Ids |-> FALSE]
    /\ rec = [i \in Ids |-> "none"]
    /\ reserved = [n \in Names |-> {}]
    /\ active = 0
    /\ handing = [i \in Ids |-> "none"]
    /\ physical = [i \in Ids |-> FALSE]

Members == {i \in Ids : entry[i] # "absent"}
Drained == \A i \in Ids : pending[i] = 0

\* f with every identity of S mapped to v.
SetAll(f, S, v) == [i \in DOMAIN f |-> IF i \in S THEN v ELSE f[i]]

-----------------------------------------------------------------------------
(* Callers.  A command commits under the admission gate, after its queue   *)
(* slot is reserved; a closed gate refuses it (command_gate.rs).           *)

Commit(c) ==
    /\ gate = "open"
    /\ Len(cmdq) < QueueCap
    /\ cmdq' = Append(cmdq, c)

SubmitAdd(B) ==
    /\ B # {} /\ B \subseteq fresh
    /\ Commit([op |-> "add", ids |-> B])
    /\ fresh' = fresh \ B
    /\ UNCHANGED <<gate, stops, waiters>>
    /\ UNCHANGED <<listenerVars, shutdownVars, memberVars, removalVars, actorVars, reaperVars>>

\* remove and cancel name a task that was submitted before, or any name.
SubmitStop(c) ==
    /\ stops < MaxStops
    /\ Commit(c)
    /\ stops' = stops + 1
    /\ UNCHANGED <<gate, fresh, waiters>>
    /\ UNCHANGED <<listenerVars, shutdownVars, memberVars, removalVars, actorVars, reaperVars>>

-----------------------------------------------------------------------------
(* The removal claim, made while the state lock is held.                   *)

\* claim_registered: the handle leaves the entry, the entry is removing and
\* the owner is counted before the lock is released.  S is the set claimed,
\* v the way it is joined, s the owner's first state, C the tasks cancelled.
Claim(S, v, s, C) ==
    /\ entry' = SetAll(entry, S, "removing")
    /\ pending' = [i \in Ids |-> IF i \in S THEN pending[i] + 1 ELSE pending[i]]
    /\ own' = SetAll(own, S, s)
    /\ via' = SetAll(via, S, v)
    /\ cancelled' = SetAll(cancelled, C, TRUE)
    /\ UNCHANGED <<byName, join, sawEmpty, logical, outcome>>

Claimable(S) == {i \in S : entry[i] = "registered"}

-----------------------------------------------------------------------------
(* The listener task.                                                      *)

\* The loop, a fence and the final drain all take commands the same way.
Taking == lpc = "idle" /\ mode \in {"run", "fence", "final"} /\ cmdq # <<>>

\* Mutant: the reaper's name reservations are not consulted.
ConflictsIgnoringReaper(B) ==
    \/ \E i, j \in B : i # j /\ NameOf[i] = NameOf[j]
    \/ \E i \in B : byName[NameOf[i]] # NoId

Conflicts(B) ==
    \/ \E i, j \in B : i # j /\ NameOf[i] = NameOf[j]
    \/ \E i \in B : byName[NameOf[i]] # NoId \/ reserved[NameOf[i]] # {}

\* Mutant: force-aborted attempts are not counted.
OverLimitMembersOnly(B) == Cardinality(Members) + Cardinality(B) > Limit

\* registered_limit_exceeded: members and force-aborted attempts are counted
\* apart, so an attempt that is both for a moment is counted twice.
OverLimit(B) == Cardinality(Members) + active + Cardinality(B) > Limit

Reject(B) ==
    /\ outcome' = SetAll(outcome, B, "rejected")
    /\ UNCHANGED <<pending, own, via, join, sawEmpty, cancelled, logical>>

\* Mutant: the early rejection forgets to return.
LTakeAddNoReturn ==
    /\ Taking /\ Head(cmdq).op = "add"
    /\ cmdq' = Tail(cmdq)
    /\ LET B == Head(cmdq).ids IN
         /\ IF Conflicts(B) \/ OverLimit(B) THEN Reject(B) ELSE UNCHANGED removalVars
         /\ lpc' = "checked" /\ batch' = B
    /\ UNCHANGED <<gate, fresh, stops, waiters, mode, doneq>>
    /\ UNCHANGED <<shutdownVars, memberVars, actorVars, reaperVars>>

\* First half of spawn_and_register: the check under the read lock.
LTakeAdd ==
    /\ Taking /\ Head(cmdq).op = "add"
    /\ cmdq' = Tail(cmdq)
    /\ LET B == Head(cmdq).ids IN
         IF Conflicts(B) \/ OverLimit(B)
           THEN Reject(B) /\ UNCHANGED <<lpc, batch>>
           ELSE lpc' = "checked" /\ batch' = B /\ UNCHANGED removalVars
    /\ UNCHANGED <<gate, fresh, stops, waiters, mode, doneq>>
    /\ UNCHANGED <<shutdownVars, memberVars, actorVars, reaperVars>>

\* Second half: the check repeated under the write lock, then both indexes.
LInsert ==
    /\ lpc = "checked"
    /\ IF Conflicts(batch) \/ OverLimit(batch)
         THEN /\ Reject(batch)
              /\ lpc' = "idle" /\ batch' = {}
              /\ UNCHANGED memberVars
         ELSE /\ entry' = SetAll(entry, batch, "registered")
              /\ byName' = [n \in Names |->
                              IF \E i \in batch : NameOf[i] = n
                                THEN CHOOSE i \in batch : NameOf[i] = n
                                ELSE byName[n]]
              /\ lpc' = "inserted"
              /\ UNCHANGED <<batch, removalVars>>
    /\ UNCHANGED <<mode, doneq>>
    /\ UNCHANGED <<callerVars, shutdownVars, actorVars, reaperVars>>

\* TaskAdded, the reply, then schedule / schedule_batch.
LSpawn ==
    /\ lpc = "inserted"
    /\ actor' = SetAll(actor, batch, "gated")
    /\ lpc' = "spawned"
    /\ UNCHANGED <<mode, batch, doneq, result, aborted>>
    /\ UNCHANGED <<callerVars, shutdownVars, memberVars, removalVars, reaperVars>>

\* start_tx.send_replace(true): the shared start gate of the whole batch.
LOpen ==
    /\ lpc = "spawned"
    /\ actor' = [i \in Ids |-> IF i \in batch /\ actor[i] = "gated"
                                 THEN "live" ELSE actor[i]]
    /\ lpc' = "idle" /\ batch' = {}
    /\ UNCHANGED <<mode, doneq, result, aborted>>
    /\ UNCHANGED <<callerVars, shutdownVars, memberVars, removalVars, reaperVars>>

\* The identity a remove or cancel resolves to under the state lock.
Target(c) == IF "id" \in DOMAIN c THEN {c.id} ELSE {byName[c.name]} \ {NoId}

\* Mutant: a cancel of an identity that is no member is given a completion.
LStopUnknown ==
    /\ Taking /\ Head(cmdq).op \in StopOps
    /\ cmdq' = Tail(cmdq)
    /\ LET c == Head(cmdq)
           T == Target(c)
           S == Claimable(T)
       IN /\ Claim(S, "detached", "join", S)
          /\ waiters' = IF c.op = "cancel" THEN waiters \cup T ELSE waiters
    /\ UNCHANGED <<gate, fresh, stops>>
    /\ UNCHANGED <<listenerVars, shutdownVars, actorVars, reaperVars>>

\* remove_task, remove_task_by_name, cancel_task, cancel_task_by_name: the
\* winner cancels the token and spawns a detached join; a cancel that finds
\* a member, claimed or not, hands its caller the completion to wait on.
LStop ==
    /\ Taking /\ Head(cmdq).op \in StopOps
    /\ cmdq' = Tail(cmdq)
    /\ LET c == Head(cmdq)
           T == Target(c)
           S == Claimable(T)
       IN /\ Claim(S, "detached", "join", S)
          /\ waiters' = IF c.op = "cancel" THEN waiters \cup (T \cap Members) ELSE waiters
    /\ UNCHANGED <<gate, fresh, stops>>
    /\ UNCHANGED <<listenerVars, shutdownVars, actorVars, reaperVars>>

\* cleanup_completed_task: a duplicate or stale identity is a no-op; a ready
\* result is joined and committed by the listener itself.
LCompletion(i) ==
    /\ lpc = "idle" /\ mode = "run" /\ i \in doneq
    /\ doneq' = doneq \ {i}
    /\ LET S == Claimable({i})
           inline == S # {} /\ result[i]
       IN /\ Claim(S, IF inline THEN "inline" ELSE "detached", "join", {})
          /\ lpc' = IF inline THEN "inline" ELSE "idle"
          /\ batch' = IF inline THEN {i} ELSE {}
    /\ UNCHANGED mode
    /\ UNCHANGED <<callerVars, shutdownVars, actorVars, reaperVars>>

LInlineDone ==
    /\ lpc = "inline" /\ \A i \in batch : own[i] = "done"
    /\ lpc' = "idle" /\ batch' = {}
    /\ UNCHANGED <<mode, doneq>>
    /\ UNCHANGED <<callerVars, shutdownVars, memberVars, removalVars, actorVars, reaperVars>>

\* handle_control: the fence drains every command visible to it, then replies.
LFenceTake ==
    /\ lpc = "idle" /\ mode = "run" /\ fence = "sent"
    /\ mode' = "fence"
    /\ UNCHANGED <<lpc, batch, doneq>>
    /\ UNCHANGED <<callerVars, shutdownVars, memberVars, removalVars, actorVars, reaperVars>>

\* Mutant: the fence is acknowledged before the queue is drained.
LFenceReplyEarly ==
    /\ lpc = "idle" /\ mode = "fence"
    /\ mode' = "run" /\ fence' = "acked"
    /\ UNCHANGED <<lpc, batch, doneq, sd, deadline, forced, stuck, token>>
    /\ UNCHANGED <<callerVars, memberVars, removalVars, actorVars, reaperVars>>

LFenceReply ==
    /\ lpc = "idle" /\ mode = "fence" /\ cmdq = <<>>
    /\ mode' = "run" /\ fence' = "acked"
    /\ UNCHANGED <<lpc, batch, doneq, sd, deadline, forced, stuck, token>>
    /\ UNCHANGED <<callerVars, memberVars, removalVars, actorVars, reaperVars>>

\* The loop breaks on the runtime token and closes its channels; completion
\* identities still queued are never read.
LBreak ==
    /\ lpc = "idle" /\ mode = "run" /\ token
    /\ mode' = "final" /\ doneq' = {}
    /\ UNCHANGED <<lpc, batch>>
    /\ UNCHANGED <<callerVars, shutdownVars, memberVars, removalVars, actorVars, reaperVars>>

\* Mutant: the final sweep starts with commands still queued.
LSweepEarly ==
    /\ lpc = "idle" /\ mode = "final"
    /\ mode' = "sweep" /\ deadline' = TRUE
    /\ fence' = IF fence = "sent" THEN "acked" ELSE fence
    /\ LET S == Claimable(Ids) IN Claim(S, "sweep", "queued", S)
    /\ UNCHANGED <<lpc, batch, doneq, sd, forced, stuck, token>>
    /\ UNCHANGED <<callerVars, actorVars, reaperVars>>

\* Mutant: the final sweep waits for the actors without a deadline.
LSweepNoDeadline ==
    /\ lpc = "idle" /\ mode = "final" /\ cmdq = <<>>
    /\ mode' = "sweep"
    /\ fence' = IF fence = "sent" THEN "acked" ELSE fence
    /\ LET S == Claimable(Ids) IN Claim(S, "sweep", "queued", S)
    /\ UNCHANGED <<lpc, batch, doneq, sd, deadline, forced, stuck, token>>
    /\ UNCHANGED <<callerVars, actorVars, reaperVars>>

\* After the queued commands: drain controls, then cancel_all_within(ZERO).
LSweep ==
    /\ lpc = "idle" /\ mode = "final" /\ cmdq = <<>>
    /\ mode' = "sweep" /\ deadline' = TRUE
    /\ fence' = IF fence = "sent" THEN "acked" ELSE fence
    /\ LET S == Claimable(Ids) IN Claim(S, "sweep", "queued", S)
    /\ UNCHANGED <<lpc, batch, doneq, sd, forced, stuck, token>>
    /\ UNCHANGED <<callerVars, actorVars, reaperVars>>

\* The identities a cancel_all_within still has to join.
Sweeping == {i \in Ids : via[i] = "sweep" /\ own[i] # "done"}

LSweepDone ==
    /\ mode = "sweep" /\ Sweeping = {}
    /\ mode' = "drain"
    /\ UNCHANGED <<lpc, batch, doneq>>
    /\ UNCHANGED <<callerVars, shutdownVars, memberVars, removalVars, actorVars, reaperVars>>

\* Mutant: the listener does not wait for the detached owners.
LEndUndrained ==
    /\ mode = "drain"
    /\ mode' = "ended"
    /\ UNCHANGED <<lpc, batch, doneq>>
    /\ UNCHANGED <<callerVars, shutdownVars, memberVars, removalVars, actorVars, reaperVars>>

LEnd ==
    /\ mode = "drain" /\ Drained
    /\ mode' = "ended"
    /\ UNCHANGED <<lpc, batch, doneq>>
    /\ UNCHANGED <<callerVars, shutdownVars, memberVars, removalVars, actorVars, reaperVars>>

-----------------------------------------------------------------------------
(* Removal owners: detached reporters, the listener inline, and the two    *)
(* sweeps.  A sweep joins its identities one after another.                *)

OwnStep(i, from, to) == own[i] = from /\ own' = [own EXCEPT ![i] = to]

SweepNext(i) ==
    /\ OwnStep(i, "queued", "join")
    /\ \A j \in Sweeping : own[j] = "queued"
    /\ UNCHANGED <<pending, via, join, sawEmpty, cancelled, logical, outcome>>
    /\ UNCHANGED <<callerVars, listenerVars, shutdownVars, memberVars, actorVars, reaperVars>>

\* Mutant: the join resolves on the result, not on the physical exit.
JoinExitOnResult(i) ==
    /\ result[i] \/ actor[i] = "gone"
    /\ OwnStep(i, "join", "report")
    /\ join' = [join EXCEPT ![i] = "joined"]
    /\ UNCHANGED <<pending, via, sawEmpty, cancelled, logical, outcome>>
    /\ UNCHANGED <<callerVars, listenerVars, shutdownVars, memberVars, actorVars, reaperVars>>

\* The tokio task has exited: the join resolves with whatever it sent.
JoinExit(i) ==
    /\ actor[i] = "gone"
    /\ OwnStep(i, "join", "report")
    /\ join' = [join EXCEPT ![i] = "joined"]
    /\ UNCHANGED <<pending, via, sawEmpty, cancelled, logical, outcome>>
    /\ UNCHANGED <<callerVars, listenerVars, shutdownVars, memberVars, actorVars, reaperVars>>

\* Mutant: a detached reporter joins without a grace deadline.
GraceOverSweepsOnly(i) == via[i] = "sweep" /\ deadline

\* A detached reporter gives up when its own grace sleep fires or the runtime
\* token is cancelled; a sweep gives up at its shared deadline; the inline
\* join of a ready result has no deadline.
GraceOver(i) == via[i] = "detached" \/ (via[i] = "sweep" /\ deadline)

\* Mutant: the record is registered without its name activity.
AbortReserveNoName(i) ==
    /\ GraceOver(i)
    /\ join' = [join EXCEPT ![i] = "forced"]
    /\ IF actor[i] = "none"
         THEN OwnStep(i, "join", "report") /\ UNCHANGED rec
         ELSE /\ OwnStep(i, "join", "abort")
              /\ rec' = [rec EXCEPT ![i] = "waiting"]
    /\ forced' = IF via[i] = "sweep" /\ mode # "sweep" THEN forced \cup {i} ELSE forced
    /\ UNCHANGED <<pending, via, sawEmpty, cancelled, logical, outcome, reserved>>
    /\ UNCHANGED <<active, handing, physical, fence, sd, deadline, stuck, token>>
    /\ UNCHANGED <<callerVars, listenerVars, memberVars, actorVars>>

\* ActorHandle::abort, first half: AttemptReaper::register under the reaper
\* lock.  A handle whose actor was never spawned has nothing to reserve.
AbortReserve(i) ==
    /\ GraceOver(i)
    /\ join' = [join EXCEPT ![i] = "forced"]
    /\ IF actor[i] = "none"
         THEN OwnStep(i, "join", "report") /\ UNCHANGED <<rec, reserved>>
         ELSE /\ OwnStep(i, "join", "abort")
              /\ rec' = [rec EXCEPT ![i] = "waiting"]
              /\ reserved' = [reserved EXCEPT ![NameOf[i]] = @ \cup {i}]
    /\ forced' = IF via[i] = "sweep" /\ mode # "sweep" THEN forced \cup {i} ELSE forced
    /\ UNCHANGED <<pending, via, sawEmpty, cancelled, logical, outcome>>
    /\ UNCHANGED <<active, handing, physical, fence, sd, deadline, stuck, token>>
    /\ UNCHANGED <<callerVars, listenerVars, memberVars, actorVars>>

\* Mutant: the attempt is never counted.
AbortUncounted(i) ==
    /\ OwnStep(i, "abort", "report")
    /\ aborted' = [aborted EXCEPT ![i] = TRUE]
    /\ UNCHANGED <<pending, via, join, sawEmpty, cancelled, logical, outcome>>
    /\ UNCHANGED <<rec, reserved, active, handing, physical, actor, result>>
    /\ UNCHANGED <<callerVars, listenerVars, shutdownVars, memberVars>>

\* Second half: the active count, JoinHandle::abort, submit_reap.
AbortCount(i) ==
    /\ OwnStep(i, "abort", "report")
    /\ active' = active + 1
    /\ aborted' = [aborted EXCEPT ![i] = TRUE]
    /\ UNCHANGED <<pending, via, join, sawEmpty, cancelled, logical, outcome>>
    /\ UNCHANGED <<rec, reserved, handing, physical, actor, result>>
    /\ UNCHANGED <<callerVars, listenerVars, shutdownVars, memberVars>>

\* Mutant: emptiness is observed before the entry is removed.
CommitRemovalEarlyEmpty(i) ==
    /\ OwnStep(i, "report", "final")
    /\ entry' = [entry EXCEPT ![i] = "absent"]
    /\ byName' = IF byName[NameOf[i]] = i
                   THEN [byName EXCEPT ![NameOf[i]] = NoId] ELSE byName
    /\ sawEmpty' = [sawEmpty EXCEPT ![i] = Members = {}]
    /\ UNCHANGED <<pending, via, join, cancelled, logical, outcome>>
    /\ UNCHANGED <<callerVars, listenerVars, shutdownVars, actorVars, reaperVars>>

\* PendingTerminalReport::commit: both indexes under the write lock.  Without
\* a removing entry the report only retains its terminal bundle.
CommitRemoval(i) ==
    /\ OwnStep(i, "report", "final")
    /\ IF entry[i] = "removing"
         THEN /\ entry' = [entry EXCEPT ![i] = "absent"]
              /\ byName' = IF byName[NameOf[i]] = i
                             THEN [byName EXCEPT ![NameOf[i]] = NoId] ELSE byName
              /\ sawEmpty' = [sawEmpty EXCEPT ![i] = Members \ {i} = {}]
         ELSE UNCHANGED <<entry, byName, sawEmpty>>
    /\ UNCHANGED <<pending, via, join, cancelled, logical, outcome>>
    /\ UNCHANGED <<callerVars, listenerVars, shutdownVars, actorVars, reaperVars>>

\* report_outcome with outcome_of: TaskFinished, the watched outcome, TaskRemoved.
Report(i) ==
    /\ OwnStep(i, "final", "reported")
    /\ outcome' = [outcome EXCEPT ![i] =
                     IF join[i] = "joined" /\ result[i] THEN "exit" ELSE "aborted"]
    /\ UNCHANGED <<pending, via, join, sawEmpty, cancelled, logical>>
    /\ UNCHANGED <<callerVars, listenerVars, shutdownVars, memberVars, actorVars, reaperVars>>

\* take_ready_record: record and name reservation leave under the reaper lock.
TakeReady(i, who) ==
    /\ rec' = [rec EXCEPT ![i] = "none"]
    /\ reserved' = [reserved EXCEPT ![NameOf[i]] = @ \ {i}]
    /\ handing' = [handing EXCEPT ![i] = who]

\* Mutant: the physical latch is completed with the terminal hand-off.
AttachTerminalReleases(i) ==
    /\ OwnStep(i, "reported", "attached")
    /\ physical' = [physical EXCEPT ![i] = TRUE]
    /\ CASE rec[i] = "none" -> UNCHANGED <<rec, reserved, handing>>
         [] rec[i] = "exited" -> TakeReady(i, "finalizer")
         [] OTHER -> rec' = [rec EXCEPT ![i] = "terminal"] /\ UNCHANGED <<reserved, handing>>
    /\ UNCHANGED <<pending, via, join, sawEmpty, cancelled, logical, outcome, active>>
    /\ UNCHANGED <<callerVars, listenerVars, shutdownVars, memberVars, actorVars>>

\* TerminalFinalizer, attach_terminal: no record means nothing to wait for.
AttachTerminal(i) ==
    /\ OwnStep(i, "reported", "attached")
    /\ CASE rec[i] = "none" ->
              /\ physical' = [physical EXCEPT ![i] = TRUE]
              /\ UNCHANGED <<rec, reserved, handing>>
         [] rec[i] = "exited" -> TakeReady(i, "finalizer") /\ UNCHANGED physical
         [] OTHER ->
              /\ rec' = [rec EXCEPT ![i] = "terminal"]
              /\ UNCHANGED <<reserved, handing, physical>>
    /\ UNCHANGED <<pending, via, join, sawEmpty, cancelled, logical, outcome, active>>
    /\ UNCHANGED <<callerVars, listenerVars, shutdownVars, memberVars, actorVars>>

\* submit_ready: the bundle goes to deferred cleanup, the attempt leaves the
\* count, and only then are the physical latches completed.
SubmitReady(i) ==
    /\ handing[i] # "none"
    /\ handing' = [handing EXCEPT ![i] = "none"]
    /\ active' = active - 1
    /\ physical' = [physical EXCEPT ![i] = TRUE]
    /\ UNCHANGED <<rec, reserved>>
    /\ UNCHANGED <<callerVars, listenerVars, shutdownVars, memberVars, removalVars, actorVars>>

\* The rest of TerminalFinalizer::drop, in three steps.  PendingJoins::dec under
\* its own lock: the last of them lets shutdown and the listener go on.
DecPending(i) ==
    /\ handing[i] # "finalizer"
    /\ OwnStep(i, "attached", "uncounted")
    /\ pending' = [pending EXCEPT ![i] = @ - 1]
    /\ UNCHANGED <<via, join, sawEmpty, cancelled, logical, outcome>>
    /\ UNCHANGED <<callerVars, listenerVars, shutdownVars, memberVars, actorVars, reaperVars>>

\* complete_logical: the cancel callers of i are answered.
CompleteLogical(i) ==
    /\ OwnStep(i, "uncounted", "completed")
    /\ logical' = [logical EXCEPT ![i] = TRUE]
    /\ UNCHANGED <<pending, via, join, sawEmpty, cancelled, outcome>>
    /\ UNCHANGED <<callerVars, listenerVars, shutdownVars, memberVars, actorVars, reaperVars>>

\* empty_notify, if the commit left no member; RegistryWaiter has its waiter.
NotifyEmpty(i) ==
    /\ OwnStep(i, "completed", "done")
    /\ UNCHANGED <<pending, via, join, sawEmpty, cancelled, logical, outcome>>
    /\ UNCHANGED <<callerVars, listenerVars, shutdownVars, memberVars, actorVars, reaperVars>>

\* Mutant: the physical half arriving last does not complete the record.
ReapUnmatched(i) ==
    /\ aborted[i] /\ actor[i] = "gone" /\ rec[i] \in {"waiting", "terminal"}
    /\ rec' = [rec EXCEPT ![i] = "exited"]
    /\ UNCHANGED <<reserved, handing, active, physical>>
    /\ UNCHANGED <<callerVars, listenerVars, shutdownVars, memberVars, removalVars, actorVars>>

\* Mutant: the reservation ends with the terminal half, exited or not.
ReapEager(i) ==
    /\ aborted[i] /\ rec[i] \in {"waiting", "terminal"}
    /\ rec[i] = "waiting" => actor[i] = "gone"
    /\ IF rec[i] = "terminal"
         THEN TakeReady(i, "reaper")
         ELSE rec' = [rec EXCEPT ![i] = "exited"] /\ UNCHANGED <<reserved, handing>>
    /\ UNCHANGED <<active, physical>>
    /\ UNCHANGED <<callerVars, listenerVars, shutdownVars, memberVars, removalVars, actorVars>>

\* The reaper's future for i: physical exit observed, then complete_physical.
Reap(i) ==
    /\ aborted[i] /\ actor[i] = "gone" /\ rec[i] \in {"waiting", "terminal"}
    /\ IF rec[i] = "terminal"
         THEN TakeReady(i, "reaper")
         ELSE rec' = [rec EXCEPT ![i] = "exited"] /\ UNCHANGED <<reserved, handing>>
    /\ UNCHANGED <<active, physical>>
    /\ UNCHANGED <<callerVars, listenerVars, shutdownVars, memberVars, removalVars, actorVars>>

-----------------------------------------------------------------------------
(* Actor tasks.  Only the attempts' edges matter here; the restart loop is *)
(* the subject of TaskActor.                                               *)

ActorStep(i, from, to) == actor[i] = from /\ actor' = [actor EXCEPT ![i] = to]

\* The task token is a child of the runtime token.
StartAttempt(i) ==
    /\ ~cancelled[i] /\ ~token
    /\ ActorStep(i, "live", "body")
    /\ UNCHANGED <<result, aborted>>
    /\ UNCHANGED <<callerVars, listenerVars, shutdownVars, memberVars, removalVars, reaperVars>>

EndAttempt(i) ==
    /\ ActorStep(i, "body", "live")
    /\ UNCHANGED <<result, aborted>>
    /\ UNCHANGED <<callerVars, listenerVars, shutdownVars, memberVars, removalVars, reaperVars>>

\* The actor returns its exit reason and sends it on the result channel.
SendResult(i) ==
    /\ ActorStep(i, "live", "sent")
    /\ result' = [result EXCEPT ![i] = TRUE]
    /\ UNCHANGED aborted
    /\ UNCHANGED <<callerVars, listenerVars, shutdownVars, memberVars, removalVars, reaperVars>>

\* completion_tx.send(id): lost once the listener has closed the channel.
SendCompletion(i) ==
    /\ ActorStep(i, "sent", "tail")
    /\ doneq' = IF mode \in {"run", "fence"} THEN doneq \cup {i} ELSE doneq
    /\ UNCHANGED <<result, aborted, mode, lpc, batch>>
    /\ UNCHANGED <<callerVars, shutdownVars, memberVars, removalVars, reaperVars>>

TaskExit(i) ==
    /\ ActorStep(i, "tail", "gone")
    /\ UNCHANGED <<result, aborted>>
    /\ UNCHANGED <<callerVars, listenerVars, shutdownVars, memberVars, removalVars, reaperVars>>

\* Tokio drops an aborted task when its current poll returns.
DropAborted(i) ==
    /\ aborted[i] /\ actor[i] \in {"gated", "live", "body"}
    /\ actor' = [actor EXCEPT ![i] = "gone"]
    /\ UNCHANGED <<result, aborted>>
    /\ UNCHANGED <<callerVars, listenerVars, shutdownVars, memberVars, removalVars, reaperVars>>

-----------------------------------------------------------------------------
(* The shutdown drain (core/runtime/shutdown_workflow/cleanup.rs).         *)

\* close_admission_and_fence_registry.
SdFence ==
    /\ sd = "idle"
    /\ sd' = "fencing" /\ gate' = "closed" /\ fence' = "sent"
    /\ UNCHANGED <<cmdq, fresh, stops, waiters, deadline, forced, stuck, token>>
    /\ UNCHANGED <<listenerVars, memberVars, removalVars, actorVars, reaperVars>>

\* Mutant: the sweep does not wait for the fence.
SdSweepUnfenced ==
    /\ sd = "fencing"
    /\ sd' = "sweeping"
    /\ LET S == Claimable(Ids) IN Claim(S, "sweep", "queued", S)
    /\ UNCHANGED <<fence, deadline, forced, stuck, token>>
    /\ UNCHANGED <<callerVars, listenerVars, actorVars, reaperVars>>

\* drain_with_grace: cancel_all_within claims every registered entry.
SdSweep ==
    /\ sd = "fencing" /\ fence = "acked"
    /\ sd' = "sweeping"
    /\ LET S == Claimable(Ids) IN Claim(S, "sweep", "queued", S)
    /\ UNCHANGED <<fence, deadline, forced, stuck, token>>
    /\ UNCHANGED <<callerVars, listenerVars, actorVars, reaperVars>>

\* A signal setup failure fences and skips the drain.
SdSkip ==
    /\ sd = "fencing" /\ fence = "acked"
    /\ sd' = "skipped"
    /\ UNCHANGED <<fence, deadline, forced, stuck, token>>
    /\ UNCHANGED <<callerVars, listenerVars, memberVars, removalVars, actorVars, reaperVars>>

SdDeadline ==
    /\ sd = "sweeping" /\ ~deadline
    /\ deadline' = TRUE
    /\ UNCHANGED <<fence, sd, forced, stuck, token>>
    /\ UNCHANGED <<callerVars, listenerVars, memberVars, removalVars, actorVars, reaperVars>>

\* Mutant: owners still pending at the deadline are left out of the verdict.
SdVerdictForcedOnly ==
    /\ sd = "sweeping" /\ Sweeping = {} /\ (Drained \/ deadline)
    /\ sd' = "drained"
    /\ stuck' = forced
    /\ UNCHANGED <<fence, deadline, forced, token>>
    /\ UNCHANGED <<callerVars, listenerVars, memberVars, removalVars, actorVars, reaperVars>>

\* cancel_all_within returns, wait_joins_within spends what is left of the
\* grace, and the forced and still pending names form the verdict.
SdVerdict ==
    /\ sd = "sweeping" /\ Sweeping = {} /\ (Drained \/ deadline)
    /\ sd' = "drained"
    /\ stuck' = forced \cup {i \in Ids : pending[i] > 0}
    /\ UNCHANGED <<fence, deadline, forced, token>>
    /\ UNCHANGED <<callerVars, listenerVars, memberVars, removalVars, actorVars, reaperVars>>

\* finish_shutdown_cleanup: cancel the runtime token, join the listener.
SdCancelToken ==
    /\ sd \in {"drained", "skipped"}
    /\ sd' = "cancelled" /\ token' = TRUE
    /\ UNCHANGED <<fence, deadline, forced, stuck>>
    /\ UNCHANGED <<callerVars, listenerVars, memberVars, removalVars, actorVars, reaperVars>>

SdJoin ==
    /\ sd = "cancelled" /\ mode = "ended"
    /\ sd' = "joined"
    /\ UNCHANGED <<fence, deadline, forced, stuck, token>>
    /\ UNCHANGED <<callerVars, listenerVars, memberVars, removalVars, actorVars, reaperVars>>

\* SupervisorCore::abandon: the last owner is dropped with no shutdown.
Abandon ==
    /\ sd = "idle"
    /\ sd' = "abandoned" /\ gate' = "closed" /\ token' = TRUE
    /\ UNCHANGED <<cmdq, fresh, stops, waiters, fence, deadline, forced, stuck>>
    /\ UNCHANGED <<listenerVars, memberVars, removalVars, actorVars, reaperVars>>

\* Everything has come to rest: nothing is left to do.
Terminated ==
    /\ mode = "ended" /\ sd \in {"joined", "abandoned"}
    /\ \A i \in Ids : /\ actor[i] \in {"none", "gone"}
                      /\ rec[i] = "none" /\ handing[i] = "none"
    /\ UNCHANGED vars

-----------------------------------------------------------------------------
Callers ==
    \/ \E B \in SUBSET Ids : SubmitAdd(B)
    \/ \E op \in StopOps, i \in Ids \ fresh : SubmitStop([op |-> op, id |-> i])
    \/ \E op \in StopOps, n \in Names : SubmitStop([op |-> op, name |-> n])

Listener ==
    \/ LTakeAdd \/ LInsert \/ LSpawn \/ LOpen \/ LStop
    \/ \E i \in Ids : LCompletion(i)
    \/ LInlineDone \/ LFenceTake \/ LFenceReply \/ LBreak
    \/ LSweep \/ LSweepDone \/ LEnd

Owner(i) ==
    \/ SweepNext(i) \/ JoinExit(i) \/ AbortReserve(i) \/ AbortCount(i)
    \/ CommitRemoval(i) \/ Report(i) \/ AttachTerminal(i)
    \/ DecPending(i) \/ CompleteLogical(i) \/ NotifyEmpty(i)

Reaper(i) == Reap(i) \/ SubmitReady(i)

Actor(i) ==
    \/ StartAttempt(i) \/ EndAttempt(i) \/ SendResult(i)
    \/ SendCompletion(i) \/ TaskExit(i) \/ DropAborted(i)

Shutdown ==
    \/ SdFence \/ SdSweep \/ SdSkip \/ SdDeadline \/ SdVerdict
    \/ SdCancelToken \/ SdJoin \/ Abandon

Next ==
    \/ Callers \/ Listener \/ Shutdown
    \/ \E i \in Ids : Owner(i) \/ Reaper(i) \/ Actor(i)
    \/ Terminated

Spec == Init /\ [][Next]_vars
-----------------------------------------------------------------------------
(* Fairness.  Tokio keeps polling a woken task, and the grace timers fire: *)
(* the listener, the removal owners, the reaper, the shutdown owner and    *)
(* the tail of an actor (which has no await point) always make progress.   *)
(* Nothing is assumed of user attempts: one may run for ever.  Every other *)
(* step is taken finitely often, so fairness of the union is fairness of   *)
(* each part.                                                              *)

Fairness ==
    WF_vars(\/ Listener
            \/ SdSweep \/ SdSkip \/ SdVerdict \/ SdCancelToken \/ SdJoin \/ SdDeadline
            \/ \E i \in Ids : Owner(i) \/ Reaper(i) \/ SendCompletion(i) \/ TaskExit(i))

FairSpec == Spec /\ Fairness

-----------------------------------------------------------------------------
(* Properties.                                                             *)

\* The tokio task of i exists: its user code may be running.
Alive(i) == actor[i] \notin {"none", "gone"}

\* Two actors with one name never exist at the same time, even when the first
\* was force-aborted, logically removed and replaced while its code still ran
\* (single.rs checks the index and the reaper's reservation).
NameExclusive ==
    \A i, j \in Ids : i # j /\ NameOf[i] = NameOf[j] => ~(Alive(i) /\ Alive(j))

\* Every existing actor is owned: by a registry entry, or by a reaper record
\* that still waits for the physical exit.  No abort ever misses its actor.
ActorsOwned ==
    \A i \in Ids : Alive(i) => entry[i] # "absent" \/ rec[i] \in {"waiting", "terminal"}

\* max_registered_tasks bounds members and physically existing actors
\* together, although the two counts are read without a common lock.
WithinLimit == Cardinality({i \in Ids : entry[i] # "absent" \/ Alive(i)}) <= Limit

\* A completed logical latch (what cancel waits for) means the membership is
\* gone, the outcome delivered and the owner released; a completed physical
\* latch (what the controller waits for) means the actor has exited and holds
\* neither its name nor a place in the reaper's count.  A cancel caller never
\* waits on a latch nobody will complete: an owner is still at work on it.
LatchesHonest ==
    \A i \in Ids :
        /\ logical[i] => entry[i] = "absent" /\ outcome[i] # "none" /\ pending[i] = 0
        /\ physical[i] => actor[i] = "gone" /\ i \notin reserved[NameOf[i]]
                            /\ handing[i] = "none"
        /\ i \in waiters /\ ~logical[i] => own[i] \notin {"none", "done"}

\* What a watcher is told is true: a rejected task never had an actor, an exit
\* was reported after the actor physically exited with a result, and a
\* force-abort was really requested of the actor.
OutcomeHonest ==
    \A i \in Ids :
        /\ outcome[i] = "rejected" => actor[i] = "none" /\ entry[i] = "absent"
        /\ outcome[i] = "exit" => actor[i] = "gone" /\ result[i] /\ ~aborted[i]
        /\ outcome[i] = "aborted" => aborted[i]

\* What shutdown concludes is so.  Once the fence is acknowledged every command
\* committed before the gate closed is decided, no admission is half-way, and
\* what was accepted is spawned.  An AllStoppedWithinGrace verdict means no
\* member, no pending owner, every submitted task told its outcome, a cancelled
\* one included whose latch its owner has yet to complete, and only
\* force-aborted actors that may still exist.  And however the listener came to
\* its end, it holds nothing back: no member, no pending owner, no undecided
\* command, no task without its outcome.
VerdictSound ==
    /\ fence = "acked" =>
         /\ cmdq = <<>> /\ lpc \in {"idle", "inline"}
         /\ \A i \in Ids \ fresh : outcome[i] = "rejected" \/ actor[i] # "none"
    /\ (sd = "drained" /\ stuck = {}) \/ mode = "ended" =>
         /\ Members = {} /\ Drained /\ cmdq = <<>>
         /\ \A i \in Ids \ fresh : outcome[i] # "none"
    /\ sd = "drained" /\ stuck = {} =>
         \A i \in Ids : Alive(i) => aborted[i] /\ via[i] = "detached"

\* A terminal outcome is final: it is delivered once, and the identity never
\* becomes a member again.
TerminalIsFinal ==
    [][\A i \in Ids : outcome[i] # "none" =>
         outcome'[i] = outcome[i] /\ entry'[i] = "absent"]_vars

\* Shutdown and abandonment always end the listener, even when an attempt
\* never returns.
ShutdownEnds == sd # "idle" ~> mode = "ended"

\* No request is left open.  Every committed add is decided; every cancel caller
\* is answered, whatever the user attempt does; and once a force-aborted actor
\* is physically gone its name and its physical latch are released, whichever
\* half of its record is last.
RequestsSettle ==
    []<>(\A i \in Ids :
            /\ i \notin fresh => outcome[i] # "none" \/ entry[i] # "absent"
            /\ i \in waiters => logical[i]
            /\ aborted[i] /\ actor[i] = "gone" => physical[i] /\ i \notin reserved[NameOf[i]])
=============================================================================
