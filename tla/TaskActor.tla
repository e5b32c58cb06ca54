------------------------------ MODULE TaskActor ------------------------------
(***************************************************************************)
(* The restart loop of one task and the attempt it runs (core/actor.rs,    *)
(* core/runner.rs), for several actors that share the attempt semaphore.   *)
(* An actor waits for a permit, runs one user attempt with an optional     *)
(* timeout, classifies the result, gives the permit back and then exits,   *)
(* sleeps or starts over.  User code may panic, ignore cancellation, fail  *)
(* in its destructors, and the whole task may be dropped by a force-abort. *)
(***************************************************************************)
EXTENDS Integers, FiniteSets, SequencesExt

CONSTANTS
    Actors,
    Restart,     \* Restart[i]: "never", "onFailure" or "always"
    MaxRetries,  \* MaxRetries[i]: the retry budget, 0 for none
    HasTimeout,  \* HasTimeout[i]: a positive attempt timeout is configured
    Permits,     \* max_concurrent: permits of the shared semaphore
    U32Max       \* the saturation point of the u32 counters

ASSUME ActorAssumption ==
    /\ IsFiniteSet(Actors)
    /\ Permits \in Nat \ {0} /\ U32Max \in Nat \ {0}
    /\ Restart \in [Actors -> {"never", "onFailure", "always"}]
    /\ MaxRetries \in [Actors -> 0..U32Max]
    /\ HasTimeout \in [Actors -> BOOLEAN]

VARIABLES
    pc,        \* where each actor is in its loop
    token,     \* the task's cancellation token
    abort,     \* the tokio task was asked to abort
    child,     \* the attempt's own cancellation token
    permit,    \* the actor holds a permit, or was just granted one
    free,      \* permits nobody holds
    waitq,     \* acquire futures queued on the semaphore
    activity,  \* AttemptActivity: the flag is_alive reads
    future,    \* the user future exists
    attempt,   \* attempts started
    backoff,   \* backoff_attempt
    res,       \* result of the last attempt
    decision,  \* AttemptDecision of the last attempt
    exit,      \* ActorExitReason
    streak     \* history: attempts failed since the start or the last success

actorVars == <<pc, token, abort, child, permit, free, waitq, activity, future,
               attempt, backoff, res, decision, exit, streak>>

Results   == {"none", "ok", "fail", "timeout", "fatal", "canceled", "cleanup"}
Decisions == {"none", "ok", "retry", "final", "panicked"}
Exits     == {"none", "Completed", "Exhausted", "Canceled", "Panicked", "Fatal"}

\* How far the history is kept: past every retry budget.
StreakCap == U32Max + 2

\* Counters stay within u32, the queue holds actors, and the rest is an enumeration.
ActorTypeOK ==
    /\ pc \in [Actors -> {"top", "waiting", "running", "disposing", "classify",
                          "release", "sleep", "unwinding", "guards", "exited", "dropped"}]
    /\ token \in [Actors -> BOOLEAN] /\ abort \in [Actors -> BOOLEAN]
    /\ child \in [Actors -> BOOLEAN] /\ permit \in [Actors -> BOOLEAN]
    /\ free \in 0..Permits
    /\ waitq \in Seq(Actors)
    /\ activity \in [Actors -> BOOLEAN] /\ future \in [Actors -> BOOLEAN]
    /\ attempt \in [Actors -> 0..U32Max] /\ backoff \in [Actors -> 0..U32Max]
    /\ res \in [Actors -> Results] /\ decision \in [Actors -> Decisions]
    /\ exit \in [Actors -> Exits]
    /\ streak \in [Actors -> 0..StreakCap]

ActorInit ==
    /\ pc = [i \in Actors |-> "top"]
    /\ token = [i \in Actors |-> FALSE] /\ abort = [i \in Actors |-> FALSE]
    /\ child = [i \in Actors |-> FALSE] /\ permit = [i \in Actors |-> FALSE]
    /\ free = Permits /\ waitq = <<>>
    /\ activity = [i \in Actors |-> FALSE] /\ future = [i \in Actors |-> FALSE]
    /\ attempt = [i \in Actors |-> 0] /\ backoff = [i \in Actors |-> 0]
    /\ res = [i \in Actors |-> "none"] /\ decision = [i \in Actors |-> "none"]
    /\ exit = [i \in Actors |-> "none"]
    /\ streak = [i \in Actors |-> 0]

\* Mutant: the counters are plain additions.
PlainAdd(x) == x + 1

SaturatingAdd(x) == IF x < U32Max THEN x + 1 ELSE U32Max
Goto(i, l) == pc' = [pc EXCEPT ![i] = l]
Exit(i, reason) == Goto(i, "exited") /\ exit' = [exit EXCEPT ![i] = reason]

-----------------------------------------------------------------------------
(* tokio's fair semaphore (external): a released permit goes to the oldest *)
(* queued acquire, and a dropped acquire gives back what it was granted.   *)

\* The semaphore after i took a free permit or joined the queue.
Acquire(i) ==
    IF free > 0
      THEN /\ free' = free - 1 /\ permit' = [permit EXCEPT ![i] = TRUE]
           /\ UNCHANGED waitq
      ELSE waitq' = Append(waitq, i) /\ UNCHANGED <<free, permit>>

\* The semaphore after i gave its permit back.
ReleasePermit(i) ==
    IF waitq = <<>>
      THEN /\ free' = free + 1 /\ permit' = [permit EXCEPT ![i] = FALSE]
           /\ UNCHANGED waitq
      ELSE /\ permit' = [permit EXCEPT ![i] = FALSE, ![Head(waitq)] = TRUE]
           /\ waitq' = Tail(waitq)
           /\ UNCHANGED free

\* The semaphore after i dropped its acquire future.
DropAcquire(i) ==
    IF permit[i] THEN ReleasePermit(i)
                 ELSE /\ \E k \in 1..Len(waitq) : waitq[k] = i /\ waitq' = RemoveAt(waitq, k)
                      /\ UNCHANGED <<free, permit>>

semaphore == <<free, permit, waitq>>
-----------------------------------------------------------------------------
(* The loop of TaskActor::run.                                             *)

\* The token check at the top, then acquire_owned.
LoopTop(i) ==
    /\ pc[i] = "top"
    /\ IF token[i]
         THEN Exit(i, "Canceled") /\ UNCHANGED semaphore
         ELSE Goto(i, "waiting") /\ Acquire(i) /\ UNCHANGED exit
    /\ UNCHANGED <<token, abort, child, activity, future, attempt, backoff,
                   res, decision, streak>>

\* Mutant: the acquire future outlives a cancelled wait.
WaitCanceledLeaks(i) ==
    /\ pc[i] = "waiting" /\ token[i]
    /\ Exit(i, "Canceled")
    /\ UNCHANGED <<token, abort, child, semaphore, activity, future, attempt,
                   backoff, res, decision, streak>>

\* Mutant: cancellation is noticed by a queued acquire only, not after a grant.
WaitCanceledQueuedOnly(i) ==
    /\ pc[i] = "waiting" /\ token[i] /\ ~permit[i]
    /\ DropAcquire(i)
    /\ Exit(i, "Canceled")
    /\ UNCHANGED <<token, abort, child, activity, future, attempt, backoff,
                   res, decision, streak>>

\* select!: cancellation wins the wait, granted or not.
WaitCanceled(i) ==
    /\ pc[i] = "waiting" /\ token[i]
    /\ DropAcquire(i)
    /\ Exit(i, "Canceled")
    /\ UNCHANGED <<token, abort, child, activity, future, attempt, backoff,
                   res, decision, streak>>

\* Mutant: the token is not checked again once the permit is there.
BeginAttemptUnchecked(i) ==
    /\ pc[i] = "waiting" /\ permit[i]
    /\ attempt' = [attempt EXCEPT ![i] = SaturatingAdd(@)]
    /\ activity' = [activity EXCEPT ![i] = TRUE]
    /\ future' = [future EXCEPT ![i] = TRUE]
    /\ child' = [child EXCEPT ![i] = FALSE]
    /\ res' = [res EXCEPT ![i] = "none"]
    /\ Goto(i, "running")
    /\ UNCHANGED <<token, abort, semaphore, backoff, decision, exit, streak>>

\* The permit is there and the second token check passes: the activity flag
\* goes up, run_once makes a fresh child token and spawns the user future.
BeginAttempt(i) ==
    /\ pc[i] = "waiting" /\ permit[i] /\ ~token[i]
    /\ attempt' = [attempt EXCEPT ![i] = SaturatingAdd(@)]
    /\ activity' = [activity EXCEPT ![i] = TRUE]
    /\ future' = [future EXCEPT ![i] = TRUE]
    /\ child' = [child EXCEPT ![i] = FALSE]
    /\ res' = [res EXCEPT ![i] = "none"]
    /\ Goto(i, "running")
    /\ UNCHANGED <<token, abort, semaphore, backoff, decision, exit, streak>>

\* Task::spawn itself panics: a failed attempt without a future.  Disposing
\* of the payload may panic too, which poisons the cleanup.
SpawnPanics(i) ==
    /\ pc[i] = "waiting" /\ permit[i] /\ ~token[i]
    /\ attempt' = [attempt EXCEPT ![i] = SaturatingAdd(@)]
    /\ activity' = [activity EXCEPT ![i] = TRUE]
    /\ child' = [child EXCEPT ![i] = FALSE]
    /\ \E r \in {"fail", "cleanup"} : res' = [res EXCEPT ![i] = r]
    /\ Goto(i, "classify")
    /\ UNCHANGED <<token, abort, semaphore, future, backoff, decision, exit, streak>>

\* The user future is ready, or its poll panicked, which is a failure.
AttemptReady(i) ==
    /\ pc[i] = "running"
    /\ \E r \in {"ok", "fail", "fatal", "canceled"} : res' = [res EXCEPT ![i] = r]
    /\ Goto(i, "disposing")
    /\ UNCHANGED <<token, abort, child, semaphore, activity, future, attempt,
                   backoff, decision, exit, streak>>

\* The attempt timer fires: the child token is cancelled, then the future is
\* destroyed in place.
AttemptTimeout(i) ==
    /\ pc[i] = "running" /\ HasTimeout[i]
    /\ child' = [child EXCEPT ![i] = TRUE]
    /\ res' = [res EXCEPT ![i] = "timeout"]
    /\ Goto(i, "disposing")
    /\ UNCHANGED <<token, abort, semaphore, activity, future, attempt, backoff,
                   decision, exit, streak>>

\* CatchPanic: the user future is dropped inside the attempt; its destructor,
\* or that of a panic payload, may panic.  Then the attempt's event is out.
DisposeFuture(i) ==
    /\ pc[i] = "disposing"
    /\ future' = [future EXCEPT ![i] = FALSE]
    /\ \E r \in {res[i], "cleanup"} : res' = [res EXCEPT ![i] = r]
    /\ Goto(i, "classify")
    /\ UNCHANGED <<token, abort, child, semaphore, activity, attempt, backoff,
                   decision, exit, streak>>

\* Mutant: the retry budget is compared one too late.
RetriesExhaustedLate(i) == MaxRetries[i] # 0 /\ backoff[i] > MaxRetries[i]

RetriesExhausted(i) == MaxRetries[i] # 0 /\ backoff[i] >= MaxRetries[i]
Retryable(i) == res[i] \in {"fail", "timeout"} /\ Restart[i] # "never"

\* Mutant: a cleanup panic is classified as a final failure.
ClassifiedAsFailure(i) ==
    CASE res[i] = "ok" -> {"ok"}
      [] Retryable(i) /\ ~RetriesExhausted(i) -> {"retry", "panicked"}
      [] OTHER -> {"final"}

\* classify_attempt: only a retryable error under a retrying policy within the
\* budget is retried, and only if dropping the error does not panic.
Classified(i) ==
    CASE res[i] = "ok"      -> {"ok"}
      [] res[i] = "cleanup" -> {"panicked"}
      [] Retryable(i) /\ ~RetriesExhausted(i) -> {"retry", "panicked"}
      [] OTHER              -> {"final"}

\* Mutant: the activity flag stays up.
ClassifyAttemptStillActive(i) ==
    /\ pc[i] = "classify"
    /\ \E d \in Classified(i) : decision' = [decision EXCEPT ![i] = d]
    /\ streak' = [streak EXCEPT ![i] =
                    IF res[i] = "ok" THEN 0 ELSE IF @ < StreakCap THEN @ + 1 ELSE @]
    /\ Goto(i, "release")
    /\ UNCHANGED <<token, abort, child, semaphore, activity, future, attempt,
                   backoff, res, exit>>

\* Classification, then drop(activity_guard).
ClassifyAttempt(i) ==
    /\ pc[i] = "classify"
    /\ \E d \in Classified(i) : decision' = [decision EXCEPT ![i] = d]
    /\ activity' = [activity EXCEPT ![i] = FALSE]
    /\ streak' = [streak EXCEPT ![i] =
                    IF res[i] = "ok" THEN 0 ELSE IF @ < StreakCap THEN @ + 1 ELSE @]
    /\ Goto(i, "release")
    /\ UNCHANGED <<token, abort, child, semaphore, future, attempt, backoff, res, exit>>

ExitOf(i) ==
    CASE decision[i] = "panicked" -> "Panicked"
      [] decision[i] = "ok"       -> IF token[i] THEN "Canceled" ELSE "Completed"
      [] res[i] = "fatal"         -> "Fatal"
      [] res[i] = "canceled"      -> "Canceled"
      [] OTHER                    -> "Exhausted"

\* drop(permit_guard), then what the decision says.
ApplyDecision(i) ==
    /\ pc[i] = "release"
    /\ ReleasePermit(i)
    /\ backoff' = [backoff EXCEPT ![i] = CASE decision[i] = "retry" -> SaturatingAdd(@)
                                           [] decision[i] = "ok"    -> 0
                                           [] OTHER                 -> @]
    /\ IF decision[i] = "retry" \/ (decision[i] = "ok" /\ Restart[i] = "always")
         THEN Goto(i, "sleep") /\ UNCHANGED exit
         ELSE Exit(i, ExitOf(i))
    /\ UNCHANGED <<token, abort, child, activity, future, attempt, res, decision, streak>>

\* sleep_cancellable and yield_now: back to the top ...
SleepOver(i) ==
    /\ pc[i] = "sleep"
    /\ Goto(i, "top")
    /\ UNCHANGED <<token, abort, child, semaphore, activity, future, attempt,
                   backoff, res, decision, exit, streak>>

\* ... or cut short by the token.
SleepCanceled(i) ==
    /\ pc[i] = "sleep" /\ token[i]
    /\ Exit(i, "Canceled")
    /\ UNCHANGED <<token, abort, child, semaphore, activity, future, attempt,
                   backoff, res, decision, streak>>

-----------------------------------------------------------------------------
(* Cancellation and force-abort from outside.                              *)

Cancel(i) ==
    /\ ~token[i]
    /\ token' = [token EXCEPT ![i] = TRUE]
    /\ UNCHANGED <<pc, abort, child, semaphore, activity, future, attempt,
                   backoff, res, decision, exit, streak>>

\* A force-abort follows the cancellation of the task token.
RequestAbort(i) ==
    /\ token[i] /\ ~abort[i] /\ pc[i] \notin {"exited", "dropped"}
    /\ abort' = [abort EXCEPT ![i] = TRUE]
    /\ UNCHANGED <<pc, token, child, semaphore, activity, future, attempt,
                   backoff, res, decision, exit, streak>>

\* Tokio drops the task at an await point without a user future ...
DropIdle(i) ==
    /\ abort[i] /\ pc[i] \in {"top", "waiting", "sleep"}
    /\ IF pc[i] = "waiting" THEN DropAcquire(i) ELSE UNCHANGED semaphore
    /\ Goto(i, "dropped")
    /\ UNCHANGED <<token, abort, child, activity, future, attempt, backoff,
                   res, decision, exit, streak>>

\* Mutant: the guards are dropped before the user future.
DropRunningGuardsFirst(i) ==
    /\ abort[i] /\ pc[i] = "running"
    /\ activity' = [activity EXCEPT ![i] = FALSE]
    /\ ReleasePermit(i)
    /\ Goto(i, "unwinding")
    /\ UNCHANGED <<token, abort, child, future, attempt, backoff, res, decision, exit, streak>>

\* ... or inside an attempt, where the locals go in reverse order: the user
\* future first, then the activity guard and the permit guard.
DropRunning(i) ==
    /\ abort[i] /\ pc[i] = "running"
    /\ Goto(i, "unwinding")
    /\ UNCHANGED <<token, abort, child, semaphore, activity, future, attempt,
                   backoff, res, decision, exit, streak>>

UnwindFuture(i) ==
    /\ pc[i] = "unwinding"
    /\ future' = [future EXCEPT ![i] = FALSE]
    /\ Goto(i, "guards")
    /\ UNCHANGED <<token, abort, child, semaphore, activity, attempt, backoff,
                   res, decision, exit, streak>>

UnwindGuards(i) ==
    /\ pc[i] = "guards"
    /\ activity' = [activity EXCEPT ![i] = FALSE]
    /\ ReleasePermit(i)
    /\ Goto(i, "dropped")
    /\ UNCHANGED <<token, abort, child, future, attempt, backoff, res, decision, exit, streak>>

-----------------------------------------------------------------------------
\* What the actor does by itself between two pieces of user code.
Loop(i) ==
    \/ LoopTop(i) \/ WaitCanceled(i) \/ BeginAttempt(i) \/ SpawnPanics(i)
    \/ ClassifyAttempt(i) \/ ApplyDecision(i) \/ SleepOver(i) \/ SleepCanceled(i)

\* User code coming to an end: the attempt, and destructors.
UserCode(i) == AttemptReady(i) \/ AttemptTimeout(i) \/ DisposeFuture(i) \/ UnwindFuture(i)

Dropping(i) == DropIdle(i) \/ DropRunning(i) \/ UnwindGuards(i)

Finished(i) == pc[i] \in {"exited", "dropped"}

ActorNext ==
    \/ \E i \in Actors : \/ Loop(i) \/ UserCode(i) \/ Dropping(i)
                         \/ Cancel(i) \/ RequestAbort(i)
    \/ (\A i \in Actors : Finished(i)) /\ UNCHANGED actorVars

ActorSpec == ActorInit /\ [][ActorNext]_actorVars

\* The scheduler polls a woken actor, timers fire, and user code ends: an
\* attempt that never returns is the subject of Registry's shutdown properties.
ActorFairSpec ==
    ActorSpec /\ \A i \in Actors : /\ WF_actorVars(Loop(i))
                                   /\ WF_actorVars(UserCode(i))
                                   /\ WF_actorVars(UnwindGuards(i))

-----------------------------------------------------------------------------
(* Properties.                                                             *)

\* The permits are conserved: cancellation racing a grant, panics and aborts
\* neither leak nor duplicate one, and a free permit has no waiter.  User code,
\* destructors included, runs only under a permit and with the activity flag
\* up, so that max_concurrent bounds attempts physically in existence and
\* is_alive does not miss one.
PermitsConserved ==
    /\ free + Cardinality({i \in Actors : permit[i]}) = Permits
    /\ free > 0 => waitq = <<>>
    /\ \A k \in 1..Len(waitq) : pc[waitq[k]] = "waiting" /\ ~permit[waitq[k]]
    /\ \A i \in Actors : future[i] => permit[i] /\ activity[i]

\* Types, and the exit reason is what happened: Completed needs a successful
\* last attempt under a policy that stops, Canceled a cancelled token or an
\* attempt that reported cancellation, Exhausted a failure that could not be
\* retried, and a cleanup panic is never reported as anything else.  A retry
\* budget of m allows m + 1 failed attempts between two successes, also when the
\* budget is the largest u32 and the counter saturates.
ExitHonest ==
    /\ ActorTypeOK
    /\ \A i \in Actors : MaxRetries[i] # 0 => streak[i] <= MaxRetries[i] + 1
    /\ \A i \in Actors : pc[i] = "exited" =>
        CASE exit[i] = "Completed" -> res[i] = "ok" /\ Restart[i] # "always" /\ backoff[i] = 0
          [] exit[i] = "Canceled"  -> token[i] \/ res[i] = "canceled"
          [] exit[i] = "Fatal"     -> res[i] = "fatal"
          [] exit[i] = "Panicked"  -> res[i] \in {"cleanup", "fail", "timeout"}
          [] exit[i] = "Exhausted" ->
               /\ res[i] \in {"fail", "timeout"}
               /\ Restart[i] = "never" \/ streak[i] = MaxRetries[i] + 1
          [] OTHER -> FALSE

\* No actor starves for a permit, even next to tasks that restart for ever, and a
\* cancelled actor comes to its end once its user code does.
ActorsProgress ==
    \A i \in Actors :
        /\ token[i] ~> Finished(i)
        /\ pc[i] = "waiting" ~> pc[i] # "waiting"
=============================================================================
