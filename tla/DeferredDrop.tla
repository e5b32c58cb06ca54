---------------------------- MODULE DeferredDrop ----------------------------
(***************************************************************************)
(* The ownership budget and the cleanup workers of one supervisor          *)
(* (src/core/deferred_drop).  Every user value Taskvisor accepts is        *)
(* charged one unit of a finite capacity before the hand-off and is        *)
(* destroyed on a cleanup thread afterwards; a clean destruction returns   *)
(* the unit, a panic or a poisoned bundle retires it for good.             *)
(*                                                                         *)
(* broker is what CapacityBroker's mutex protects, pool what WorkerQueue's *)
(* protects; an action is one critical section, except where a thread goes *)
(* through two with nothing but its own state in between (Dispose,         *)
(* ExitClosed, DropExecutor).  The worker counters are kept apart from     *)
(* what the threads really do (wpc), as in the code.                       *)
(***************************************************************************)
EXTENDS Integers, FiniteSets, SequencesExt

CONSTANTS
    Owners,       \* clients; each brings one user lifetime after the other
    Stuck,        \* those whose destructors may block for ever
    Limit,        \* ownership_capacity
    CoreWorkers,  \* persistent workers
    MaxWorkers,   \* ceiling of live and starting workers
    Slots,        \* optional jobs of a bundle besides the retained value
    NoOwner

ASSUME OwnersAssumption == IsFiniteSet(Owners)
ASSUME LimitAssumption == Limit \in Nat \ {0}
ASSUME WorkerAssumption == CoreWorkers \in 1..MaxWorkers /\ MaxWorkers \in 1..Limit
ASSUME StuckAssumption == Stuck \subseteq Owners /\ NoOwner \notin Owners

VARIABLES
    domain,     \* the executor: "unstarted", "open", "dropped" (domain gone,
                \* kept by reservations) or "closed" (DropExecutor::drop ran)
    broker,     \* available, effective_capacity, waiters, closed
    own,        \* where each client's lifetime, and with it its unit, is
    bundle,     \* jobs still to run, and whether the unit must be retired
    pool,       \* queue, closed, live, idle, starting, running
    wpc,        \* what each worker thread does
    job,        \* the batch a worker has taken
    lent        \* a submitter still has to call spawn_elastic

clientVars == <<domain, broker, own, bundle>>
poolVars   == <<pool, wpc, job, lent>>
dropVars   == <<clientVars, poolVars>>

Workers == 1..MaxWorkers
Elastic == Workers \ 1..CoreWorkers

OwnStates ==
    {"out", "waiting", "granted", "closed", "held", "queued", "running", "leaked"}

\* A thread: asleep on the condition variable ("idle", "delay"), notified or
\* timed out and not back under the lock ("woken", "expired"), or on the way.
WorkerStates ==
    {"off", "launched", "ready", "idle", "woken", "expired", "delay", "spawn", "run"}

Jobs == {"retained"} \cup Slots

\* Types, with the bounds on the request queue and on what a bundle holds: at
\* most one job of each kind.
DropTypeOK ==
    /\ domain \in {"unstarted", "open", "dropped", "closed"}
    /\ broker \in [available : 0..Limit, effective : 0..Limit,
                   waiters : Seq(Owners), closed : BOOLEAN]
    /\ Len(broker.waiters) <= Limit
    /\ own \in [Owners -> OwnStates]
    /\ bundle \in [Owners -> [jobs : Seq(Jobs), poisoned : BOOLEAN]]
    /\ \A o \in Owners : IsInjective(bundle[o].jobs)
    /\ pool \in [queue : Seq(Owners), closed : BOOLEAN, live : Nat, idle : Nat,
                 starting : Nat, running : Nat]
    /\ wpc \in [Workers -> WorkerStates]
    /\ job \in [Workers -> Owners \cup {NoOwner}]
    /\ lent \in BOOLEAN

NoBundle  == [jobs |-> <<>>, poisoned |-> FALSE]
NewBundle == [jobs |-> <<"retained">>, poisoned |-> FALSE]

DropInit ==
    /\ domain = "unstarted"
    /\ broker = [available |-> Limit, effective |-> Limit, waiters |-> <<>>, closed |-> FALSE]
    /\ own = [o \in Owners |-> "out"]
    /\ bundle = [o \in Owners |-> NoBundle]
    /\ pool = [queue |-> <<>>, closed |-> FALSE, live |-> 0, idle |-> 0,
               starting |-> 0, running |-> 0]
    /\ wpc = [w \in Workers |-> "off"]
    /\ job = [w \in Workers |-> NoOwner]
    /\ lent = FALSE

\* DropDomain::executor under its mutex: the executor is published once every
\* core worker has reported ready, that is idle.  A start that fails joins
\* the threads it had and leaves nothing behind.
Start ==
    /\ domain = "unstarted"
    /\ domain' = "open"
    /\ pool' = [pool EXCEPT !.live = CoreWorkers, !.idle = CoreWorkers]
    /\ wpc' = [w \in Workers |-> IF w \in Elastic THEN "off" ELSE "idle"]
    /\ UNCHANGED <<broker, own, bundle, job, lent>>

-----------------------------------------------------------------------------
(* CapacityBroker.  Operators on the record b of the locked state.         *)

Least(m, n) == IF m <= n THEN m ELSE n

\* return_capacity_locked: more than the effective limit closes the broker.
Returned(b) ==
    IF b.available < b.effective THEN [b EXCEPT !.available = @ + 1]
                                 ELSE [b EXCEPT !.closed = TRUE]

\* retire, on an open broker: the last unit closes it.
RetiredUnit(b) ==
    IF b.closed THEN b
    ELSE IF b.effective = 0 \/ b.available > b.effective - 1
           THEN [b EXCEPT !.closed = TRUE]
           ELSE [b EXCEPT !.effective = @ - 1, !.closed = (b.effective = 1)]

\* How many of the waiters dispatch_limited grants.
Grants(b) == IF b.closed THEN 0 ELSE Least(b.available, Len(b.waiters))

\* Mutant: the youngest requests are served.
SettleLast(b, f) ==
    LET n    == Grants(b)
        keep == Len(b.waiters) - n
        gets == ToSet(SubSeq(b.waiters, keep + 1, Len(b.waiters)))
        rest == SubSeq(b.waiters, 1, keep)
    IN /\ broker' = [b EXCEPT !.available = @ - n,
                              !.waiters = IF b.closed THEN <<>> ELSE rest]
       /\ own' = [o \in Owners |->
                    IF o \in gets THEN "granted"
                    ELSE IF b.closed /\ o \in ToSet(rest) THEN "closed" ELSE f[o]]

\* dispatch_locked for an open broker, close_waiters_locked for a closed one;
\* f is where the lifetimes are otherwise.
Settle(b, f) ==
    LET n    == Grants(b)
        gets == ToSet(SubSeq(b.waiters, 1, n))
        rest == SubSeq(b.waiters, n + 1, Len(b.waiters))
    IN /\ broker' = [b EXCEPT !.available = @ - n,
                              !.waiters = IF b.closed THEN <<>> ELSE rest]
       /\ own' = [o \in Owners |->
                    IF o \in gets THEN "granted"
                    ELSE IF b.closed /\ o \in ToSet(rest) THEN "closed" ELSE f[o]]

\* DropDomain::reserve and its variants on a started domain.
Asking(o) == domain = "open" /\ own[o] = "out"

\* DropReservation::bundle: a unit is bound to the value it was taken for.
Bundle(S) == bundle' = [o \in Owners |-> IF o \in S THEN NewBundle ELSE bundle[o]]

\* start_acquire_one with a free unit and nobody before the caller ...
AcquireNow(o) ==
    /\ Asking(o) /\ ~broker.closed
    /\ broker.waiters = <<>> /\ broker.available > 0
    /\ broker' = [broker EXCEPT !.available = @ - 1]
    /\ own' = [own EXCEPT ![o] = "held"] /\ Bundle({o})
    /\ UNCHANGED <<domain, poolVars>>

\* ... and otherwise, while the bounded queue has a place.
AcquireLater(o) ==
    /\ Asking(o) /\ ~broker.closed /\ broker.effective > 0
    /\ broker.waiters # <<>> \/ broker.available = 0
    /\ Len(broker.waiters) < Limit
    /\ broker' = [broker EXCEPT !.waiters = Append(@, o)]
    /\ own' = [own EXCEPT ![o] = "waiting"]
    /\ UNCHANGED <<domain, bundle, poolVars>>

\* try_acquire and split_reservations: the whole batch or nothing, and never
\* past a waiter.  A refused request of either kind changes nothing.
TryAcquire(batch) ==
    LET units == Cardinality(batch)
    IN /\ units > 0 /\ \A o \in batch : Asking(o)
       /\ ~broker.closed /\ units <= broker.effective
       /\ broker.waiters = <<>> /\ units <= broker.available
       /\ broker' = [broker EXCEPT !.available = @ - units]
       /\ own' = [o \in Owners |-> IF o \in batch THEN "held" ELSE own[o]]
       /\ Bundle(batch)
       /\ UNCHANGED <<domain, poolVars>>

\* CapacityRequest::wait finds its grant ...
TakeGrant(o) ==
    /\ own[o] = "granted"
    /\ own' = [own EXCEPT ![o] = "held"] /\ Bundle({o})
    /\ UNCHANGED <<domain, broker, poolVars>>

\* ... or the closure.
FindClosed(o) ==
    /\ own[o] = "closed"
    /\ own' = [own EXCEPT ![o] = "out"]
    /\ UNCHANGED <<domain, broker, bundle, poolVars>>

\* The place of o in the queue is given up.
LeaveQueue(o) ==
    \E k \in DOMAIN broker.waiters :
        /\ broker.waiters[k] = o
        /\ Settle([broker EXCEPT !.waiters = RemoveAt(@, k)], [own EXCEPT ![o] = "out"])

\* Mutant: a grant nobody took is forgotten with its request.
CancelForgetsGrant(o) ==
    /\ \/ own[o] = "waiting" /\ LeaveQueue(o)
       \/ own[o] \in {"granted", "closed"} /\ Settle(broker, [own EXCEPT ![o] = "out"])
    /\ UNCHANGED <<domain, bundle, poolVars>>

\* The request future is dropped by shutdown or by the ownership timeout:
\* a place in the queue is left, an unobserved grant is passed on.
CancelRequest(o) ==
    /\ \/ own[o] = "waiting" /\ LeaveQueue(o)
       \/ own[o] = "granted" /\ Settle(Returned(broker), [own EXCEPT ![o] = "out"])
       \/ own[o] = "closed" /\ Settle(broker, [own EXCEPT ![o] = "out"])
    /\ UNCHANGED <<domain, bundle, poolVars>>

-----------------------------------------------------------------------------
(* DropBundle, while its value is in Taskvisor's hands.                    *)

\* Mutant: a second value is queued behind the first.
AttachAll(o, s) ==
    /\ own[o] = "held"
    /\ bundle' = [bundle EXCEPT ![o].jobs = Append(@, s)]
    /\ UNCHANGED <<domain, broker, own, poolVars>>

\* attach_outcome, attach_panic_payload, attach_physical: one value for each
\* slot, a second one poisons the bundle.
Attach(o, s) ==
    /\ own[o] = "held"
    /\ bundle' = IF s \in ToSet(bundle[o].jobs)
                   THEN [bundle EXCEPT ![o].poisoned = TRUE]
                   ELSE [bundle EXCEPT ![o].jobs = Append(@, s)]
    /\ UNCHANGED <<domain, broker, own, poolVars>>

Poison(o) ==
    /\ own[o] = "held" /\ ~bundle[o].poisoned
    /\ bundle' = [bundle EXCEPT ![o].poisoned = TRUE]
    /\ UNCHANGED <<domain, broker, own, poolVars>>

-----------------------------------------------------------------------------
(* WorkerQueue.                                                            *)

\* needs_elastic_locked.
NeedsElastic(p) ==
    /\ ~p.closed /\ p.queue # <<>>
    /\ p.idle = 0 /\ p.starting = 0 /\ p.live < MaxWorkers

\* reserve_elastic_locked.
Reserve(p) == IF NeedsElastic(p) THEN [p EXCEPT !.starting = @ + 1] ELSE p

\* notify_all: a worker in its expansion delay re-reads its condition, which
\* DelayOver allows for at any time.
NotifyAll(pc) == [w \in Workers |-> IF pc[w] = "idle" THEN "woken" ELSE pc[w]]

\* notify_one: any thread asleep on the condition variable, a worker in its
\* expansion delay included, and nobody if there is none.
NotifyOne(pc) ==
    LET asleep == {w \in Workers : pc[w] \in {"idle", "delay"}}
    IN IF asleep = {} THEN {pc}
       ELSE {[pc EXCEPT ![w] = IF @ = "idle" THEN "woken" ELSE @] : w \in asleep}

\* DropBundle::submit or its Drop, DropExecutor::submit and WorkerQueue::submit;
\* a batch that meets a closed queue closes admission and is retained for ever.
Submit(o) ==
    /\ own[o] = "held"
    /\ IF pool.closed
         THEN /\ Settle([broker EXCEPT !.closed = TRUE], [own EXCEPT ![o] = "leaked"])
              /\ UNCHANGED poolVars
         ELSE LET p == [pool EXCEPT !.queue = Append(@, o)]
              IN /\ pool' = Reserve(p) /\ lent' = (lent \/ NeedsElastic(p))
                 /\ wpc' \in NotifyOne(wpc)
                 /\ own' = [own EXCEPT ![o] = "queued"]
                 /\ UNCHANGED <<broker, job>>
    /\ UNCHANGED <<domain, bundle>>

\* spawn_elastic: a thread is launched, or the operating system refuses it or
\* the queue was closed meanwhile and the reservation is given back.  pc is
\* what the caller goes on with.
SpawnElastic(pc) ==
    \/ \E e \in Elastic :
         /\ ~pool.closed /\ pc[e] = "off"
         /\ wpc' = [pc EXCEPT ![e] = "launched"]
         /\ UNCHANGED pool
    \/ /\ pool' = [pool EXCEPT !.starting = @ - 1]
       /\ wpc' = pc

SubmitterSpawns ==
    /\ lent /\ SpawnElastic(wpc)
    /\ lent' = FALSE
    /\ UNCHANGED <<clientVars, job>>

WorkerSpawns(w) ==
    /\ wpc[w] = "spawn" /\ SpawnElastic([wpc EXCEPT ![w] = "run"])
    /\ UNCHANGED <<clientVars, job, lent>>

\* The counters once w is back under the lock of take.
Entered(w) ==
    IF wpc[w] = "launched" THEN [pool EXCEPT !.starting = @ - 1, !.live = @ + 1]
    ELSE IF wpc[w] \in {"woken", "expired"} THEN [pool EXCEPT !.idle = @ - 1]
    ELSE pool

InTake(w) == wpc[w] \in {"launched", "ready", "woken", "expired"}

\* Whether a worker that has a batch may ask for one more thread at once.
MayExpand(w, p) == w \in Elastic \/ p.live + p.starting <= CoreWorkers

\* Mutant: the worker keeps the notification it may have been given to itself.
ProceedQuietly(w, p) ==
    LET grow == MayExpand(w, p) /\ NeedsElastic(p)
    IN /\ pool' = IF grow THEN Reserve(p) ELSE p
       /\ wpc' = [wpc EXCEPT ![w] = IF grow THEN "spawn" ELSE "run"]

\* The end of take for a worker with a batch: p is the state it leaves.
Proceed(w, p) ==
    LET grow == MayExpand(w, p) /\ NeedsElastic(p)
    IN /\ pool' = IF grow THEN Reserve(p) ELSE p
       /\ wpc' = [NotifyAll(wpc) EXCEPT ![w] = IF grow THEN "spawn" ELSE "run"]

\* take, with a batch in the queue; an elastic worker that sees more backlog
\* waits a moment before it asks for help.
TakeBatch(w) ==
    /\ InTake(w) /\ pool.queue # <<>>
    /\ LET o == Head(pool.queue)
           p == [Entered(w) EXCEPT !.queue = Tail(@), !.running = @ + 1]
       IN /\ job' = [job EXCEPT ![w] = o]
          /\ own' = [own EXCEPT ![o] = "running"]
          /\ IF w \in Elastic /\ NeedsElastic(p)
               THEN pool' = p /\ wpc' = [wpc EXCEPT ![w] = "delay"]
               ELSE Proceed(w, p)
    /\ UNCHANGED <<domain, broker, bundle, lent>>

\* ELASTIC_EXPANSION_DELAY is over, or somebody else took care of the backlog.
DelayOver(w) ==
    /\ wpc[w] = "delay"
    /\ Proceed(w, pool)
    /\ UNCHANGED <<clientVars, job, lent>>

\* take, with nothing to do: the first idle worker wakes those that wait for
\* one, then sleeps.
GoIdle(w) ==
    /\ InTake(w) /\ wpc[w] # "expired" /\ pool.queue = <<>> /\ ~pool.closed
    /\ LET p == [Entered(w) EXCEPT !.idle = @ + 1]
       IN /\ pool' = p
          /\ wpc' = [(IF p.idle = 1 THEN NotifyAll(wpc) ELSE wpc) EXCEPT ![w] = "idle"]
    /\ UNCHANGED <<clientVars, job, lent>>

\* ELASTIC_IDLE_TIMEOUT.
IdleTimeout(w) ==
    /\ w \in Elastic /\ wpc[w] = "idle"
    /\ wpc' = [wpc EXCEPT ![w] = "expired"]
    /\ UNCHANGED <<clientVars, pool, job, lent>>

\* A worker whose sleep timed out leaves, unless a batch came in meanwhile.
Retreat(w) ==
    /\ wpc[w] = "expired" /\ pool.queue = <<>>
    /\ pool' = [pool EXCEPT !.idle = @ - 1, !.live = @ - 1]
    /\ wpc' = [wpc EXCEPT ![w] = "off"]
    /\ UNCHANGED <<clientVars, job, lent>>

\* Mutant: closure is looked at before the queue.
ExitAtClosure(w) ==
    /\ InTake(w) /\ wpc[w] # "expired" /\ pool.closed
    /\ pool' = [Entered(w) EXCEPT !.live = @ - 1]
    /\ wpc' = [NotifyAll(wpc) EXCEPT ![w] = "off"]
    /\ UNCHANGED <<clientVars, job, lent>>

\* take on a closed and empty queue, then worker_exited.
ExitClosed(w) ==
    /\ InTake(w) /\ wpc[w] # "expired" /\ pool.queue = <<>> /\ pool.closed
    /\ pool' = [Entered(w) EXCEPT !.live = @ - 1]
    /\ wpc' = [NotifyAll(wpc) EXCEPT ![w] = "off"]
    /\ UNCHANGED <<clientVars, job, lent>>

-----------------------------------------------------------------------------
(* DropBatch::run on a worker thread, outside every lock.                  *)

\* The next destructor returns or panics; a panic does not stop the others.
RunJob(w) ==
    /\ wpc[w] = "run" /\ bundle[job[w]].jobs # <<>>
    /\ \E panics \in BOOLEAN :
         bundle' = [bundle EXCEPT ![job[w]] =
                      [jobs |-> Tail(@.jobs), poisoned |-> @.poisoned \/ panics]]
    /\ UNCHANGED <<domain, broker, own, poolVars>>

\* The permit is returned or retired, then finish_batch.
Dispose(w) ==
    LET o == job[w]
    IN /\ wpc[w] = "run" /\ bundle[o].jobs = <<>>
       /\ IF bundle[o].poisoned
            THEN Settle(RetiredUnit(broker), [own EXCEPT ![o] = "out"])
            ELSE Settle(Returned(broker), [own EXCEPT ![o] = "out"])
       /\ bundle' = [bundle EXCEPT ![o].poisoned = FALSE]
       /\ pool' = [pool EXCEPT !.running = @ - 1]
       /\ wpc' = [wpc EXCEPT ![w] = "ready"]
       /\ job' = [job EXCEPT ![w] = NoOwner]
       /\ UNCHANGED <<domain, lent>>

-----------------------------------------------------------------------------
\* The supervisor lets go of its domain ...
DropDomain ==
    /\ domain = "open" /\ domain' = "dropped"
    /\ UNCHANGED <<broker, own, bundle, poolVars>>

\* Mutant: reservations do not keep the executor.
HeldByRequests ==
    lent \/ \E o \in Owners : own[o] \in {"waiting", "granted", "closed"}

\* Whoever holds an Arc of the executor: requests, reservations, bundles, and
\* a submitter that is not back from submit.
ExecutorHeld ==
    lent \/ \E o \in Owners : own[o] \in {"waiting", "granted", "closed", "held"}

\* ... and DropExecutor::drop runs when the last of them is gone.
DropExecutor ==
    /\ domain = "dropped" /\ ~ExecutorHeld
    /\ domain' = "closed"
    /\ Settle([broker EXCEPT !.closed = TRUE], own)
    /\ pool' = [pool EXCEPT !.closed = TRUE]
    /\ wpc' = NotifyAll(wpc)
    /\ UNCHANGED <<bundle, job, lent>>

\* Everything is over; or what is left hangs in destructors for ever.
Terminated ==
    /\ domain = "closed" /\ \A w \in Workers : wpc[w] = "off"
    /\ UNCHANGED dropVars

Turn(w) ==
    TakeBatch(w) \/ DelayOver(w) \/ GoIdle(w) \/ Retreat(w) \/ ExitClosed(w)

DropNext ==
    \/ Start \/ DropDomain \/ DropExecutor \/ SubmitterSpawns \/ Terminated
    \/ \E batch \in SUBSET Owners : TryAcquire(batch)
    \/ \E o \in Owners :
         \/ AcquireNow(o) \/ AcquireLater(o) \/ TakeGrant(o) \/ FindClosed(o)
         \/ CancelRequest(o) \/ Poison(o) \/ Submit(o)
         \/ \E s \in Slots : Attach(o, s)
    \/ \E w \in Workers :
         Turn(w) \/ WorkerSpawns(w) \/ IdleTimeout(w) \/ RunJob(w) \/ Dispose(w)

DropSpec == DropInit /\ [][DropNext]_dropVars

\* Threads are scheduled, timed waits end, the thread factory answers, and
\* the destructors that are not stuck return.  Nothing is asked of clients.
WorkerSteps(w) ==
    Turn(w) \/ WorkerSpawns(w) \/ Dispose(w) \/ (job[w] \notin Stuck /\ RunJob(w))

DropFairSpec ==
    /\ DropSpec /\ WF_dropVars(SubmitterSpawns)
    /\ \A w \in Workers : WF_dropVars(WorkerSteps(w))

-----------------------------------------------------------------------------
(* Properties.                                                             *)

Charged == {o \in Owners : own[o] \in {"granted", "held", "queued", "running", "leaked"}}

\* The budget is exact while admission is open: a unit is free, charged to one
\* lifetime or retired, whatever grants, cancellations and panics race.  No
\* unit is free while somebody waits, nobody waits at a closed broker, and
\* only the loss of every unit closes it before the executor goes.
UnitsConserved ==
    /\ ~broker.closed =>
         /\ broker.available + Cardinality(Charged) = broker.effective
         /\ broker.waiters # <<>> => broker.available = 0
    /\ broker.closed => broker.waiters = <<>> /\ (broker.effective = 0 \/ domain = "closed")
    /\ IsInjective(broker.waiters)
    /\ ToSet(broker.waiters) = {o \in Owners : own[o] = "waiting"}

ServedInOrder ==
    /\ \A o \in Owners : own[o] = "out" /\ own'[o] = "held" => broker.waiters = <<>>
    /\ \A k, l \in DOMAIN broker.waiters :
         k < l /\ own'[broker.waiters[l]] = "granted" => own'[broker.waiters[k]] # "waiting"

\* First come, first served: no request, fail-fast batches included, takes a
\* unit past a parked one, and the waiters are granted in order.
NoBarging == [][ServedInOrder]_dropVars

At(S) == Cardinality({w \in Workers : wpc[w] \in S})

\* Types; and the worker counters, which saturate rather than fail, always say what the
\* threads do, and the ceiling holds.  Every batch is queued once or with one
\* worker; none meets a closed queue and is lost, and none is put aside with
\* a destructor not run.
PoolExact ==
    /\ DropTypeOK
    /\ pool.starting = At({"launched", "spawn"}) + (IF lent THEN 1 ELSE 0)
    /\ pool.idle = At({"idle", "woken", "expired"})
    /\ pool.live = At(WorkerStates \ {"off", "launched"})
    /\ pool.running = At({"delay", "spawn", "run"})
    /\ pool.live + pool.starting <= MaxWorkers
    /\ IsInjective(pool.queue)
    /\ ToSet(pool.queue) = {o \in Owners : own[o] = "queued"}
    /\ \A o \in Owners :
         /\ own[o] = "running" <=> \E w \in Workers : job[w] = o
         /\ own[o] # "leaked"
         /\ own[o] = "out" => bundle[o].jobs = <<>>

\* No wakeup is lost: a worker never sleeps through a backlog unless another
\* one is on its way to the queue, or is going to wake everybody.  submit
\* notifies one thread only, which may be a busy one in its expansion delay.
BacklogAttended ==
    pool.queue # <<>> /\ (\E w \in Workers : wpc[w] = "idle")
        => \E w \in Workers : InTake(w) \/ wpc[w] = "delay"

\* With one core worker more than there are destructors that hang, every
\* value that is handed over is destroyed with all that was attached to it,
\* although no further thread may ever start, destructors panic, and the
\* executor may be dropped meanwhile.
ValuesDestroyed ==
    \A o \in Owners \ Stuck :
        own[o] = "queued" ~> own[o] = "out" /\ bundle[o].jobs = <<>>
=============================================================================
