---------------------------- MODULE EventDelivery ----------------------------
(***************************************************************************)
(* From publication to the subscriber's callback: publishers, the event    *)
(* relay (src/core/runtime/event_relay.rs) and the lanes and callback      *)
(* threads of SubscriberSet (src/subscribers/subscriber_set.rs), with      *)
(* startup, the drain at shutdown, close and drop of the set.              *)
(*                                                                         *)
(* An action is one critical section, of the ring, of one lane or of the   *)
(* shared ready queue.  The loops over the lanes, in emit_arc, close and   *)
(* Drop, are one action each: they lock one lane after the other under, or *)
(* after taking, the set's state, a callback thread works on one lane at a *)
(* time, and so the sections of different lanes commute.                   *)
(***************************************************************************)
EXTENDS SubscriberLane, FiniteSets, SequencesExt

CONSTANTS
    Lanes,         \* the subscribers, in configuration order
    Dedicated,     \* those with SubscriberExecution::Dedicated
    Hung,          \* those whose callback may never return
    Panicky,       \* those whose callback may panic
    SharedWorker,  \* the one worker of all the other lanes
    Publishers,    \* runtime threads that publish
    Quantum,       \* SHARED_CALLBACK_QUANTUM
    DrainLimit,    \* SHUTDOWN_RELAY_DRAIN_LIMIT
    MaxEvents,     \* bound on ordinary events published
    MaxPanics      \* bound on callbacks that panic over one of them

Subs    == ToSet(Lanes)
Workers == Dedicated \cup {SharedWorker}

ASSUME SubscriberAssumption ==
    /\ Lanes \in Seq(Subs) /\ Lanes # <<>> /\ IsInjective(Lanes)
    /\ Dedicated \subseteq Subs /\ Hung \subseteq Dedicated /\ Panicky \subseteq Subs
ASSUME WorkerNameAssumption == SharedWorker \notin Subs
ASSUME BoundAssumption == Quantum \in Nat \ {0} /\ DrainLimit \in Nat \ {0}

VARIABLES
    ring, bell,   \* the bus
    ppc,          \* publishers that still have to ring the bell
    published,    \* ordinary events published so far
    token,        \* runtime_token is cancelled
    relay,        \* pc, events to emit, closed lanes to report, draining,
                  \* try_recv calls left, losses not yet reported
    set,          \* "pending", "started", "closed"
    lane,         \* the lanes, by subscriber
    ready,        \* SharedQueue: lanes waiting for a turn, and closed
    panics,       \* callbacks that panicked over an ordinary event so far
    worker,       \* each callback thread: pc, lane, callbacks left, event in hand
    cpc,          \* SubscriberSet::close
    unreported,   \* history: events the ring lost that no lane was told about
    owed,         \* history: ordinary events offered to a live lane that its
                  \* callback got neither itself nor in an overflow summary; an
                  \* abort and a broken callback cancel the debt
    last          \* history: number of the last event each callback got

busVars   == <<ring, bell, ppc, published>>
setVars   == <<set, lane, ready, worker, panics, cpc>>
histories == <<unreported, owed, last>>
eventVars == <<busVars, token, relay, setVars, histories>>

NoEvent == Task(0)
Idle == [pc |-> "off", lane |-> SharedWorker, left |-> 0, ev |-> NoEvent]

DeliveryInit ==
    /\ ring = EmptyRing /\ bell = SilentBell
    /\ ppc = [p \in Publishers |-> "idle"] /\ published = 0
    /\ token = FALSE
    /\ relay = [pc |-> "off", out |-> <<>>, closed |-> 0, draining |-> FALSE,
                left |-> 0, lost |-> 0]
    /\ set = "pending" /\ lane = [l \in Subs |-> NewLane]
    /\ ready = [lanes |-> <<>>, closed |-> FALSE]
    /\ worker = [w \in Workers |-> Idle]
    /\ panics = 0 /\ cpc = "off"
    /\ unreported = 0 /\ owed = [l \in Subs |-> 0] /\ last = [l \in Subs |-> 0]

-----------------------------------------------------------------------------
(* Publication.                                                            *)

\* The ring after a publication, with the event it displaces.
PublishTo(e) ==
    /\ ring' = PublishEnabled(ring, e)
    /\ unreported' = IF ~ring.closed /\ Full(ring) THEN unreported + 1 ELSE unreported

\* publish_lazy by the runtime, which a closed bus ignores: the bell is rung
\* after the lock is released.
Publish(p) ==
    /\ ppc[p] = "idle" /\ published < MaxEvents /\ ~ring.closed
    /\ published' = published + 1
    /\ PublishTo(Task(published + 1))
    /\ ppc' = [ppc EXCEPT ![p] = IF BecameNonempty(ring) THEN "notify" ELSE "idle"]
    /\ UNCHANGED <<bell, token, relay, setVars, owed, last>>

Notify(p) ==
    /\ ppc[p] = "notify"
    /\ ppc' = [ppc EXCEPT ![p] = "idle"]
    /\ bell' = NotifyOne(bell)
    /\ UNCHANGED <<ring, published, token, relay, setVars, histories>>

-----------------------------------------------------------------------------
(* Startup: every thread is launched or none is, and the relay follows.    *)

StartSet ==
    /\ set = "pending"
    /\ set' = "started"
    /\ worker' = [w \in Workers |->
                    [Idle EXCEPT !.pc = IF w = SharedWorker THEN "next" ELSE "begin",
                                 !.lane = w]]
    /\ relay' = [relay EXCEPT !.pc = "top"]
    /\ UNCHANGED <<busVars, token, lane, ready, panics, cpc, histories>>

\* The shutdown workflow of a started runtime, or the drop of its last owner.
CancelRuntime ==
    /\ ~token /\ set = "started" /\ token' = TRUE
    /\ UNCHANGED <<busVars, relay, setVars, histories>>

-----------------------------------------------------------------------------
(* The relay.                                                              *)

\* One poll of the select: cancellation is looked at first, then recv
\* registers with the bell.
RelayTop ==
    /\ relay.pc = "top"
    /\ IF token
       THEN /\ relay' = [relay EXCEPT !.pc = "drain", !.draining = TRUE,
                           !.left = IF RingCapacity < DrainLimit THEN RingCapacity ELSE DrainLimit]
            /\ UNCHANGED bell
       ELSE /\ relay' = [relay EXCEPT !.pc = "try"]
            /\ bell' = EnableNotified(bell)
    /\ UNCHANGED <<ring, ppc, published, token, setVars, histories>>

\* recv takes an event and its losses, or goes to sleep.
RelayTry ==
    /\ relay.pc = "try"
    /\ IF ring.events = <<>>
       THEN /\ relay' = [relay EXCEPT !.pc = "asleep"]
            /\ UNCHANGED <<ring, bell>>
       ELSE /\ ring' = TryMessage(ring)
            /\ bell' = DropNotified(bell)
            /\ relay' = [relay EXCEPT !.pc = "emit",
                           !.out = <<Head(ring.events)>> \o
                              (IF ring.dropped = 0 THEN <<>> ELSE <<Lagged(ring.dropped)>>)]
    /\ UNCHANGED <<ppc, published, token, setVars, histories>>

RelayWake ==
    /\ relay.pc = "asleep" /\ (token \/ bell.waiter \in {"woken", "ready"})
    /\ relay' = [relay EXCEPT !.pc = "top"]
    /\ bell' = IF token THEN DropNotified(bell) ELSE [bell EXCEPT !.waiter = "none"]
    /\ UNCHANGED <<ring, ppc, published, token, setVars, histories>>

\* drain_pending: the retained tail is forwarded, the losses are added up.
DrainTake ==
    /\ relay.pc = "drain" /\ relay.left > 0 /\ ring.events # <<>>
    /\ ring' = TryMessage(ring)
    /\ relay' = [relay EXCEPT !.pc = "emit", !.out = <<Head(ring.events)>>,
                              !.left = @ - 1, !.lost = @ + ring.dropped]
    /\ UNCHANGED <<bell, ppc, published, token, setVars, histories>>

DrainClose ==
    /\ relay.pc = "drain" /\ (relay.left = 0 \/ ring.events = <<>>)
    /\ ring' = CloseAndTakePending(ring)
    /\ LET lost == relay.lost + ring.dropped + Len(ring.events)
       IN /\ relay' = [relay EXCEPT !.lost = 0,
                         !.pc  = IF lost = 0 THEN "done" ELSE "emit",
                         !.out = IF lost = 0 THEN <<>> ELSE <<Lagged(lost)>>]
          /\ unreported' = unreported + Len(ring.events)
    /\ UNCHANGED <<bell, ppc, published, token, setVars, owed, last>>

\* Where the relay goes after it has offered the first event of out: to the
\* diagnostics it owes for closed lanes, the next event, the next receive.
AfterEmit(closed) ==
    LET rest == Tail(relay.out)
    IN IF closed > 0 THEN [relay EXCEPT !.pc = "report", !.closed = closed]
       ELSE [relay EXCEPT !.out = rest, !.closed = 0,
               !.pc = IF rest # <<>> THEN "emit"
                      ELSE IF ring.closed THEN "done"
                      ELSE IF relay.draining THEN "drain" ELSE "top"]

\* The threads of these lanes, asleep on the lane's condition variable.
WakeDedicated(ls) ==
    [w \in Workers |-> [worker[w] EXCEPT !.pc = IF @ = "parked" /\ w \in ls THEN "begin" ELSE @]]

\* SharedQueue::schedule: a closed queue takes nothing.
Schedule(q, ls) == IF q.closed THEN q ELSE [q EXCEPT !.lanes = @ \o ls]

\* The shared worker, notified when the queue is filled or closed.
SharedWoken(ws) == [ws EXCEPT ![SharedWorker].pc = IF @ = "parked" THEN "next" ELSE @]

\* The lanes of S in configuration order: there is one such sequence.
InOrder(S) ==
    {t \in [1..Cardinality(S) -> S] :
        \A j, k \in DOMAIN t : j < k =>
            \E m, n \in DOMAIN Lanes : m < n /\ Lanes[m] = t[j] /\ Lanes[n] = t[k]}

\* emit_arc: every lane is offered the event, and the idle ones among them are
\* scheduled.
RelayEmit ==
    LET e == Head(relay.out)
        idle == {l \in Subs : lane[l].phase = "Idle"}
    IN /\ relay.pc = "emit"
       /\ lane' = [l \in Subs |-> Enqueue(lane[l], e)]
       /\ \E turns \in InOrder(idle \ Dedicated) :
             /\ ready' = Schedule(ready, turns)
             /\ worker' = IF turns = <<>> THEN WakeDedicated(idle) ELSE SharedWoken(WakeDedicated(idle))
       /\ relay' = AfterEmit(Cardinality({l \in Subs : ReportsClosed(lane[l], e)}))
       /\ owed' = [l \in Subs |-> IF lane[l].phase = "Finished" \/ Internal(e)
                                  THEN owed[l] ELSE owed[l] + 1]
       /\ unreported' = IF e.kind = "lagged" THEN unreported - e.n ELSE unreported
       /\ UNCHANGED <<busVars, token, set, panics, cpc, last>>

\* The "closed" diagnostics go to the bus after the set's lock is released.
RelayReport ==
    /\ relay.pc = "report"
    /\ PublishTo(Closed)
    /\ bell' = IF BecameNonempty(ring) THEN NotifyOne(bell) ELSE bell
    /\ relay' = AfterEmit(relay.closed - 1)
    /\ UNCHANGED <<ppc, published, token, setVars, owed, last>>

Relay ==
    \/ RelayTop \/ RelayTry \/ RelayWake \/ DrainTake \/ DrainClose
    \/ RelayEmit \/ RelayReport

-----------------------------------------------------------------------------
(* Callback threads: run_shared_worker with run_shared_quantum, and        *)
(* run_dedicated_lane.                                                     *)

At(w, pc) == worker[w].pc = pc
Goto(w, pc) ==
    worker' = [worker EXCEPT ![w] =
                 IF pc = "next" THEN [Idle EXCEPT !.pc = "next"] ELSE [@ EXCEPT !.pc = pc, !.ev = NoEvent]]

\* SharedQueue::next: waits only while the queue is empty and open.
SharedNext ==
    LET w == SharedWorker
    IN /\ At(w, "next")
       /\ IF ready.lanes # <<>>
          THEN /\ worker' = [worker EXCEPT ![w].pc = "begin", ![w].lane = Head(ready.lanes)]
               /\ ready' = [ready EXCEPT !.lanes = Tail(@)]
          ELSE Goto(w, IF ready.closed THEN "exit" ELSE "parked") /\ UNCHANGED ready
       /\ UNCHANGED <<busVars, token, relay, set, lane, panics, cpc, histories>>

\* The worker takes a scheduled lane.  The shared one skips a lane that was
\* aborted meanwhile; a dedicated one waits on an idle lane and ends with a
\* finished one.
Begin(w) ==
    LET l == worker[w].lane
        s == lane[l]
    IN /\ At(w, "begin")
       /\ IF s.phase = "Scheduled" /\ (w = SharedWorker => ~s.abort)
          THEN /\ lane' = [lane EXCEPT ![l] = Claim(@)]
               /\ worker' = [worker EXCEPT ![w].pc = "pick", ![w].left = Quantum]
          ELSE /\ Goto(w, IF w = SharedWorker THEN "next"
                          ELSE IF s.phase = "Idle" THEN "parked" ELSE "exit")
               /\ UNCHANGED lane
       /\ UNCHANGED <<busVars, token, relay, set, ready, panics, cpc, histories>>

\* A turn of the callback loop chooses the next call under the lane's lock: an
\* event, else one summary of the losses, else the end or a rest.
Pick(w) ==
    LET l == worker[w].lane
        s == lane[l]
        Call(e) == worker' = [worker EXCEPT ![w].pc = "call", ![w].ev = e,
                                ![w].left = IF w = SharedWorker THEN @ - 1 ELSE @]
    IN /\ At(w, "pick") /\ worker[w].left > 0
       /\ \/ /\ ~s.abort /\ s.queue # <<>>
             /\ Call(Head(s.queue))
             /\ lane' = [lane EXCEPT ![l].queue = Tail(@)]
          \/ /\ ~s.abort /\ s.queue = <<>> /\ s.dropped # 0
             /\ Call(Summary(s.dropped))
             /\ lane' = [lane EXCEPT ![l].dropped = 0]
          \/ /\ s.abort \/ (NothingPending(s) /\ s.closing)
             /\ Goto(w, "finish") /\ UNCHANGED lane
          \/ /\ ~s.abort /\ NothingPending(s) /\ ~s.closing
             /\ Goto(w, "rest") /\ UNCHANGED lane
       /\ UNCHANGED <<busVars, token, relay, set, ready, panics, cpc, histories>>

\* Mutant: the lane goes to rest on the strength of the earlier look.
RestUnchecked(s, shared) == IF s.abort \/ s.closing THEN "finish" ELSE "idle"

\* What the second look finds before a lane goes to rest: the lane may have
\* been closed or have received events since Pick released its lock.
RestVerdict(s, shared) ==
    CASE s.abort \/ s.closing -> "finish"
      [] ~(s.abort \/ s.closing) /\ NothingPending(s) -> "idle"
      [] OTHER -> IF shared THEN "resched" ELSE "pick"

\* The end of a full quantum; the callbacks of other shared lanes come first.
QuantumVerdict(s) ==
    CASE s.abort \/ (s.closing /\ NothingPending(s)) -> "finish"
      [] ~s.abort /\ ~s.closing /\ NothingPending(s) -> "idle"
      [] OTHER -> "resched"

\* The worker stops calling: it finishes the lane, rests it, or queues it anew.
StopCalling(w) ==
    LET l == worker[w].lane
        s == lane[l]
        shared == w = SharedWorker
        verdict == IF At(w, "rest") THEN RestVerdict(s, shared) ELSE QuantumVerdict(s)
    IN /\ At(w, "rest") \/ (At(w, "pick") /\ worker[w].left = 0)
       /\ lane' = [lane EXCEPT ![l] = CASE verdict = "idle"    -> Rest(s)
                                        [] verdict = "resched" -> Yield(s)
                                        [] OTHER               -> s]
       /\ Goto(w, CASE verdict = "idle" -> (IF shared THEN "next" ELSE "begin")
                    [] OTHER            -> verdict)
       /\ UNCHANGED <<busVars, token, relay, set, ready, panics, cpc, histories>>

\* shared.schedule after the lane's lock is released.
Reschedule ==
    LET w == SharedWorker
    IN /\ At(w, "resched")
       /\ ready' = Schedule(ready, <<worker[w].lane>>)
       /\ Goto(w, "next")
       /\ UNCHANGED <<busVars, token, relay, set, lane, panics, cpc, histories>>

\* How many ordinary events a callback learns of: the one in hand, or the
\* losses a summary reports.
Settled(e) == CASE ~Internal(e) -> 1 [] e.kind = "full" -> e.n [] OTHER -> 0

Deliver(l, e) ==
    /\ owed' = IF lane[l].abort THEN owed
               ELSE [owed EXCEPT ![l] = @ - Settled(e)]
    /\ last' = IF e.kind = "task" THEN [last EXCEPT ![l] = e.n] ELSE last

\* invoke_subscriber, the callback returns.
CallReturns(w) ==
    /\ At(w, "call")
    /\ Deliver(worker[w].lane, worker[w].ev)
    /\ Goto(w, "pick")
    /\ UNCHANGED <<busVars, token, relay, set, lane, ready, panics, cpc, unreported>>

\* It panics, and then the destructor of the payload may panic too, which
\* poisons the subscriber and ends its lane.  A panic over a diagnostic is
\* not reported.
CallPanics(w, nested) ==
    LET l == worker[w].lane
        e == worker[w].ev
    IN /\ At(w, "call") /\ l \in Panicky /\ (e.kind = "task" => panics < MaxPanics)
       /\ panics' = IF e.kind = "task" THEN panics + 1 ELSE panics
       /\ Deliver(l, e)
       /\ lane' = IF nested THEN [lane EXCEPT ![l].own = "poisoned"] ELSE lane
       /\ IF Internal(e) THEN UNCHANGED <<ring, unreported>> ELSE PublishTo(Panicked)
       /\ Goto(w, IF ~Internal(e) /\ BecameNonempty(ring) THEN "notify"
                  ELSE IF nested THEN "finish" ELSE "pick")
       /\ UNCHANGED <<bell, ppc, published, token, relay, set, ready, cpc>>

WorkerNotifies(w) ==
    /\ At(w, "notify")
    /\ bell' = NotifyOne(bell)
    /\ Goto(w, IF lane[worker[w].lane].own = "poisoned" THEN "finish" ELSE "pick")
    /\ UNCHANGED <<ring, ppc, published, token, relay, set, lane, ready, panics, cpc, histories>>

\* finish_running; the subscriber is handed over and then the closer told.
Finish(w) ==
    /\ At(w, "finish")
    /\ lane' = [lane EXCEPT ![worker[w].lane] = FinishRunning(@)]
    /\ owed' = LET s == lane[worker[w].lane]
               IN IF s.abort \/ s.own = "poisoned" THEN [owed EXCEPT ![worker[w].lane] = 0] ELSE owed
    /\ Goto(w, IF w = SharedWorker THEN "next" ELSE "exit")
    /\ UNCHANGED <<busVars, token, relay, set, ready, panics, cpc, unreported, last>>

\* Everything a callback thread does besides returning from user code.
WorkerStep(w) ==
    \/ Begin(w) \/ Pick(w) \/ StopCalling(w) \/ WorkerNotifies(w) \/ Finish(w)
    \/ w = SharedWorker /\ (SharedNext \/ Reschedule)

CallEnds(w) == CallReturns(w) \/ \E nested \in BOOLEAN : CallPanics(w, nested)

-----------------------------------------------------------------------------
(* close and Drop of the set.  The cleanup joins the relay before close;   *)
(* the relay holds the set, so Drop finds it gone too.                     *)

CloseBegins ==
    /\ set = "started" /\ relay.pc = "done"
    /\ set' = "closed" /\ cpc' = "waiting"
    /\ lane' = [l \in Subs |-> BeginClose(lane[l])]
    /\ worker' = WakeDedicated(Subs)
    /\ UNCHANGED <<busVars, token, relay, ready, panics, histories>>

\* SubscriberWorkers::drop closes the ready queue and abandons what is in it.
ClosedQueue == [lanes |-> <<>>, closed |-> TRUE]

\* Every lane has told the closer that it is over.
CloseDrained ==
    /\ cpc = "waiting" /\ \A l \in Subs : lane[l].phase = "Finished"
    /\ cpc' = "done"
    /\ ready' = ClosedQueue /\ worker' = SharedWoken(worker)
    /\ UNCHANGED <<busVars, token, relay, set, lane, panics, histories>>

\* Every lane is aborted, then the workers are detached.
AbortAll ==
    /\ cpc' = "done"
    /\ lane' = [l \in Subs |-> Abort(lane[l])]
    /\ ready' = ClosedQueue /\ worker' = SharedWoken(WakeDedicated(Subs))
    /\ owed' = [l \in Subs |-> 0]

\* The deadline, which a zero timeout makes immediate.
CloseDeadline ==
    /\ cpc = "waiting"
    /\ AbortAll
    /\ UNCHANGED <<busVars, token, relay, set, panics, unreported, last>>

DropSet ==
    /\ set = "started" /\ relay.pc = "done"
    /\ set' = "closed"
    /\ AbortAll
    /\ UNCHANGED <<busVars, token, relay, panics, unreported, last>>

Closer == CloseDrained \/ CloseDeadline

DeliveryNext ==
    \/ StartSet \/ CancelRuntime \/ Relay \/ CloseBegins \/ DropSet \/ Closer
    \/ \E p \in Publishers : Publish(p) \/ Notify(p)
    \/ \E w \in Workers : WorkerStep(w) \/ CallEnds(w)

DeliverySpec == DeliveryInit /\ [][DeliveryNext]_eventVars

\* Threads and tokio's relay task are scheduled, a publisher leaves its
\* publication, the timer fires, and callbacks that do not hang return.
\* Nothing obliges anybody to publish, start or shut down.  Publications and
\* panics are bounded, so a behaviour is finite, and fairness to all of these
\* together says no more than fairness to each.
DeliveryFairSpec ==
    /\ DeliverySpec
    /\ WF_eventVars(\/ Relay \/ Closer
                    \/ \E p \in Publishers : Notify(p)
                    \/ \E w \in Workers : WorkerStep(w) \/ (w \notin Hung /\ CallEnds(w)))

-----------------------------------------------------------------------------
(* Properties.                                                             *)

\* The thread that calls l's subscriber, and the threads that call it, are
\* about to or have just done so.
Thread(l)  == IF l \in Dedicated THEN l ELSE SharedWorker
Callers(l) ==
    {w \in Workers : worker[w].lane = l /\ worker[w].pc \in {"pick", "call", "notify", "rest", "finish"}}

\* Its callback is under way, with this event.
InCall(l) == worker[Thread(l)].lane = l /\ At(Thread(l), "call")
InHand(l) == worker[Thread(l)].ev

\* Where the ordinary events of a queue stand.
Ordinary(q) == {k \in DOMAIN q : ~Internal(q[k])}

\* No event is lost unseen.  What the ring displaced, or discarded at the end,
\* is still counted there, in the relay's hands, or was put in a diagnostic
\* offered to every lane; and until a lane is closed every ordinary event
\* offered to it reaches its callback, is queued, or is counted for the next
\* overflow summary.
LossAccounted ==
    /\ unreported = ring.dropped + relay.lost +
          (IF \E k \in DOMAIN relay.out : relay.out[k].kind = "lagged"
           THEN relay.out[Len(relay.out)].n ELSE 0)
    /\ relay.pc = "done" => unreported = 0 /\ ring.closed
    /\ \A l \in Subs : lane[l].phase # "Finished" /\ ~lane[l].abort =>
          owed[l] = Cardinality(Ordinary(lane[l].queue)) + lane[l].dropped +
                    (IF InCall(l) THEN Settled(InHand(l)) ELSE 0)

\* One callback at a time and in order: a running lane is in the hands of one
\* thread together with its subscriber, any other lane holds its subscriber
\* (what the expect in run_shared_quantum relies on) or has given it up for
\* good, and what a callback gets next is newer than all it got before.
SerialInOrder ==
    \A l \in Subs :
        LET q == lane[l].queue
            Newer(n) == \A k \in Ordinary(q) : n < q[k].n
        IN /\ Cardinality(Callers(l)) = (IF lane[l].phase = "Running" THEN 1 ELSE 0)
           /\ CASE lane[l].phase = "Running"  -> lane[l].own \in {"worker", "poisoned"}
                [] lane[l].phase = "Finished" -> lane[l].own # "lane"
                [] OTHER                      -> lane[l].own = "lane"
           /\ Newer(last[l])
           /\ InCall(l) /\ ~Internal(InHand(l)) => last[l] < InHand(l).n /\ Newer(InHand(l).n)
           /\ \A j, k \in Ordinary(q) : j < k => q[j].n < q[k].n

\* No wakeup is lost.  The relay never sleeps beside a ring with events unless
\* somebody is about to ring the bell; a lane at rest has nothing pending; a
\* scheduled lane is in the ready queue, in the hands that will put it there
\* or with its thread; and no thread sleeps while its queue has work.
LanesAttended ==
    /\ relay.pc = "asleep" /\ ring.events # <<>> =>
          \/ bell.waiter \in {"woken", "ready"}
          \/ \E p \in Publishers : ppc[p] = "notify"
          \/ \E w \in Workers : At(w, "notify")
    /\ \A l \in Subs :
          /\ lane[l].phase = "Idle" => NothingPending(lane[l])
          /\ lane[l].phase = "Scheduled" /\ l \notin Dedicated =>
                \/ l \in ToSet(ready.lanes)
                \/ worker[SharedWorker].lane = l /\ worker[SharedWorker].pc \in {"begin", "resched"}
          /\ l \in Dedicated /\ At(l, "parked") => lane[l].phase = "Idle"
    /\ At(SharedWorker, "parked") => ready.lanes = <<>> /\ ~ready.closed

\* A close that was not cut short by its deadline delivers what was queued: a
\* lane that ended without an abort and without a broken callback owes its
\* subscriber nothing.
CloseDrains ==
    \A l \in Subs : lane[l].phase = "Finished" => owed[l] = 0

\* Delivery comes to rest.  Published events travel through the relay to
\* every lane, beside a dedicated callback that hangs too; losses are
\* summarised, and a close or drop that began ends with every other lane
\* finished and its subscriber handed over.
Settles ==
    <>[](set # "pending" =>
           /\ relay.pc \in {"asleep", "done"} /\ ring.events = <<>>
           /\ cpc \in {"off", "done"}
           /\ \A l \in Subs \ Hung :
                /\ NothingPending(lane[l])
                /\ lane[l].phase \in (IF cpc = "done" THEN {"Finished"} ELSE {"Idle", "Finished"}))
=============================================================================
