--------------------------- MODULE SubscriberLane ---------------------------
(***************************************************************************)
(* One subscriber's lane as operators on what SubscriberLaneState's mutex  *)
(* protects (src/subscribers/subscriber_set.rs).  own says where the one   *)
(* charged OwnedSubscriber is: in the lane, with a callback worker, or     *)
(* handed to deferred cleanup.                                             *)
(***************************************************************************)
EXTENDS EventBus

CONSTANT LaneCapacity   \* queue_capacity of every subscriber

ASSUME LaneAssumption == LaneCapacity \in Nat \ {0}

NewLane ==
    [queue |-> <<>>, dropped |-> 0, phase |-> "Idle", closing |-> FALSE,
     abort |-> FALSE, reported |-> FALSE, own |-> "lane"]

NothingPending(s) == s.queue = <<>> /\ s.dropped = 0

\* Mutant: the event that finds the queue full is forgotten.
EnqueueUncounted(s, e) ==
    IF s.phase = "Finished" THEN [s EXCEPT !.reported = @ \/ ~Internal(e)]
    ELSE IF Len(s.queue) = LaneCapacity THEN s
    ELSE [s EXCEPT !.queue = Append(@, e), !.phase = IF @ = "Idle" THEN "Scheduled" ELSE @]

\* Mutant: push_front, the newest event is delivered first.
EnqueueAtFront(s, e) ==
    IF s.phase = "Finished" THEN [s EXCEPT !.reported = @ \/ ~Internal(e)]
    ELSE IF Len(s.queue) = LaneCapacity
    THEN [s EXCEPT !.dropped = IF Internal(e) THEN @ ELSE @ + 1]
    ELSE [s EXCEPT !.queue = <<e>> \o @, !.phase = IF @ = "Idle" THEN "Scheduled" ELSE @]

\* enqueue: a finished lane is reported closed by the first ordinary event, a
\* full one counts the ordinary event it loses.
Enqueue(s, e) ==
    IF s.phase = "Finished" THEN [s EXCEPT !.reported = @ \/ ~Internal(e)]
    ELSE IF Len(s.queue) = LaneCapacity
    THEN [s EXCEPT !.dropped = IF Internal(e) THEN @ ELSE @ + 1]
    ELSE [s EXCEPT !.queue = Append(@, e), !.phase = IF @ = "Idle" THEN "Scheduled" ELSE @]

\* EnqueueResult::Closed, given to one ordinary event only.
ReportsClosed(s, e) == s.phase = "Finished" /\ ~s.reported /\ ~Internal(e)

\* A worker takes the lane and its subscriber.
Claim(s) == [s EXCEPT !.phase = "Running", !.own = "worker"]

\* A worker gives the lane back, to rest or to wait for its next turn.
Rest(s)  == [s EXCEPT !.phase = "Idle", !.own = "lane"]
Yield(s) == [s EXCEPT !.phase = "Scheduled", !.own = "lane"]

\* finish_running: whatever is queued is dropped, the subscriber handed over;
\* a poisoned one takes its ownership unit with it.
FinishRunning(s) ==
    [s EXCEPT !.phase = "Finished", !.queue = <<>>, !.dropped = 0,
              !.own = IF @ = "poisoned" THEN "retired" ELSE "submitted"]

\* begin_close: an idle lane ends at once and gives up its subscriber.
BeginClose(s) ==
    IF s.phase = "Idle"
    THEN [s EXCEPT !.closing = TRUE, !.phase = "Finished", !.own = "submitted"]
    ELSE [s EXCEPT !.closing = TRUE]

\* abort: nothing stays queued, and a lane without a callback under way ends.
Abort(s) ==
    LET over == s.phase \in {"Idle", "Scheduled"}
    IN [s EXCEPT !.closing = TRUE, !.abort = TRUE, !.queue = <<>>, !.dropped = 0,
                 !.phase = IF over THEN "Finished" ELSE @,
                 !.own = IF over THEN "submitted" ELSE @]
=============================================================================
