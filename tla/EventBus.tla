------------------------------ MODULE EventBus ------------------------------
(***************************************************************************)
(* The bounded event ring of src/events/bus.rs as operators on its state:  *)
(* a ring is what RingState's mutex protects, a bell is tokio's Notify     *)
(* with the one receiver that ever waits on it.                            *)
(***************************************************************************)
EXTENDS Naturals, Sequences

CONSTANT RingCapacity   \* bus_capacity

ASSUME RingAssumption == RingCapacity \in Nat \ {0}

\* What the code tells apart about an event: an ordinary one has a number, an
\* overflow diagnostic the number of events it reports lost, by the ring
\* ("lagged", or "closed" with none) or by one lane ("full").
Task(n)     == [kind |-> "task", n |-> n]
Lagged(k)   == [kind |-> "lagged", n |-> k]
Closed      == [kind |-> "closed", n |-> 0]
Summary(k)  == [kind |-> "full", n |-> k]
Panicked    == [kind |-> "panicked", n |-> 0]

\* Mutant: a caught panic counts as an ordinary event.
InternalOverflow(e) == e.kind \in {"lagged", "closed", "full"}

\* Event::is_internal_diagnostic.
Internal(e) == e.kind \in {"lagged", "closed", "full", "panicked"}

EmptyRing == [events |-> <<>>, dropped |-> 0, closed |-> FALSE]

Full(r) == Len(r.events) = RingCapacity

PushRetainingNewest(r, e) ==
    [r EXCEPT !.events = Append(IF Full(r) THEN Tail(@) ELSE @, e),
              !.dropped = IF Full(r) THEN @ + 1 ELSE @]

\* Publication to a closed ring is ignored.
PublishEnabled(r, e) == IF r.closed THEN r ELSE PushRetainingNewest(r, e)

\* Only the publication that found the ring empty rings the bell.
BecameNonempty(r) == ~r.closed /\ r.events = <<>>

\* try_message: the oldest event, and with it every loss counted so far.
TryMessage(r) == [r EXCEPT !.events = Tail(@), !.dropped = 0]

CloseAndTakePending(r) == [events |-> <<>>, dropped |-> 0, closed |-> TRUE]

-----------------------------------------------------------------------------
(* tokio::sync::Notify with a single waiter.  "waiting": a registered      *)
(* Notified; "woken": that one was notified; "ready": the Notified found a *)
(* stored permit when it was enabled.                                      *)

SilentBell == [permit |-> FALSE, waiter |-> "none"]

NotifyOne(b) ==
    IF b.waiter = "waiting" THEN [b EXCEPT !.waiter = "woken"] ELSE [b EXCEPT !.permit = TRUE]

EnableNotified(b) ==
    [permit |-> FALSE, waiter |-> IF b.permit THEN "ready" ELSE "waiting"]

\* A Notified dropped after it was notified passes the notification on.
DropNotified(b) == [permit |-> b.permit \/ b.waiter = "woken", waiter |-> "none"]
=============================================================================
