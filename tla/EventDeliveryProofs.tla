-------------------------- MODULE EventDeliveryProofs --------------------------
(***************************************************************************)
(* Proofs about event delivery: for every number of subscribers, threads   *)
(* and publishers and for all capacities, one thread calls a subscriber at *)
(* a time and in order, no wakeup is lost, and no event is lost uncounted. *)
(***************************************************************************)
EXTENDS EventDelivery, QueueLemmas

(***************************************************************************)
(* Types.                                                                  *)
(***************************************************************************)

\* What is published to the ring, offered to the lanes, given to a callback.
RingKinds  == {"task", "closed", "panicked"}
OfferKinds == RingKinds \cup {"lagged"}
AllKinds   == OfferKinds \cup {"full"}
Events(K)  == [kind : K, n : Nat]

RingRecord == [events : Seq(Events(RingKinds)), dropped : Nat, closed : BOOLEAN]

RelayPcs    == {"off", "top", "try", "asleep", "drain", "emit", "report", "done"}
RelayRecord == [pc : RelayPcs, out : Seq(Events(OfferKinds)), closed : Nat,
                draining : BOOLEAN, left : Nat, lost : Nat]

LaneRecord == [queue : Seq(Events(OfferKinds)), dropped : Nat,
               phase : {"Idle", "Scheduled", "Running", "Finished"},
               closing : BOOLEAN, abort : BOOLEAN, reported : BOOLEAN,
               own : {"lane", "worker", "poisoned", "submitted", "retired"}]

\* Where a thread has a lane in its hands.
Calling      == {"pick", "call", "notify", "rest", "finish"}
WorkerPcs    == Calling \cup {"off", "next", "begin", "resched", "parked", "exit"}
WorkerRecord == [pc : WorkerPcs, lane : Subs \cup {SharedWorker}, left : Nat,
                 ev : Events(AllKinds)]
ReadyRecord  == [lanes : Seq(Subs \ Dedicated), closed : BOOLEAN]

SetTypes ==
    /\ set \in {"pending", "started", "closed"}
    /\ lane \in [Subs -> LaneRecord] /\ worker \in [Workers -> WorkerRecord]
    /\ ready \in ReadyRecord
CountTypes == owed \in [Subs -> Int] /\ last \in [Subs -> Nat]

(***************************************************************************)
(* The relay.                                                              *)
(***************************************************************************)

\* The events in the relay's hands: one from the ring, and a loss report
\* behind it or alone.  A ring that is closed is empty and owes nothing.
Forwarding ==
    /\ ring \in RingRecord /\ relay \in RelayRecord
    /\ relay.pc \in {"emit", "report"} <=> relay.out # <<>>
    /\ Len(relay.out) <= 2
    /\ \A k \in DOMAIN relay.out : /\ k > 1 => relay.out[k].kind = "lagged"
                                   /\ relay.out[k].kind = "lagged" => k = Len(relay.out)
    /\ relay.pc = "report" => relay.out[1].kind = "task"
    /\ ring.closed => /\ ring.events = <<>> /\ ring.dropped = 0 /\ relay.lost = 0
                      /\ relay.pc \in {"emit", "report", "done"}
    /\ relay.pc = "done" => ring.closed

\* The ring's losses, up to the report of them.
Reporting(out) ==
    IF \E k \in DOMAIN out : out[k].kind = "lagged" THEN out[Len(out)].n ELSE 0
Lost ==
    /\ published \in Nat /\ unreported \in Int
    /\ unreported = ring.dropped + relay.lost + Reporting(relay.out)

Ringing == (\E p \in Publishers : ppc[p] = "notify") \/ (\E w \in Workers : At(w, "notify"))

\* The relay sleeps with a registered waiter, and not beside a filled ring
\* unless it has been woken or somebody is about to.
Rung ==
    /\ bell \in [permit : BOOLEAN, waiter : {"none", "waiting", "woken", "ready"}]
    /\ ppc \in [Publishers -> {"idle", "notify"}]
    /\ relay.pc \in {"try", "asleep"} => bell.waiter \in {"waiting", "woken", "ready"}
    /\ relay.pc = "asleep" /\ ring.events # <<>> => bell.waiter \in {"woken", "ready"} \/ Ringing

(***************************************************************************)
(* The lanes and their threads.                                            *)
(***************************************************************************)

\* Nothing has begun before the set is started.
Unstarted ==
    set = "pending" => /\ relay.pc = "off"
                       /\ \A w \in Workers : At(w, "off")

\* A dedicated thread v = worker[w] has its own lane and no quantum, the
\* shared one a lane that has no thread.
Serving(w, v) ==
    /\ w \in Dedicated => /\ v.pc # "off" => v.lane = w
                          /\ v.pc \notin {"next", "resched"}
                          /\ v.pc \in Calling => v.left > 0
    /\ w = SharedWorker /\ v.pc \in Calling \cup {"begin", "resched"} =>
          v.lane \in Subs \ Dedicated

\* Lane l in state s, whose thread is v and whose turns are those of q.
Attended(l, s, v, q) ==
    /\ s.phase = "Running" <=> v.lane = l /\ v.pc \in Calling
    /\ CASE s.phase = "Running"  -> s.own \in {"worker", "poisoned"}
         [] s.phase = "Finished" -> s.own # "lane"
         [] OTHER                -> s.own = "lane"
    /\ s.abort => s.phase \in {"Running", "Finished"}
    /\ q.closed => s.phase = "Finished" \/ (s.phase = "Running" /\ s.abort)
    /\ s.phase = "Idle" => NothingPending(s)
    /\ s.phase = "Scheduled" /\ l \notin Dedicated =>
          l \in ToSet(q.lanes) \/ (v.lane = l /\ v.pc \in {"begin", "resched"})
    /\ l \in Dedicated /\ v.pc = "parked" => s.phase = "Idle"

\* Lane l has the debt d: its queue, its counted losses, the call under way.
Calls(l, v) == v.lane = l /\ v.pc = "call"
Owing(l, s, v, d) ==
    s.phase # "Finished" /\ ~s.abort =>
        d = Cardinality(Ordinary(s.queue)) + s.dropped + (IF Calls(l, v) THEN Settled(v.ev) ELSE 0)

(***************************************************************************)
(* Order.                                                                  *)
(***************************************************************************)

\* The numbers of a queue's ordinary events go up.
Rising(q) == \A j, k \in Ordinary(q) : j < k => q[j].n < q[k].n
Above(q, n) == \A k \in Ordinary(q) : n < q[k].n

\* What lane l has seen: its last call, the call under way, its queue.
Seen(l, s, v, n) ==
    {n} \cup {s.queue[k].n : k \in Ordinary(s.queue)} \cup
    {m \in {v.ev.n} : Calls(l, v) /\ ~Internal(v.ev)}

Ordered(l, s, v, n) ==
    /\ Rising(s.queue) /\ Above(s.queue, n)
    /\ Calls(l, v) /\ ~Internal(v.ev) => n < v.ev.n /\ Above(s.queue, v.ev.n)

\* What is to come is newer than what the lanes have seen.
Coming(m) ==
    /\ m <= published /\ Above(ring.events, m)
    /\ relay.pc = "emit" /\ ~Internal(relay.out[1]) => m < relay.out[1].n
Numbered ==
    /\ Rising(ring.events) /\ \A k \in Ordinary(ring.events) : ring.events[k].n <= published
    /\ relay.out # <<>> /\ ~Internal(relay.out[1]) =>
          relay.out[1].n <= published /\ Above(ring.events, relay.out[1].n)

\* Lane l beside its thread.
Served(l) ==
    LET v == worker[Thread(l)]
    IN /\ Attended(l, lane[l], v, ready)
       /\ Owing(l, lane[l], v, owed[l])
       /\ Ordered(l, lane[l], v, last[l])
       /\ \A m \in Seen(l, lane[l], v, last[l]) : Coming(m)

\* The threads; the shared one sleeps only beside an empty queue.
Serviced ==
    /\ \A w \in Workers : Serving(w, worker[w])
    /\ At(SharedWorker, "parked") => ready.lanes = <<>> /\ ~ready.closed

Bus == Forwarding /\ Lost /\ Numbered

\* The inductive invariant of event delivery.
DeliveryInvariant ==
    /\ SetTypes /\ CountTypes /\ Bus /\ Rung /\ Unstarted /\ Serviced
    /\ \A l \in Subs : Served(l)

(***************************************************************************)
(* The ordinary events of a queue.                                         *)
(***************************************************************************)

\* An event is ordinary when it is none of the diagnostics.
LEMMA OrdinaryKind ==
  ASSUME NEW e \in Events(AllKinds)
  PROVE  /\ ~Internal(e) <=> e.kind = "task"
         /\ e.n \in Nat /\ e.kind \in AllKinds /\ Settled(e) \in Nat
         /\ e.kind = "task" => Settled(e) = 1
         /\ e.kind = "full" => Settled(e) = e.n
         /\ e.kind \notin {"task", "full"} => Settled(e) = 0
BY DEF Events, AllKinds, OfferKinds, RingKinds, Internal, Settled

\* What stands in a queue of events.
LEMMA EventAt ==
  ASSUME NEW K, NEW q \in Seq(Events(K)), NEW k \in 1..Len(q)
  PROVE  q[k] \in Events(K) /\ q[k].n \in Nat /\ q[k].kind \in K
<1>1. q[k] \in Events(K)
  OBVIOUS
<1> QED
  BY <1>1 DEF Events

\* Positions of a queue, and how many hold ordinary events.
LEMMA OrdinaryFinite ==
  ASSUME NEW S, NEW q \in Seq(S)
  PROVE  /\ Ordinary(q) \subseteq 1..Len(q) /\ IsFiniteSet(Ordinary(q))
         /\ Cardinality(Ordinary(q)) \in Nat
         /\ \A k : k \in Ordinary(q) <=> k \in 1..Len(q) /\ ~Internal(q[k])
         /\ q = <<>> => Ordinary(q) = {} /\ Cardinality(Ordinary(q)) = 0
<1>1. DOMAIN q = 1..Len(q) /\ Len(q) \in Nat
  OBVIOUS
<1>2. Ordinary(q) \subseteq 1..Len(q)
  BY <1>1 DEF Ordinary
<1>3. IsFiniteSet(1..Len(q))
  BY <1>1, FS_Interval
<1>4. IsFiniteSet(Ordinary(q)) /\ Cardinality(Ordinary(q)) \in Nat
  BY <1>2, <1>3, FS_Subset, FS_CardinalityType
<1>5. \A k : k \in Ordinary(q) <=> k \in 1..Len(q) /\ ~Internal(q[k])
  BY <1>1 DEF Ordinary
<1>6. ASSUME q = <<>> PROVE Ordinary(q) = {}
  <2>1. 1..Len(q) = {}
    BY <1>1, <1>6
  <2> QED
    BY <1>2, <2>1
<1>7. q = <<>> => Cardinality(Ordinary(q)) = 0
  BY <1>6, FS_EmptySet
<1> QED
  BY <1>2, <1>4, <1>5, <1>6, <1>7

\* An event joins the queue.
LEMMA OrdinaryAppend ==
  ASSUME NEW S, NEW q \in Seq(S), NEW e \in S
  PROVE  LET r == Append(q, e)
         IN /\ r \in Seq(S) /\ r # <<>>
            /\ Internal(e) => Ordinary(r) = Ordinary(q)
            /\ ~Internal(e) => Ordinary(r) = Ordinary(q) \cup {Len(q) + 1}
            /\ Cardinality(Ordinary(r)) = Cardinality(Ordinary(q)) + (IF Internal(e) THEN 0 ELSE 1)
            /\ \A k \in Ordinary(q) : k \in Ordinary(r) /\ r[k] = q[k]
            /\ r[Len(q) + 1] = e
            /\ \A k \in Ordinary(r) : k \in Ordinary(q) \/ (k = Len(q) + 1 /\ ~Internal(e))
<1> DEFINE r == Append(q, e)
<1>1. /\ r \in Seq(S) /\ Len(r) = Len(q) + 1 /\ Len(q) \in Nat /\ r # <<>>
      /\ r[Len(q) + 1] = e /\ \A k \in 1..Len(q) : r[k] = q[k]
  OBVIOUS
<1> HIDE DEF r
<1>2. /\ IsFiniteSet(Ordinary(q)) /\ Cardinality(Ordinary(q)) \in Nat
      /\ \A k : k \in Ordinary(q) <=> k \in 1..Len(q) /\ ~Internal(q[k])
      /\ \A k : k \in Ordinary(r) <=> k \in 1..Len(r) /\ ~Internal(r[k])
  BY <1>1, OrdinaryFinite
<1>3. \A k \in 1..Len(r) : k \in 1..Len(q) \/ k = Len(q) + 1
  BY <1>1
<1>4. \A k \in Ordinary(q) : k \in Ordinary(r) /\ r[k] = q[k]
  BY <1>1, <1>2
<1>5. \A k \in Ordinary(r) : k \in Ordinary(q) \/ (k = Len(q) + 1 /\ ~Internal(e))
  BY <1>1, <1>2, <1>3
<1>6. ~Internal(e) => Len(q) + 1 \in Ordinary(r)
  BY <1>1, <1>2
<1>7. Len(q) + 1 \notin Ordinary(q)
  BY <1>1, <1>2
<1>8. Internal(e) => Ordinary(r) = Ordinary(q)
  BY <1>4, <1>5
<1>9. ~Internal(e) => Ordinary(r) = Ordinary(q) \cup {Len(q) + 1}
  BY <1>4, <1>5, <1>6
<1>10. Cardinality(Ordinary(q) \cup {Len(q) + 1}) = Cardinality(Ordinary(q)) + 1
  BY <1>2, <1>7, FS_AddElement
<1>11. Cardinality(Ordinary(r)) = Cardinality(Ordinary(q)) + (IF Internal(e) THEN 0 ELSE 1)
  <2>1. CASE Internal(e)
    BY <1>2, <1>8, <2>1
  <2>2. CASE ~Internal(e)
    BY <1>9, <1>10, <2>2
  <2> QED
    BY <2>1, <2>2
<1> QED
  BY <1>1, <1>4, <1>5, <1>8, <1>9, <1>11 DEF r

\* The first event leaves the queue.
LEMMA OrdinaryTail ==
  ASSUME NEW S, NEW q \in Seq(S), q # <<>>
  PROVE  LET r == Tail(q)
         IN /\ r \in Seq(S) /\ Head(q) \in S /\ Head(q) = q[1]
            /\ \A k \in Ordinary(r) : k + 1 \in Ordinary(q) /\ r[k] = q[k + 1] /\ k \in Nat \ {0}
            /\ ~Internal(Head(q)) => 1 \in Ordinary(q)
            /\ Cardinality(Ordinary(q)) =
                  Cardinality(Ordinary(r)) + (IF Internal(Head(q)) THEN 0 ELSE 1)
<1> DEFINE r == Tail(q)
<1>1. /\ r \in Seq(S) /\ Len(r) = Len(q) - 1 /\ Len(q) \in Nat \ {0} /\ Head(q) = q[1]
      /\ q[1] \in S /\ \A k \in 1..Len(r) : r[k] = q[k + 1]
  OBVIOUS
<1> HIDE DEF r
<1>2. /\ IsFiniteSet(Ordinary(q)) /\ Cardinality(Ordinary(q)) \in Nat
      /\ IsFiniteSet(Ordinary(r)) /\ Cardinality(Ordinary(r)) \in Nat
      /\ \A k : k \in Ordinary(q) <=> k \in 1..Len(q) /\ ~Internal(q[k])
      /\ \A k : k \in Ordinary(r) <=> k \in 1..Len(r) /\ ~Internal(r[k])
  BY <1>1, OrdinaryFinite
<1>3. ASSUME NEW k \in Ordinary(r)
      PROVE  k + 1 \in Ordinary(q) /\ r[k] = q[k + 1] /\ k \in Nat \ {0}
  <2>1. k \in 1..Len(r) /\ ~Internal(r[k])
    BY <1>2
  <2>2. k + 1 \in 1..Len(q) /\ r[k] = q[k + 1] /\ k \in Nat \ {0}
    BY <1>1, <2>1
  <2> QED
    BY <1>2, <2>1, <2>2
<1>4. ASSUME NEW j \in Ordinary(q), j # 1 PROVE j - 1 \in Ordinary(r)
  <2>1. j \in 1..Len(q) /\ ~Internal(q[j])
    BY <1>2
  <2>2. j - 1 \in 1..Len(r) /\ (j - 1) + 1 = j
    BY <1>1, <1>4, <2>1
  <2>3. r[j - 1] = q[j]
    BY <1>1, <2>2
  <2> QED
    BY <1>2, <2>1, <2>2, <2>3
<1>5. 1 \in Ordinary(q) <=> ~Internal(Head(q))
  BY <1>1, <1>2
<1> DEFINE f == [k \in Ordinary(r) |-> k + 1]
<1>6. f \in Bijection(Ordinary(r), Ordinary(q) \ {1})
  <2>1. f \in [Ordinary(r) -> Ordinary(q) \ {1}]
    BY <1>3
  <2>2. \A j, k \in Ordinary(r) : f[j] = f[k] => j = k
    BY <1>3
  <2>3. ASSUME NEW j \in Ordinary(q) \ {1} PROVE \E k \in Ordinary(r) : f[k] = j
    <3>1. j \in Nat /\ j - 1 \in Ordinary(r)
      BY <1>2, <1>4
    <3>2. f[j - 1] = j
      BY <3>1
    <3> QED
      BY <3>1, <3>2
  <2> QED
    BY <2>1, <2>2, <2>3 DEF Bijection, Injection, Surjection, IsInjective
<1>7. Cardinality(Ordinary(q) \ {1}) = Cardinality(Ordinary(r))
  BY <1>2, <1>6, FS_Bijection DEF ExistsBijection
<1>8. Cardinality(Ordinary(q) \ {1}) =
         IF 1 \in Ordinary(q) THEN Cardinality(Ordinary(q)) - 1 ELSE Cardinality(Ordinary(q))
  BY <1>2, FS_RemoveElement
<1>9. Cardinality(Ordinary(q)) = Cardinality(Ordinary(r)) + (IF Internal(Head(q)) THEN 0 ELSE 1)
  <2>1. CASE Internal(Head(q))
    BY <1>2, <1>5, <1>7, <1>8, <2>1
  <2>2. CASE ~Internal(Head(q))
    BY <1>2, <1>5, <1>7, <1>8, <2>2
  <2> QED
    BY <2>1, <2>2
<1> QED
  BY <1>1, <1>3, <1>5, <1>9 DEF r

\* Appending a newer event keeps the numbers rising.
LEMMA RisingAppend ==
  ASSUME NEW S, S \subseteq Events(AllKinds), NEW q \in Seq(S), NEW e \in S,
         Rising(q), \A k \in Ordinary(q) : ~Internal(e) => q[k].n < e.n
  PROVE  /\ Rising(Append(q, e))
         /\ \A n : Above(Append(q, e), n) <=> Above(q, n) /\ (~Internal(e) => n < e.n)
<1> DEFINE r == Append(q, e)
<1>1. /\ \A k \in Ordinary(q) : k \in Ordinary(r) /\ r[k] = q[k] /\ k \in 1..Len(q)
      /\ r[Len(q) + 1] = e
      /\ ~Internal(e) => Len(q) + 1 \in Ordinary(r)
      /\ \A k \in Ordinary(r) : k \in Ordinary(q) \/ (k = Len(q) + 1 /\ ~Internal(e))
  BY OrdinaryAppend, OrdinaryFinite
<1>2. Len(q) \in Nat
  OBVIOUS
<1> HIDE DEF r
<1>3. ASSUME NEW j \in Ordinary(r), NEW k \in Ordinary(r), j < k PROVE r[j].n < r[k].n
  <2>1. CASE k \in Ordinary(q)
    <3>1. k \in 1..Len(q) /\ j # Len(q) + 1
      BY <1>1, <1>2, <1>3, <2>1
    <3>2. j \in Ordinary(q)
      BY <1>1, <3>1
    <3> QED
      BY <1>1, <1>3, <2>1, <3>2 DEF Rising
  <2>2. CASE k = Len(q) + 1 /\ ~Internal(e)
    <3>1. j # Len(q) + 1
      BY <1>2, <1>3, <2>2
    <3>2. j \in Ordinary(q)
      BY <1>1, <3>1
    <3> QED
      BY <1>1, <2>2, <3>2
  <2> QED
    BY <1>1, <2>1, <2>2
<1>4. ASSUME NEW n PROVE Above(r, n) <=> Above(q, n) /\ (~Internal(e) => n < e.n)
  BY <1>1 DEF Above
<1> QED
  BY <1>3, <1>4 DEF Rising, r

\* Taking the first event keeps the numbers rising.
LEMMA RisingTail ==
  ASSUME NEW S, S \subseteq Events(AllKinds), NEW q \in Seq(S), q # <<>>, Rising(q)
  PROVE  /\ Rising(Tail(q))
         /\ \A n : Above(q, n) => Above(Tail(q), n) /\ (~Internal(Head(q)) => n < Head(q).n)
         /\ ~Internal(Head(q)) => Above(Tail(q), Head(q).n)
<1> DEFINE r == Tail(q)
<1>1. /\ \A k \in Ordinary(r) : k + 1 \in Ordinary(q) /\ r[k] = q[k + 1] /\ k \in Nat \ {0}
      /\ Head(q) = q[1]
      /\ ~Internal(Head(q)) => 1 \in Ordinary(q)
  BY OrdinaryTail
<1> HIDE DEF r
<1>2. ASSUME NEW j \in Ordinary(r), NEW k \in Ordinary(r), j < k PROVE r[j].n < r[k].n
  <2>1. j + 1 < k + 1
    BY <1>1, <1>2
  <2> QED
    BY <1>1, <2>1 DEF Rising
<1>3. ASSUME NEW n, Above(q, n) PROVE Above(r, n) /\ (~Internal(Head(q)) => n < Head(q).n)
  BY <1>1, <1>3 DEF Above
<1>4. ASSUME ~Internal(Head(q)), NEW k \in Ordinary(r) PROVE Head(q).n < r[k].n
  <2>1. 1 < k + 1
    BY <1>1
  <2> QED
    BY <1>1, <1>4, <2>1 DEF Rising
<1> QED
  BY <1>2, <1>3, <1>4 DEF Rising, Above, r

\* Taking keeps a bound on the numbers.
LEMMA BoundTail ==
  ASSUME NEW S, NEW q \in Seq(S), q # <<>>,
         NEW b, \A k \in Ordinary(q) : q[k].n <= b
  PROVE  \A k \in Ordinary(Tail(q)) : Tail(q)[k].n <= b
<1> DEFINE r == Tail(q)
<1>1. \A k \in Ordinary(r) : k + 1 \in Ordinary(q) /\ r[k] = q[k + 1] /\ k \in Nat \ {0}
  BY OrdinaryTail
<1> HIDE DEF r
<1>2. \A k \in Ordinary(r) : r[k].n <= b
  BY <1>1
<1> QED
  BY <1>2 DEF r

(***************************************************************************)
(* The bus and the relay.                                                  *)
(***************************************************************************)

\* What the lanes have seen stays behind what is to come.
ComesAfter == \A m \in Nat : Coming(m) => Coming(m)'

\* What a step does to the ring at most: it keeps the order, and everything
\* new is newer.
Retains ==
    /\ ring' \in RingRecord /\ ring'.closed = ring.closed
    /\ ring.closed => ring' = ring
    /\ Rising(ring'.events)
    /\ \A k \in Ordinary(ring'.events) : ring'.events[k].n <= published'
    /\ \A m \in Nat : m <= published /\ Above(ring.events, m) => Above(ring'.events, m)

\* A publication displaces at most the oldest event.
Publishes ==
    /\ Retains
    /\ unreported' \in Int /\ unreported' = unreported + (ring'.dropped - ring.dropped)
    /\ ring'.events # <<>> => ring.events # <<>> \/ BecameNonempty(ring)

\* The fields of the ring and of the relay.
LEMMA RingFields ==
  ASSUME NEW r \in RingRecord
  PROVE  /\ r.events \in Seq(Events(RingKinds)) /\ r.dropped \in Nat /\ r.closed \in BOOLEAN
         /\ Events(RingKinds) \subseteq Events(AllKinds)
         /\ Events(RingKinds) \subseteq Events(OfferKinds)
         /\ Events(OfferKinds) \subseteq Events(AllKinds)
BY DEF RingRecord, Events, RingKinds, AllKinds, OfferKinds

\* Publication, by a runtime thread, a callback thread or the relay.
LEMMA PublishStep ==
  ASSUME Bus, NEW e \in Events(RingKinds), PublishTo(e),
         published' \in {published, published + 1},
         ~Internal(e) => e.n = published + 1 /\ published' = published + 1
  PROVE  Publishes
<1> DEFINE S == Events(RingKinds)
<1> DEFINE q == ring.events
<1>1. /\ ring \in RingRecord /\ published \in Nat /\ unreported \in Int /\ Rising(q)
      /\ \A k \in Ordinary(q) : q[k].n <= published
  BY DEF Bus, Forwarding, Lost, Numbered
<1>2. /\ q \in Seq(S) /\ ring.dropped \in Nat /\ ring.closed \in BOOLEAN
      /\ S \subseteq Events(AllKinds) /\ published' \in Nat /\ published <= published'
  BY <1>1, RingFields
<1>3. CASE ring.closed
  <2>1. ring' = ring /\ unreported' = unreported
    BY <1>3 DEF PublishTo, PublishEnabled
  <2>2. \A k \in Ordinary(q) : q[k].n <= published'
    <3> SUFFICES ASSUME NEW k \in Ordinary(q) PROVE q[k].n <= published'
      OBVIOUS
    <3>1. k \in 1..Len(q)
      BY <1>2, OrdinaryFinite
    <3>2. q[k].n \in Nat
      BY <1>2, <3>1, EventAt
    <3> QED
      BY <1>1, <1>2, <3>2
  <2> QED
    BY <1>1, <1>2, <2>1, <2>2 DEF Publishes, Retains
<1>4. CASE ~ring.closed
  <2> DEFINE t == IF Full(ring) THEN Tail(q) ELSE q
  <2>1. /\ ring'.events = Append(t, e)
        /\ ring'.dropped = IF Full(ring) THEN ring.dropped + 1 ELSE ring.dropped
        /\ ring'.closed = ring.closed
        /\ ring' = [events |-> Append(t, e),
                    dropped |-> IF Full(ring) THEN ring.dropped + 1 ELSE ring.dropped,
                    closed |-> ring.closed]
        /\ unreported' = IF Full(ring) THEN unreported + 1 ELSE unreported
    BY <1>1, <1>4 DEF PublishTo, PublishEnabled, PushRetainingNewest, RingRecord
  <2>2. Full(ring) => q # <<>>
    <3>1. q = <<>> => Len(q) = 0
      OBVIOUS
    <3> QED
      BY <3>1, RingAssumption DEF Full
  <2>3. /\ t \in Seq(S) /\ Rising(t) /\ \A m : Above(q, m) => Above(t, m)
        /\ \A k \in Ordinary(t) : t[k].n <= published /\ t[k].n \in Nat
    <3>1. CASE Full(ring)
      <4>1. /\ t \in Seq(S) /\ Rising(t) /\ \A m : Above(q, m) => Above(t, m)
            /\ \A k \in Ordinary(t) : k + 1 \in Ordinary(q) /\ t[k] = q[k + 1]
        <5>1. t = Tail(q) /\ q # <<>>
          BY <2>2, <3>1
        <5>2. /\ Tail(q) \in Seq(S)
              /\ \A k \in Ordinary(Tail(q)) : k + 1 \in Ordinary(q) /\ Tail(q)[k] = q[k + 1]
          BY <1>2, <5>1, OrdinaryTail
        <5>3. Rising(Tail(q)) /\ \A m : Above(q, m) => Above(Tail(q), m)
          BY <1>1, <1>2, <5>1, RisingTail
        <5> QED
          BY <5>1, <5>2, <5>3
      <4>2. ASSUME NEW k \in Ordinary(t) PROVE t[k].n <= published /\ t[k].n \in Nat
        <5>1. t[k].n <= published /\ k \in 1..Len(t)
          BY <1>1, <4>1, OrdinaryFinite
        <5> QED
          BY <4>1, <5>1, EventAt
      <4> QED
        BY <4>1, <4>2
    <3>2. CASE ~Full(ring)
      <4>1. t = q
        BY <3>2
      <4>2. ASSUME NEW k \in Ordinary(q) PROVE q[k].n \in Nat
        <5>1. k \in 1..Len(q)
          BY <1>2, OrdinaryFinite
        <5> QED
          BY <1>2, <5>1, EventAt
      <4> QED
        BY <1>1, <1>2, <4>1, <4>2
    <3> QED
      BY <3>1, <3>2
  <2> HIDE DEF t
  <2>4. \A k \in Ordinary(t) : ~Internal(e) => t[k].n < e.n
    BY <1>1, <2>3
  <2>5. /\ Rising(Append(t, e)) /\ Append(t, e) \in Seq(S)
        /\ \A m : Above(Append(t, e), m) <=> Above(t, m) /\ (~Internal(e) => m < e.n)
    BY <1>2, <2>3, <2>4, RisingAppend, OrdinaryAppend
  <2>6. ring' \in RingRecord
    BY <1>2, <2>1, <2>5 DEF RingRecord
  <2>7. unreported' \in Int /\ unreported' = unreported + (ring'.dropped - ring.dropped)
    BY <1>1, <1>2, <2>1
  <2>8. ASSUME NEW k \in Ordinary(Append(t, e)) PROVE Append(t, e)[k].n <= published'
    <3>1. /\ \A j \in Ordinary(t) : Append(t, e)[j] = t[j]
          /\ Append(t, e)[Len(t) + 1] = e
          /\ k \in Ordinary(t) \/ (k = Len(t) + 1 /\ ~Internal(e))
      <4>1. e \in S
        OBVIOUS
      <4> HIDE DEF S
      <4>2. t \in Seq(S)
        BY <2>3
      <4>3. ASSUME NEW j \in Ordinary(t) PROVE Append(t, e)[j] = t[j]
        <5>1. j \in 1..Len(t)
          BY <4>2, OrdinaryFinite
        <5> QED
          BY <4>1, <4>2, <5>1
      <4>4. Append(t, e)[Len(t) + 1] = e
        BY <4>1, <4>2
      <4>5. \A j \in Ordinary(Append(t, e)) :
               j \in Ordinary(t) \/ (j = Len(t) + 1 /\ ~Internal(e))
        BY <4>1, <4>2, OrdinaryAppend
      <4> QED
        BY <4>3, <4>4, <4>5
    <3>2. CASE k \in Ordinary(t)
      <4>1. PICK x : x = t[k].n
        OBVIOUS
      <4>2. x \in Nat /\ x <= published
        BY <2>3, <3>2, <4>1
      <4>3. x <= published'
        BY <1>1, <1>2, <4>2
      <4> QED
        BY <3>1, <3>2, <4>1, <4>3
    <3>3. CASE k = Len(t) + 1 /\ ~Internal(e)
      <4>1. Append(t, e)[k].n = published'
        BY <3>1, <3>3
      <4> QED
        BY <1>2, <4>1
    <3> QED
      BY <3>1, <3>2, <3>3
  <2>9. ASSUME NEW m \in Nat, m <= published, Above(q, m) PROVE Above(Append(t, e), m)
    BY <1>1, <2>3, <2>5, <2>9
  <2>10. ring.events # <<>> \/ BecameNonempty(ring)
    BY <1>4 DEF BecameNonempty
  <2> QED
    BY <2>1, <2>5, <2>6, <2>7, <2>8, <2>9, <2>10, <1>4 DEF Publishes, Retains
<1> QED
  BY <1>2, <1>3, <1>4

\* A publication that the relay does not see.
LEMMA PublishBeside ==
  ASSUME Bus, Publishes, relay' = relay, published' \in {published, published + 1}
  PROVE  Bus' /\ ComesAfter
<1>1. /\ ring \in RingRecord /\ relay \in RelayRecord /\ published \in Nat /\ unreported \in Int
      /\ published' \in Nat /\ published <= published'
  BY DEF Bus, Forwarding, Lost
<1>2. ring' \in RingRecord /\ ring.dropped \in Nat /\ ring'.dropped \in Nat
  BY <1>1, RingFields DEF Publishes, Retains
<1>3. Forwarding'
  BY <1>2 DEF Bus, Forwarding, Publishes, Retains
<1>4. Lost'
  <2>1. PICK x : x = relay.lost + Reporting(relay.out)
    OBVIOUS
  <2>2. unreported = ring.dropped + relay.lost + Reporting(relay.out)
    BY DEF Bus, Lost
  <2>3. /\ relay.lost \in Nat /\ Reporting(relay.out) \in Nat
    <3>1. relay.lost \in Nat /\ relay.out \in Seq(Events(OfferKinds))
      BY <1>1 DEF RelayRecord
    <3>2. ASSUME NEW k \in DOMAIN relay.out PROVE relay.out[Len(relay.out)].n \in Nat
      <4>1. Len(relay.out) \in DOMAIN relay.out
        BY <3>1, <3>2
      <4> QED
        BY <3>1, <4>1, EventAt
    <3> QED
      BY <3>1, <3>2 DEF Reporting
  <2>4. unreported' \in Int /\ unreported' = unreported + (ring'.dropped - ring.dropped)
    BY DEF Publishes, Retains
  <2>5. unreported' = ring'.dropped + relay.lost + Reporting(relay.out)
    BY <1>1, <1>2, <2>2, <2>3, <2>4
  <2> QED
    BY <1>1, <2>4, <2>5 DEF Lost
<1>5. Numbered' /\ ComesAfter
  <2>1. relay.out # <<>> /\ ~Internal(relay.out[1]) =>
           relay.out[1].n \in Nat /\ relay.out[1].n <= published /\ Above(ring.events, relay.out[1].n)
    <3>1. relay.out \in Seq(Events(OfferKinds))
      BY <1>1 DEF RelayRecord
    <3>2. relay.out # <<>> => relay.out[1] \in Events(OfferKinds)
      BY <3>1
    <3>3. relay.out # <<>> => relay.out[1].n \in Nat
      BY <3>2 DEF Events
    <3> QED
      BY <3>3 DEF Bus, Numbered
  <2>2. Numbered'
    <3>1. relay.out # <<>> /\ ~Internal(relay.out[1]) =>
             relay.out[1].n <= published' /\ Above(ring'.events, relay.out[1].n)
      BY <1>1, <2>1 DEF Publishes, Retains
    <3> QED
      BY <3>1 DEF Publishes, Retains, Numbered
  <2>3. ASSUME NEW m \in Nat, Coming(m) PROVE Coming(m)'
    <3>1. m <= published' /\ Above(ring'.events, m)
      BY <1>1, <2>3 DEF Coming, Publishes, Retains
    <3> QED
      BY <2>3, <3>1 DEF Coming
  <2> QED
    BY <2>2, <2>3 DEF ComesAfter
<1> QED
  BY <1>3, <1>4, <1>5 DEF Bus

\* The fields of the relay.
LEMMA RelayFields ==
  ASSUME NEW r \in RelayRecord
  PROVE  /\ r.pc \in RelayPcs /\ r.out \in Seq(Events(OfferKinds)) /\ r.closed \in Nat
         /\ r.draining \in BOOLEAN /\ r.left \in Nat /\ r.lost \in Nat
BY DEF RelayRecord

\* The losses that the relay is about to report.
LEMMA ReportingFacts ==
  ASSUME NEW out \in Seq(Events(OfferKinds))
  PROVE  /\ Reporting(out) \in Nat
         /\ out = <<>> => Reporting(out) = 0
         /\ (\A k \in DOMAIN out : out[k].kind # "lagged") => Reporting(out) = 0
         /\ (\E k \in DOMAIN out : out[k].kind = "lagged") => Reporting(out) = out[Len(out)].n
<1>1. DOMAIN out = 1..Len(out) /\ Len(out) \in Nat
  OBVIOUS
<1>2. ASSUME NEW k \in DOMAIN out PROVE out[Len(out)].n \in Nat
  <2>1. Len(out) \in 1..Len(out)
    BY <1>1, <1>2
  <2> QED
    BY <2>1, EventAt
<1>3. out = <<>> => DOMAIN out = {}
  BY <1>1
<1> QED
  BY <1>2, <1>3 DEF Reporting

\* Between its events the relay only changes its place.
Between == {"off", "top", "try", "asleep", "drain"}

LEMMA RelayMoves ==
  ASSUME Bus, UNCHANGED <<ring, unreported, published>>, relay' \in RelayRecord,
         relay'.out = relay.out, relay'.lost = relay.lost,
         relay.pc \in Between, relay'.pc \in Between
  PROVE  Bus' /\ ComesAfter
<1>1. Forwarding'
  BY DEF Bus, Forwarding, Between
<1>2. Lost'
  BY DEF Bus, Lost
<1>3. Numbered'
  BY DEF Bus, Numbered
<1>4. ComesAfter
  BY DEF ComesAfter, Coming, Between
<1> QED
  BY <1>1, <1>2, <1>3, <1>4 DEF Bus

\* The relay takes the oldest event, and reports or notes the losses.
LEMMA RelayTakes ==
  ASSUME Bus, UNCHANGED <<unreported, published>>, ring.events # <<>>, relay.pc \in Between,
         ring' = TryMessage(ring), relay' \in RelayRecord, relay'.pc = "emit",
         \/ relay'.out = <<Head(ring.events)>> /\ relay'.lost = relay.lost + ring.dropped
         \/ relay'.out = <<Head(ring.events), Lagged(ring.dropped)>> /\ relay'.lost = relay.lost
  PROVE  Bus' /\ ComesAfter
<1> DEFINE q == ring.events
<1> DEFINE h == Head(q)
<1>1. /\ ring \in RingRecord /\ relay \in RelayRecord /\ published \in Nat /\ unreported \in Int
      /\ Rising(q) /\ \A k \in Ordinary(q) : q[k].n <= published
      /\ relay.out = <<>> /\ ~ring.closed
  BY DEF Bus, Forwarding, Lost, Numbered, Between
<1>2. /\ q \in Seq(Events(RingKinds)) /\ ring.dropped \in Nat /\ relay.lost \in Nat
      /\ Events(RingKinds) \subseteq Events(AllKinds)
  BY <1>1, RingFields, RelayFields
<1>3. /\ h \in Events(RingKinds) /\ h.n \in Nat /\ h.kind \in RingKinds /\ h = q[1]
      /\ Tail(q) \in Seq(Events(RingKinds)) /\ 1 \in 1..Len(q)
  <2>1. 1 \in 1..Len(q) /\ h = q[1] /\ Tail(q) \in Seq(Events(RingKinds))
    BY <1>2
  <2> QED
    BY <1>2, <2>1, EventAt
<1>4. ring' \in RingRecord /\ ring'.events = Tail(q) /\ ring'.dropped = 0 /\ ~ring'.closed
  BY <1>1, <1>3 DEF TryMessage, RingRecord
<1>5. /\ Rising(Tail(q)) /\ \A n : Above(q, n) => Above(Tail(q), n) /\ (~Internal(h) => n < h.n)
      /\ ~Internal(h) => Above(Tail(q), h.n)
  BY <1>1, <1>2, RisingTail
<1>6. \A k \in Ordinary(Tail(q)) : Tail(q)[k].n <= published
  BY <1>1, <1>2, BoundTail
<1>7. ~Internal(h) => h.n <= published
  <2>1. ~Internal(h) => 1 \in Ordinary(q)
    BY <1>2, <1>3, OrdinaryFinite
  <2> QED
    BY <1>1, <1>3, <2>1
<1> HIDE DEF h
<1>8. /\ relay'.out \in Seq(Events(OfferKinds)) /\ relay'.out # <<>> /\ Len(relay'.out) <= 2
      /\ relay'.out[1] = h
      /\ \A k \in DOMAIN relay'.out : /\ k > 1 => relay'.out[k].kind = "lagged"
                                      /\ relay'.out[k].kind = "lagged" => k = Len(relay'.out)
      /\ relay'.lost + Reporting(relay'.out) = relay.lost + ring.dropped
      /\ Reporting(relay'.out) \in Nat /\ relay'.lost \in Nat
  <2>1. h.kind # "lagged"
    BY <1>3 DEF RingKinds
  <2>2. /\ relay'.out \in Seq(Events(OfferKinds)) /\ relay'.lost \in Nat
        /\ Reporting(relay'.out) \in Nat
    BY RelayFields, ReportingFacts
  <2>3. CASE relay'.out = <<h>> /\ relay'.lost = relay.lost + ring.dropped
    <3>1. Len(<<h>>) = 1 /\ DOMAIN <<h>> = {1} /\ <<h>>[1] = h
      OBVIOUS
    <3>2. Reporting(relay'.out) = 0
      BY <2>1, <2>2, <2>3, <3>1, ReportingFacts
    <3> QED
      BY <1>2, <2>1, <2>2, <2>3, <3>1, <3>2
  <2>4. CASE relay'.out = <<h, Lagged(ring.dropped)>> /\ relay'.lost = relay.lost
    <3>1. PICK g : g = Lagged(ring.dropped)
      OBVIOUS
    <3>2. g.kind = "lagged" /\ g.n = ring.dropped
      BY <3>1 DEF Lagged
    <3>3. Len(<<h, g>>) = 2 /\ DOMAIN <<h, g>> = {1, 2} /\ <<h, g>>[1] = h /\ <<h, g>>[2] = g
      OBVIOUS
    <3>4. Reporting(relay'.out) = ring.dropped
      <4>1. relay'.out[2].kind = "lagged" /\ 2 \in DOMAIN relay'.out /\ Len(relay'.out) = 2
        BY <2>4, <3>1, <3>2, <3>3
      <4>2. Reporting(relay'.out) = relay'.out[2].n
        BY <2>2, <4>1, ReportingFacts
      <4> QED
        BY <2>4, <3>1, <3>2, <3>3, <4>2
    <3> QED
      BY <1>2, <2>1, <2>2, <2>4, <3>1, <3>2, <3>3, <3>4
  <2> QED
    BY <2>3, <2>4 DEF h
<1>9. Forwarding'
  BY <1>4, <1>8 DEF Forwarding
<1>10. Lost'
  <2>1. unreported = ring.dropped + relay.lost + 0
    <3>1. relay.out \in Seq(Events(OfferKinds))
      BY <1>1, RelayFields
    <3>2. Reporting(relay.out) = 0
      BY <1>1, <3>1, ReportingFacts
    <3>3. unreported = ring.dropped + relay.lost + Reporting(relay.out)
      BY DEF Bus, Lost
    <3> QED
      BY <3>2, <3>3
  <2>2. unreported' = ring'.dropped + relay'.lost + Reporting(relay'.out)
    BY <1>2, <1>4, <1>8, <2>1
  <2> QED
    BY <1>1, <2>2 DEF Lost
<1>11. Numbered'
  BY <1>4, <1>5, <1>6, <1>7, <1>8 DEF Numbered
<1>12. ComesAfter
  BY <1>4, <1>5, <1>8 DEF ComesAfter, Coming
<1> QED
  BY <1>9, <1>10, <1>11, <1>12 DEF Bus

\* The relay goes on after an offer or a report; c lanes are still to be
\* reported closed.
LEMMA EmitGoesOn ==
  ASSUME Bus, relay.pc \in {"emit", "report"}, NEW c \in Int,
         c > 0 => ~Internal(relay.out[1]), relay' = AfterEmit(c)
  PROVE  /\ relay' \in RelayRecord /\ relay'.lost = relay.lost
         /\ relay'.pc \in {"emit", "report"} <=> relay'.out # <<>>
         /\ Len(relay'.out) <= 2
         /\ \A k \in DOMAIN relay'.out : /\ k > 1 => relay'.out[k].kind = "lagged"
                                         /\ relay'.out[k].kind = "lagged" => k = Len(relay'.out)
         /\ relay'.pc = "report" => relay'.out[1].kind = "task" /\ relay'.out = relay.out
         /\ relay'.pc = "emit" => Internal(relay'.out[1])
         /\ relay'.pc \in {"emit", "report", "done"} \/ ~ring.closed
         /\ relay'.pc = "done" => ring.closed
         /\ relay'.pc \notin {"try", "asleep", "off"}
         /\ Reporting(relay'.out) = IF relay.out[1].kind = "lagged" THEN 0 ELSE Reporting(relay.out)
         /\ relay.out[1].kind = "lagged" => Reporting(relay.out) = relay.out[1].n
         /\ relay.out[1] \in Events(OfferKinds)
<1> DEFINE o == relay.out
<1>1. /\ relay \in RelayRecord /\ o # <<>> /\ Len(o) <= 2
      /\ \A k \in DOMAIN o : /\ k > 1 => o[k].kind = "lagged"
                             /\ o[k].kind = "lagged" => k = Len(o)
  BY DEF Bus, Forwarding
<1>2. o \in Seq(Events(OfferKinds)) /\ relay.lost \in Nat /\ relay.closed \in Nat
  BY <1>1, RelayFields
<1>3. Len(o) \in {1, 2} /\ 1 \in 1..Len(o) /\ DOMAIN o = 1..Len(o)
  <2> HIDE DEF o
  <2>1. Len(o) \in Nat /\ Len(o) # 0 /\ DOMAIN o = 1..Len(o)
    BY <1>1, <1>2
  <2>2. Len(o) = 1 \/ Len(o) = 2
    BY <1>1, <2>1
  <2> QED
    BY <2>1, <2>2
<1>4. o[1] \in Events(OfferKinds) /\ o[1] \in Events(AllKinds)
  <2>1. o[1] \in Events(OfferKinds)
    BY <1>2, <1>3, EventAt
  <2> QED
    BY <2>1 DEF Events, AllKinds
<1>5. o[1].kind = "lagged" => Len(o) = 1 /\ Reporting(o) = o[1].n
  BY <1>1, <1>2, <1>3, ReportingFacts
<1>6. ~Internal(o[1]) <=> o[1].kind = "task"
  BY <1>4, OrdinaryKind
<1>7. CASE c > 0
  <2>1. relay' = [relay EXCEPT !.pc = "report", !.closed = c]
    BY <1>7 DEF AfterEmit
  <2>2. /\ relay' \in RelayRecord /\ relay'.lost = relay.lost /\ relay'.out = o
        /\ relay'.pc = "report"
    <3>1. c \in Nat
      BY <1>7
    <3> QED
      BY <1>1, <2>1, <3>1 DEF RelayRecord, RelayPcs
  <2>3. o[1].kind = "task"
    BY <1>6, <1>7
  <2> QED
    BY <1>1, <1>4, <2>2, <2>3
<1>8. CASE ~(c > 0)
  <2> DEFINE t == Tail(o)
  <2> DEFINE p == IF t # <<>> THEN "emit"
                  ELSE IF ring.closed THEN "done"
                  ELSE IF relay.draining THEN "drain" ELSE "top"
  <2>1. relay' = [relay EXCEPT !.out = t, !.closed = 0, !.pc = p]
    BY <1>8 DEF AfterEmit
  <2>2. /\ t \in Seq(Events(OfferKinds)) /\ Len(t) = Len(o) - 1
        /\ \A k \in 1..Len(t) : t[k] = o[k + 1]
    BY <1>1, <1>2
  <2>3. /\ t # <<>> => p = "emit"
        /\ t = <<>> => /\ p \in {"done", "drain", "top"}
                       /\ p = "done" => ring.closed
                       /\ p = "done" \/ ~ring.closed
    OBVIOUS
  <2> HIDE DEF p
  <2>4. relay' \in RelayRecord /\ relay'.lost = relay.lost /\ relay'.out = t /\ relay'.pc = p
    <3>1. p \in RelayPcs
      BY <2>3 DEF RelayPcs
    <3>2. t \in Seq(Events(OfferKinds))
      BY <2>2
    <3> HIDE DEF t
    <3>3. relay' = [pc |-> p, out |-> t, closed |-> 0, draining |-> relay.draining,
                    left |-> relay.left, lost |-> relay.lost]
      BY <1>1, <2>1 DEF RelayRecord
    <3>4. relay.draining \in BOOLEAN /\ relay.left \in Nat
      BY <1>1, RelayFields
    <3> QED
      BY <1>2, <3>1, <3>2, <3>3, <3>4 DEF RelayRecord
  <2>5. /\ t # <<>> => Len(t) = 1 /\ Len(o) = 2 /\ t[1] = o[2] /\ o[2].kind = "lagged"
        /\ o[1].kind = "lagged" => t = <<>>
    BY <1>1, <1>3, <1>5, <2>2
  <2>6. t # <<>> => Internal(t[1])
    BY <2>5 DEF Internal
  <2>7. Reporting(t) = IF o[1].kind = "lagged" THEN 0 ELSE Reporting(o)
    <3>1. CASE t = <<>>
      <4>1. Len(o) = 1
        <5>1. Len(t) = 0
          <6> HIDE DEF t
          <6> QED
            BY <3>1
        <5> QED
          BY <1>3, <2>2, <5>1
      <4>2. o[1].kind # "lagged" => Reporting(o) = 0
        BY <1>2, <1>3, <4>1, ReportingFacts
      <4>3. Reporting(t) = 0
        BY <2>2, <3>1, ReportingFacts
      <4> QED
        BY <4>2, <4>3
    <3>2. CASE t # <<>>
      <4>1. Reporting(t) = t[1].n
        <5>1. t[1].kind = "lagged" /\ Len(t) = 1
          BY <2>5, <3>2
        <5> HIDE DEF t
        <5>2. 1 \in DOMAIN t
          BY <2>2, <5>1
        <5> QED
          BY <2>2, <5>1, <5>2, ReportingFacts
      <4>2. Reporting(o) = o[2].n
        BY <1>2, <1>3, <2>5, <3>2, ReportingFacts
      <4> QED
        BY <2>5, <3>2, <4>1, <4>2
    <3> QED
      BY <3>1, <3>2
  <2> HIDE DEF t
  <2>8. \A k \in DOMAIN t : k = 1 /\ Len(t) = 1 /\ t[k].kind = "lagged"
    <3>1. DOMAIN t = 1..Len(t) /\ Len(t) \in Nat /\ (Len(t) = 0 => t = <<>>)
      BY <2>2
    <3> QED
      BY <2>5, <3>1
  <2>9. Len(t) <= 2
    BY <1>1, <1>3, <2>2
  <2> QED
    BY <1>4, <1>5, <2>3, <2>4, <2>6, <2>7, <2>8, <2>9
<1> QED
  BY <1>7, <1>8

\* A closed ring owes nothing, so that what the relay still has is its own.
LEMMA RelayGoesOn ==
  ASSUME Bus, relay.pc \in {"emit", "report"}, NEW c \in Int,
         c > 0 => ~Internal(relay.out[1]), relay' = AfterEmit(c),
         Retains, published' = published, unreported' \in Int,
         unreported' = unreported + (ring'.dropped - ring.dropped) -
            (IF relay.out[1].kind = "lagged" THEN relay.out[1].n ELSE 0)
  PROVE  /\ Bus' /\ ComesAfter
         /\ \A m \in Nat : ~Internal(relay.out[1]) /\ m = relay.out[1].n => Coming(m)'
         /\ relay'.pc \notin {"try", "asleep", "off"}
<1> DEFINE e == relay.out[1]
<1>1. /\ ring \in RingRecord /\ relay \in RelayRecord /\ published \in Nat /\ unreported \in Int
      /\ relay.out # <<>>
      /\ ring.closed => ring.events = <<>> /\ ring.dropped = 0 /\ relay.lost = 0
      /\ unreported = ring.dropped + relay.lost + Reporting(relay.out)
      /\ ~Internal(e) => e.n <= published /\ Above(ring.events, e.n)
  BY DEF Bus, Forwarding, Lost, Numbered
<1>2. /\ relay' \in RelayRecord /\ relay'.lost = relay.lost
      /\ relay'.pc \in {"emit", "report"} <=> relay'.out # <<>>
      /\ Len(relay'.out) <= 2
      /\ \A k \in DOMAIN relay'.out : /\ k > 1 => relay'.out[k].kind = "lagged"
                                      /\ relay'.out[k].kind = "lagged" => k = Len(relay'.out)
      /\ relay'.pc = "report" => relay'.out[1].kind = "task" /\ relay'.out = relay.out
      /\ relay'.pc = "emit" => Internal(relay'.out[1])
      /\ relay'.pc \in {"emit", "report", "done"} \/ ~ring.closed
      /\ relay'.pc = "done" => ring.closed
      /\ relay'.pc \notin {"try", "asleep", "off"}
  BY EmitGoesOn
<1>3. /\ Reporting(relay'.out) = IF e.kind = "lagged" THEN 0 ELSE Reporting(relay.out)
      /\ e.kind = "lagged" => Reporting(relay.out) = e.n
      /\ e \in Events(OfferKinds)
  BY EmitGoesOn
<1>4. /\ ring' \in RingRecord /\ ring'.closed = ring.closed
      /\ ring.closed => ring' = ring
      /\ Rising(ring'.events) /\ \A k \in Ordinary(ring'.events) : ring'.events[k].n <= published'
      /\ \A m \in Nat : m <= published /\ Above(ring.events, m) => Above(ring'.events, m)
  BY DEF Retains
<1>5. e.n \in Nat
  BY <1>3 DEF Events
<1>6. Forwarding'
  BY <1>1, <1>2, <1>4 DEF Forwarding
<1>7. Lost'
  <2>1. /\ ring.dropped \in Nat /\ ring'.dropped \in Nat /\ relay.lost \in Nat
        /\ Reporting(relay.out) \in Nat
    <3>1. /\ ring.dropped \in Nat /\ ring'.dropped \in Nat /\ relay.lost \in Nat
          /\ relay.out \in Seq(Events(OfferKinds))
      BY <1>1, <1>4, RingFields, RelayFields
    <3> QED
      BY <3>1, ReportingFacts
  <2>2. unreported' = ring'.dropped + relay'.lost + Reporting(relay'.out)
    <3>1. CASE e.kind = "lagged"
      BY <1>1, <1>2, <1>3, <1>5, <2>1, <3>1
    <3>2. CASE e.kind # "lagged"
      BY <1>1, <1>2, <1>3, <1>5, <2>1, <3>2
    <3> QED
      BY <3>1, <3>2
  <2> QED
    BY <1>1, <2>2 DEF Lost
<1>8. ~Internal(e) => e.n <= published' /\ Above(ring'.events, e.n)
  BY <1>1, <1>4, <1>5
<1>9. Numbered'
  BY <1>2, <1>4, <1>8 DEF Numbered
<1>10. ASSUME NEW m \in Nat, m <= published, Above(ring'.events, m) PROVE Coming(m)'
  BY <1>2, <1>10 DEF Coming
<1>11. ComesAfter
  BY <1>4, <1>10 DEF ComesAfter, Coming
<1>12. ASSUME NEW m \in Nat, ~Internal(e), m = e.n PROVE Coming(m)'
  BY <1>1, <1>8, <1>10, <1>12
<1> QED
  BY <1>2, <1>6, <1>7, <1>9, <1>11, <1>12 DEF Bus

\* At the end the relay closes the ring and reports what is left in it.
LEMMA RelayCloses ==
  ASSUME Bus, DrainClose
  PROVE  Bus' /\ ComesAfter /\ relay'.pc \in {"done", "emit"} /\ ring'.events = <<>>
<1> DEFINE lost == relay.lost + ring.dropped + Len(ring.events)
<1>1. /\ ring \in RingRecord /\ relay \in RelayRecord /\ published \in Nat /\ unreported \in Int
      /\ unreported = ring.dropped + relay.lost + Reporting(relay.out) /\ relay.out = <<>>
  BY DEF Bus, Forwarding, Lost, DrainClose
<1>2. /\ relay.lost \in Nat /\ ring.dropped \in Nat /\ Len(ring.events) \in Nat
      /\ Reporting(relay.out) = 0
  BY <1>1, RingFields, RelayFields, ReportingFacts
<1>3. lost \in Nat /\ unreported + Len(ring.events) = lost
  BY <1>1, <1>2
<1>4. /\ ring' = [events |-> <<>>, dropped |-> 0, closed |-> TRUE]
      /\ unreported' = unreported + Len(ring.events) /\ published' = published
      /\ relay' = [relay EXCEPT !.lost = 0, !.pc  = IF lost = 0 THEN "done" ELSE "emit",
                                !.out = IF lost = 0 THEN <<>> ELSE <<Lagged(lost)>>]
  BY DEF DrainClose, CloseAndTakePending
<1> HIDE DEF lost
<1>5. PICK g : g = Lagged(lost)
  OBVIOUS
<1>6. g \in Events(OfferKinds) /\ g.kind = "lagged" /\ g.n = lost /\ Internal(g)
  BY <1>3, <1>5 DEF Lagged, Events, OfferKinds, Internal
<1>7. PICK o : o = IF lost = 0 THEN <<>> ELSE <<g>>
  OBVIOUS
<1>8. /\ o \in Seq(Events(OfferKinds)) /\ Len(o) <= 2
      /\ o = <<>> <=> lost = 0
      /\ \A k \in DOMAIN o : k = 1 /\ Len(o) = 1 /\ o[k] = g
  <2>1. CASE lost = 0
    BY <1>7, <2>1
  <2>2. CASE lost # 0
    BY <1>6, <1>7, <2>2
  <2> QED
    BY <2>1, <2>2
<1>9. Reporting(o) = lost
  <2>1. CASE lost = 0
    BY <1>8, <2>1, ReportingFacts
  <2>2. CASE lost # 0
    <3>1. DOMAIN o = {1} /\ Len(o) = 1 /\ o[1] = g
      BY <1>7, <2>2
    <3> QED
      BY <1>6, <1>8, <3>1, ReportingFacts
  <2> QED
    BY <2>1, <2>2
<1>10. /\ relay' \in RelayRecord /\ relay'.out = o /\ relay'.lost = 0
       /\ relay'.pc = IF lost = 0 THEN "done" ELSE "emit"
  <2>1. relay' = [relay EXCEPT !.lost = 0, !.pc  = IF lost = 0 THEN "done" ELSE "emit", !.out = o]
    BY <1>4, <1>5, <1>7
  <2> QED
    BY <1>1, <1>8, <2>1 DEF RelayRecord, RelayPcs
<1>11. /\ ring' \in RingRecord /\ ring'.events = <<>> /\ ring'.dropped = 0 /\ ring'.closed
       /\ Rising(<<>>) /\ \A n : Above(<<>>, n) /\ Ordinary(<<>>) = {}
  BY <1>4 DEF RingRecord, Rising, Above, Ordinary
<1>12. Forwarding'
  BY <1>6, <1>8, <1>10, <1>11 DEF Forwarding
<1>13. Lost'
  BY <1>1, <1>3, <1>4, <1>9, <1>10, <1>11 DEF Lost
<1>14. relay'.out # <<>> => Internal(relay'.out[1])
  BY <1>6, <1>7, <1>10
<1>15. Numbered'
  BY <1>11, <1>14 DEF Numbered
<1>16. ComesAfter
  BY <1>4, <1>8, <1>10, <1>11, <1>14 DEF ComesAfter, Coming
<1> QED
  BY <1>10, <1>11, <1>12, <1>13, <1>15, <1>16 DEF Bus

(***************************************************************************)
(* Lanes and threads that a step leaves alone.                             *)
(***************************************************************************)

\* The fields of a lane and of a thread.
LEMMA LaneFields ==
  ASSUME NEW s \in LaneRecord
  PROVE  /\ s.queue \in Seq(Events(OfferKinds)) /\ s.dropped \in Nat
         /\ s.phase \in {"Idle", "Scheduled", "Running", "Finished"}
         /\ s.closing \in BOOLEAN /\ s.abort \in BOOLEAN /\ s.reported \in BOOLEAN
         /\ s.own \in {"lane", "worker", "poisoned", "submitted", "retired"}
BY DEF LaneRecord

\* What a thread's record holds.
LEMMA WorkerFields ==
  ASSUME NEW v \in WorkerRecord
  PROVE  /\ v.pc \in WorkerPcs /\ v.lane \in Subs \cup {SharedWorker} /\ v.left \in Nat
         /\ v.ev \in Events(AllKinds) /\ v.ev.n \in Nat
BY DEF WorkerRecord, Events

\* Who is who among the threads.
LEMMA ThreadFacts ==
  /\ \A w \in Workers : w \in Dedicated \/ w = SharedWorker
  /\ SharedWorker \in Workers /\ SharedWorker \notin Subs /\ SharedWorker \notin Dedicated
  /\ \A l \in Subs : /\ Thread(l) \in Workers
                     /\ l \in Dedicated => Thread(l) = l
                     /\ l \notin Dedicated => Thread(l) = SharedWorker
  /\ \A w \in Dedicated : w \in Subs /\ w \in Workers
BY SubscriberAssumption, WorkerNameAssumption DEF Workers, Thread

\* What a lane has seen are numbers.
LEMMA SeenNumbers ==
  ASSUME NEW l, NEW s \in LaneRecord, NEW v \in WorkerRecord, NEW n \in Nat
  PROVE  /\ Seen(l, s, v, n) \subseteq Nat
         /\ n \in Seen(l, s, v, n)
         /\ \A k \in Ordinary(s.queue) : s.queue[k].n \in Seen(l, s, v, n) /\ s.queue[k].n \in Nat
         /\ Calls(l, v) /\ ~Internal(v.ev) => v.ev.n \in Seen(l, s, v, n)
<1>1. s.queue \in Seq(Events(OfferKinds)) /\ v.ev.n \in Nat
  BY LaneFields, WorkerFields
<1>2. ASSUME NEW k \in Ordinary(s.queue) PROVE s.queue[k].n \in Nat
  <2>1. k \in 1..Len(s.queue)
    BY <1>1, OrdinaryFinite
  <2> QED
    BY <1>1, <2>1, EventAt
<1> QED
  BY <1>1, <1>2 DEF Seen

\* A lane that nobody touched: its thread did nothing either, or turned from
\* one other lane to another; its turn is still to come.
LEMMA StaysServed ==
  ASSUME NEW l \in Subs, NEW s \in LaneRecord, NEW v \in WorkerRecord, NEW u \in WorkerRecord,
         NEW q, NEW r, NEW d, NEW n \in Nat,
         Attended(l, s, v, q), Owing(l, s, v, d), Ordered(l, s, v, n),
         u = v \/ (l \notin Dedicated /\ v.lane # l /\ u.lane # l),
         r.closed = q.closed, ToSet(q.lanes) \subseteq ToSet(r.lanes)
  PROVE  /\ Attended(l, s, u, r) /\ Owing(l, s, u, d) /\ Ordered(l, s, u, n)
         /\ Seen(l, s, u, n) = Seen(l, s, v, n)
<1>1. CASE u = v
  BY <1>1 DEF Attended
<1>2. CASE l \notin Dedicated /\ v.lane # l /\ u.lane # l
  <2>1. ~Calls(l, v) /\ ~Calls(l, u)
    BY <1>2 DEF Calls
  <2>2. Attended(l, s, u, r)
    BY <1>2 DEF Attended
  <2>3. Owing(l, s, u, d) /\ Ordered(l, s, u, n)
    BY <2>1 DEF Owing, Ordered
  <2>4. Seen(l, s, u, n) = Seen(l, s, v, n)
    BY <2>1 DEF Seen
  <2> QED
    BY <2>2, <2>3, <2>4
<1> QED
  BY <1>1, <1>2

\* A step of the bus or the relay leaves the lanes as they are.
LEMMA LanesBeside ==
  ASSUME DeliveryInvariant, UNCHANGED <<set, lane, ready, worker, owed, last>>,
         Bus', ComesAfter, Rung', set = "pending" => relay'.pc = "off"
  PROVE  DeliveryInvariant'
<1>1. SetTypes' /\ CountTypes' /\ Serviced'
  BY DEF DeliveryInvariant, SetTypes, CountTypes, Serviced, At
<1>2. Unstarted'
  BY DEF DeliveryInvariant, Unstarted, At
<1>3. ASSUME NEW l \in Subs PROVE Served(l)'
  <2>1. /\ lane[l] \in LaneRecord /\ last[l] \in Nat /\ worker[Thread(l)] \in WorkerRecord
        /\ Served(l)
    BY ThreadFacts DEF DeliveryInvariant, SetTypes, CountTypes
  <2>2. Seen(l, lane[l], worker[Thread(l)], last[l]) \subseteq Nat
    BY <2>1, SeenNumbers
  <2>3. \A m \in Seen(l, lane[l], worker[Thread(l)], last[l]) : Coming(m)'
    BY <2>1, <2>2 DEF Served, ComesAfter
  <2> QED
    BY <2>1, <2>3 DEF Served
<1> QED
  BY <1>1, <1>2, <1>3 DEF DeliveryInvariant

(***************************************************************************)
(* The bell.                                                               *)
(***************************************************************************)

\* Nobody silences the bell, and only a filled ring gives reason to ring.
LEMMA RungBeside ==
  ASSUME Rung, relay' = relay, bell' = bell, Ringing => Ringing',
         ring'.events # <<>> => ring.events # <<>> \/ Ringing',
         ppc' \in [Publishers -> {"idle", "notify"}]
  PROVE  Rung'
BY DEF Rung

\* A notification wakes the relay, or is kept for it.
LEMMA RungNotify ==
  ASSUME Rung, relay' = relay, bell' = NotifyOne(bell),
         ppc' \in [Publishers -> {"idle", "notify"}]
  PROVE  Rung'
BY DEF Rung, NotifyOne

\* A relay that is not waiting for the bell misses nothing.
LEMMA RungAwake ==
  ASSUME bell' \in [permit : BOOLEAN, waiter : {"none", "waiting", "woken", "ready"}],
         ppc' \in [Publishers -> {"idle", "notify"}], relay'.pc \notin {"try", "asleep"}
  PROVE  Rung'
BY DEF Rung

\* What the bell's operations return.
LEMMA BellTypes ==
  ASSUME Rung
  PROVE  LET Bells == [permit : BOOLEAN, waiter : {"none", "waiting", "woken", "ready"}]
         IN /\ bell \in Bells /\ NotifyOne(bell) \in Bells /\ EnableNotified(bell) \in Bells
            /\ DropNotified(bell) \in Bells /\ [bell EXCEPT !.waiter = "none"] \in Bells
            /\ EnableNotified(bell).waiter \in {"waiting", "ready"}
BY DEF Rung, NotifyOne, EnableNotified, DropNotified

(***************************************************************************)
(* Steps of the publishers and the relay.                                  *)
(***************************************************************************)

\* A runtime thread publishes; the ring that was empty will be rung for.
LEMMA PublishKeeps ==
  ASSUME DeliveryInvariant, NEW p \in Publishers, Publish(p)
  PROVE  DeliveryInvariant'
<1>1. /\ published \in Nat /\ Bus /\ Rung /\ PublishTo(Task(published + 1))
      /\ published' = published + 1 /\ ppc[p] = "idle"
      /\ ppc' = [ppc EXCEPT ![p] = IF BecameNonempty(ring) THEN "notify" ELSE "idle"]
      /\ UNCHANGED <<bell, relay, set, lane, ready, worker, owed, last>>
  BY DEF DeliveryInvariant, Bus, Lost, Publish, setVars
<1>2. Publishes
  <2>1. PICK e : e = Task(published + 1)
    OBVIOUS
  <2>2. e \in Events(RingKinds) /\ e.n = published + 1
    BY <1>1, <2>1 DEF Task, Events, RingKinds
  <2> QED
    BY <1>1, <2>1, <2>2, PublishStep
<1>3. Bus' /\ ComesAfter
  BY <1>1, <1>2, PublishBeside
<1>4. Rung'
  <2>1. ppc \in [Publishers -> {"idle", "notify"}] /\ ppc' \in [Publishers -> {"idle", "notify"}]
    BY <1>1 DEF Rung
  <2>2. BecameNonempty(ring) => Ringing'
    BY <1>1, <2>1 DEF Ringing
  <2>3. Ringing => Ringing'
    BY <1>1, <2>1 DEF Ringing, At
  <2> QED
    BY <1>1, <1>2, <2>1, <2>2, <2>3, RungBeside DEF Publishes
<1>5. set = "pending" => relay'.pc = "off"
  BY <1>1 DEF DeliveryInvariant, Unstarted
<1> QED
  BY <1>1, <1>3, <1>4, <1>5, LanesBeside

\* The bell is rung.
LEMMA NotifyKeeps ==
  ASSUME DeliveryInvariant, NEW p \in Publishers, Notify(p)
  PROVE  DeliveryInvariant'
<1>1. /\ Bus /\ Rung /\ bell' = NotifyOne(bell) /\ ppc' = [ppc EXCEPT ![p] = "idle"]
      /\ UNCHANGED <<ring, published, relay, set, lane, ready, worker, unreported, owed, last>>
  BY DEF DeliveryInvariant, Notify, setVars, histories
<1>2. Bus' /\ ComesAfter
  BY <1>1 DEF Bus, Forwarding, Lost, Numbered, ComesAfter, Coming
<1>3. Rung'
  <2>1. ppc' \in [Publishers -> {"idle", "notify"}]
    BY <1>1 DEF Rung
  <2> QED
    BY <1>1, <2>1, RungNotify
<1>4. set = "pending" => relay'.pc = "off"
  BY <1>1 DEF DeliveryInvariant, Unstarted
<1> QED
  BY <1>1, <1>2, <1>3, <1>4, LanesBeside

\* Cancellation changes nothing else, a stuttering step nothing at all.
LEMMA CancelKeeps ==
  ASSUME DeliveryInvariant, CancelRuntime \/ UNCHANGED eventVars
  PROVE  DeliveryInvariant'
<1>1. /\ Bus /\ Rung
      /\ UNCHANGED <<ring, bell, ppc, published, relay, set, lane, ready, worker, unreported,
                     owed, last>>
  BY DEF DeliveryInvariant, CancelRuntime, eventVars, busVars, setVars, histories
<1>2. Bus' /\ ComesAfter
  BY <1>1 DEF Bus, Forwarding, Lost, Numbered, ComesAfter, Coming
<1>3. Rung'
  BY <1>1 DEF Rung, Ringing, At
<1>4. set = "pending" => relay'.pc = "off"
  BY <1>1 DEF DeliveryInvariant, Unstarted
<1> QED
  BY <1>1, <1>2, <1>3, <1>4, LanesBeside

\* The relay looks at the token, registers with the bell, sleeps, wakes up.
LEMMA RelayTurnKeeps ==
  ASSUME DeliveryInvariant,
         RelayTop \/ RelayWake \/ (RelayTry /\ ring.events = <<>>)
  PROVE  DeliveryInvariant'
<1>1. /\ Bus /\ Rung /\ relay \in RelayRecord /\ (set = "pending" => relay.pc = "off")
      /\ UNCHANGED <<ring, ppc, published, set, lane, ready, worker, unreported, owed, last>>
  BY DEF DeliveryInvariant, Bus, Forwarding, Unstarted, RelayTop, RelayWake, RelayTry, setVars,
         histories
<1>2. /\ bell' \in [permit : BOOLEAN, waiter : {"none", "waiting", "woken", "ready"}]
      /\ relay'.pc = "try" => bell'.waiter \in {"waiting", "ready"}
      /\ relay'.pc = "asleep" => bell' = bell /\ relay.pc = "try" /\ ring.events = <<>>
  BY <1>1, BellTypes DEF RelayTop, RelayWake, RelayTry, RelayRecord
<1>3. /\ relay' \in RelayRecord /\ relay'.out = relay.out /\ relay'.lost = relay.lost
      /\ relay.pc \in Between \ {"off"} /\ relay'.pc \in Between
  <2>1. RingCapacity \in Nat /\ DrainLimit \in Nat
    BY RingAssumption, BoundAssumption
  <2>2. CASE RelayTop
    BY <1>1, <2>1, <2>2 DEF RelayTop, RelayRecord, RelayPcs, Between
  <2>3. CASE RelayWake
    BY <1>1, <2>3 DEF RelayWake, RelayRecord, RelayPcs, Between
  <2>4. CASE RelayTry /\ ring.events = <<>>
    BY <1>1, <2>4 DEF RelayTry, RelayRecord, RelayPcs, Between
  <2> QED
    BY <2>2, <2>3, <2>4
<1>4. Bus' /\ ComesAfter
  BY <1>1, <1>3, RelayMoves
<1>5. Rung'
  BY <1>1, <1>2 DEF Rung
<1> QED
  BY <1>1, <1>3, <1>4, <1>5, LanesBeside DEF Between

\* An event, and an event with a report behind it.
LEMMA ShortSequences ==
  ASSUME NEW S, NEW h \in S, NEW g \in S
  PROVE  /\ <<h>> \o <<>> = <<h>> /\ <<h>> \o <<g>> = <<h, g>>
         /\ <<h>> \in Seq(S) /\ <<h, g>> \in Seq(S)
<1>1. <<h>> \in Seq(S) /\ <<g>> \in Seq(S) /\ <<h, g>> \in Seq(S)
  OBVIOUS
<1>2. <<h>> \o <<>> = <<h>>
  BY <1>1, ConcatEmptySeq
<1>3. PICK t : t = <<h>> \o <<g>>
  OBVIOUS
<1>4. t \in Seq(S) /\ Len(t) = 2 /\ t[1] = h /\ t[2] = g
  BY <1>1, <1>3
<1>5. t = <<h, g>>
  BY <1>1, <1>4
<1> QED
  BY <1>1, <1>2, <1>3, <1>5

\* The relay takes an event, to forward it or to drain the ring.
LEMMA RelayTakeKeeps ==
  ASSUME DeliveryInvariant, DrainTake \/ (RelayTry /\ ring.events # <<>>)
  PROVE  DeliveryInvariant'
<1>1. /\ Bus /\ Rung /\ relay \in RelayRecord /\ ring \in RingRecord
      /\ (set = "pending" => relay.pc = "off") /\ relay.pc \in Between \ {"off"}
      /\ UNCHANGED <<ppc, published, set, lane, ready, worker, unreported, owed, last>>
      /\ ring' = TryMessage(ring) /\ ring.events # <<>>
  BY DEF DeliveryInvariant, Bus, Forwarding, Unstarted, DrainTake, RelayTry, setVars, histories,
         Between
<1>2. bell' \in [permit : BOOLEAN, waiter : {"none", "waiting", "woken", "ready"}]
  BY <1>1, BellTypes DEF DrainTake, RelayTry
<1>3. PICK h : h = Head(ring.events)
  OBVIOUS
<1>4. h \in Events(OfferKinds) /\ ring.dropped \in Nat
  BY <1>1, <1>3, RingFields
<1>5. PICK g : g = Lagged(ring.dropped)
  OBVIOUS
<1>6. g \in Events(OfferKinds)
  BY <1>4, <1>5 DEF Lagged, Events, OfferKinds
<1>7. /\ relay' \in RelayRecord /\ relay'.pc = "emit"
      /\ \/ relay'.out = <<h>> /\ relay'.lost = relay.lost + ring.dropped
         \/ relay'.out = <<h, g>> /\ relay'.lost = relay.lost
  <2>1. CASE DrainTake
    <3>1. /\ relay' = [relay EXCEPT !.pc = "emit", !.out = <<h>>, !.left = @ - 1,
                                    !.lost = @ + ring.dropped]
          /\ relay.left > 0
      BY <1>3, <2>1 DEF DrainTake
    <3>2. relay.left - 1 \in Nat /\ relay.lost + ring.dropped \in Nat
      BY <1>1, <1>4, <3>1, RelayFields
    <3>3. <<h>> \in Seq(Events(OfferKinds))
      BY <1>4
    <3> QED
      BY <1>1, <3>1, <3>2, <3>3 DEF RelayRecord, RelayPcs
  <2>2. CASE RelayTry
    <3>1. PICK o : o = <<h>> \o (IF ring.dropped = 0 THEN <<>> ELSE <<g>>)
      OBVIOUS
    <3>2. relay' = [relay EXCEPT !.pc = "emit", !.out = o]
      BY <1>1, <1>3, <1>5, <2>2, <3>1 DEF RelayTry
    <3>3. /\ ring.dropped = 0 => o = <<h>>
          /\ ring.dropped # 0 => o = <<h, g>>
      BY <1>4, <1>6, <3>1, ShortSequences
    <3>4. o \in Seq(Events(OfferKinds))
      BY <1>4, <1>6, <3>3, ShortSequences
    <3>5. relay' \in RelayRecord /\ relay'.pc = "emit" /\ relay'.out = o /\ relay'.lost = relay.lost
      BY <1>1, <3>2, <3>4 DEF RelayRecord, RelayPcs
    <3>6. relay.lost \in Nat
      BY <1>1, RelayFields
    <3> QED
      BY <1>4, <3>3, <3>5, <3>6
  <2> QED
    BY <2>1, <2>2
<1>8. Bus' /\ ComesAfter
  BY <1>1, <1>3, <1>5, <1>7, RelayTakes
<1>9. Rung'
  BY <1>1, <1>2, <1>7, RungAwake DEF Rung
<1> QED
  BY <1>1, <1>8, <1>9, LanesBeside

\* The relay closes the ring.
LEMMA DrainCloseKeeps ==
  ASSUME DeliveryInvariant, DrainClose
  PROVE  DeliveryInvariant'
<1>1. /\ Bus /\ Rung /\ set # "pending"
      /\ UNCHANGED <<bell, ppc, published, set, lane, ready, worker, owed, last>>
  BY DEF DeliveryInvariant, Unstarted, DrainClose, setVars
<1>2. Bus' /\ ComesAfter /\ relay'.pc \in {"done", "emit"}
  BY <1>1, RelayCloses
<1>3. Rung'
  BY <1>1, <1>2, RungAwake DEF Rung
<1> QED
  BY <1>1, <1>2, <1>3, LanesBeside

\* The relay reports a closed lane.
LEMMA RelayReportKeeps ==
  ASSUME DeliveryInvariant, RelayReport
  PROVE  DeliveryInvariant'
<1>1. /\ Bus /\ Rung /\ set # "pending" /\ relay.pc = "report" /\ relay \in RelayRecord
      /\ relay.out[1].kind = "task" /\ relay.out # <<>>
      /\ PublishTo(Closed) /\ relay' = AfterEmit(relay.closed - 1)
      /\ bell' = IF BecameNonempty(ring) THEN NotifyOne(bell) ELSE bell
      /\ UNCHANGED <<ppc, published, set, lane, ready, worker, owed, last>>
  BY DEF DeliveryInvariant, Bus, Forwarding, Unstarted, RelayReport, setVars
<1>2. Publishes
  <2>1. PICK e : e = Closed
    OBVIOUS
  <2>2. e \in Events(RingKinds) /\ Internal(e)
    BY <2>1 DEF Closed, Events, RingKinds, Internal
  <2> QED
    BY <1>1, <2>1, <2>2, PublishStep
<1>3. ~Internal(relay.out[1]) /\ relay.closed - 1 \in Int
  BY <1>1, RelayFields DEF Internal
<1>4. /\ unreported' \in Int
      /\ unreported' = unreported + (ring'.dropped - ring.dropped) -
            (IF relay.out[1].kind = "lagged" THEN relay.out[1].n ELSE 0)
  <2>1. unreported' \in Int /\ unreported' = unreported + (ring'.dropped - ring.dropped)
    BY <1>2 DEF Publishes
  <2>2. PICK d : d = ring'.dropped - ring.dropped
    OBVIOUS
  <2>3. PICK x : x = IF relay.out[1].kind = "lagged" THEN relay.out[1].n ELSE 0
    OBVIOUS
  <2>4. x = 0 /\ d \in Int
    <3>1. ring \in RingRecord /\ ring' \in RingRecord
      BY <1>1, <1>2 DEF Bus, Forwarding, Publishes, Retains
    <3> QED
      BY <1>1, <2>2, <2>3, <3>1, RingFields
  <2>5. d - x = d
    BY <2>4
  <2> QED
    BY <2>1, <2>2, <2>3, <2>5
<1>5. PICK c : c = relay.closed - 1
  OBVIOUS
<1>6. c \in Int /\ relay' = AfterEmit(c) /\ Retains
  BY <1>1, <1>2, <1>3, <1>5 DEF Publishes
<1>7. Bus' /\ ComesAfter /\ relay'.pc \notin {"try", "asleep", "off"}
  BY <1>1, <1>3, <1>4, <1>6, RelayGoesOn
<1>8. Rung'
  <2>1. bell' \in [permit : BOOLEAN, waiter : {"none", "waiting", "woken", "ready"}]
    BY <1>1, BellTypes
  <2> QED
    BY <1>1, <1>7, <2>1, RungAwake DEF Rung
<1> QED
  BY <1>1, <1>7, <1>8, LanesBeside

(***************************************************************************)
(* Steps of a callback thread.                                             *)
(***************************************************************************)

Handling == Calling \cup {"begin", "resched"}

\* The lane in a thread's hands is a lane of that thread.
LEMMA InHands ==
  ASSUME DeliveryInvariant, NEW w \in Workers, worker[w].pc \in Handling
  PROVE  LET v == worker[w]
             l == v.lane
         IN /\ l \in Subs /\ Thread(l) = w /\ set # "pending"
            /\ w = SharedWorker <=> l \notin Dedicated
            /\ v \in WorkerRecord /\ lane[l] \in LaneRecord /\ owed[l] \in Int /\ last[l] \in Nat
            /\ Attended(l, lane[l], v, ready) /\ Owing(l, lane[l], v, owed[l])
            /\ Ordered(l, lane[l], v, last[l]) /\ Serving(w, v)
            /\ v.pc \in Calling <=> lane[l].phase = "Running"
<1> DEFINE v == worker[w]
<1> DEFINE l == v.lane
<1>1. v \in WorkerRecord /\ Serving(w, v)
  BY DEF DeliveryInvariant, SetTypes, Serviced
<1>2. v.pc # "off"
  BY DEF Handling, Calling
<1>3. l \in Subs /\ Thread(l) = w /\ (w = SharedWorker <=> l \notin Dedicated)
  <2>1. CASE w \in Dedicated
    BY <1>1, <1>2, <2>1, ThreadFacts DEF Serving
  <2>2. CASE w = SharedWorker
    BY <1>1, <2>2, ThreadFacts DEF Serving, Handling
  <2> QED
    BY <2>1, <2>2, ThreadFacts
<1>4. /\ lane[l] \in LaneRecord /\ owed[l] \in Int /\ last[l] \in Nat /\ Served(l)
  BY <1>3 DEF DeliveryInvariant, SetTypes, CountTypes
<1>5. set # "pending"
  BY <1>2 DEF DeliveryInvariant, Unstarted, At
<1>6. /\ Attended(l, lane[l], v, ready) /\ Owing(l, lane[l], v, owed[l])
      /\ Ordered(l, lane[l], v, last[l])
  BY <1>3, <1>4 DEF Served
<1>7. v.pc \in Calling <=> lane[l].phase = "Running"
  BY <1>6 DEF Attended
<1> QED
  BY <1>1, <1>3, <1>4, <1>5, <1>6, <1>7

\* A thread w turns from state v to u, and its lane l from lane[l] to s.  What
\* holds of this lane is to be shown; the others see nothing of the step.
LEMMA HandsOnly ==
  ASSUME DeliveryInvariant, NEW w \in Workers, worker[w].pc \in Handling,
         NEW l, l = worker[w].lane, NEW u \in WorkerRecord, NEW s \in LaneRecord,
         NEW d \in Int, NEW n \in Nat,
         worker' = [worker EXCEPT ![w] = u], lane' = [lane EXCEPT ![l] = s],
         owed' = [owed EXCEPT ![l] = d], last' = [last EXCEPT ![l] = n],
         set' = set, relay' = relay, ready' \in ReadyRecord,
         ready' = ready \/ (w = SharedWorker /\ ready'.closed = ready.closed
                            /\ ToSet(ready.lanes) \subseteq ToSet(ready'.lanes)),
         u.lane \in {l, SharedWorker}, Serving(w, u), w = SharedWorker => u.pc # "parked",
         Attended(l, s, u, ready'), Owing(l, s, u, d), Ordered(l, s, u, n),
         Seen(l, s, u, n) \subseteq Seen(l, lane[l], worker[w], last[l]),
         Bus', ComesAfter, Rung'
  PROVE  DeliveryInvariant'
<1> DEFINE v == worker[w]
<1>1. /\ l \in Subs /\ Thread(l) = w /\ set # "pending" /\ v \in WorkerRecord
      /\ lane[l] \in LaneRecord /\ owed[l] \in Int /\ last[l] \in Nat
      /\ w = SharedWorker <=> l \notin Dedicated
  BY InHands
<1>2. /\ worker \in [Workers -> WorkerRecord] /\ lane \in [Subs -> LaneRecord]
      /\ owed \in [Subs -> Int] /\ last \in [Subs -> Nat] /\ ready \in ReadyRecord
  BY DEF DeliveryInvariant, SetTypes, CountTypes
<1>3. /\ worker'[w] = u /\ \A x \in Workers : x # w => worker'[x] = worker[x]
      /\ lane'[l] = s /\ owed'[l] = d /\ last'[l] = n
      /\ \A k \in Subs : k # l => lane'[k] = lane[k] /\ owed'[k] = owed[k] /\ last'[k] = last[k]
      /\ ready'.closed = ready.closed /\ ToSet(ready.lanes) \subseteq ToSet(ready'.lanes)
  BY <1>1, <1>2
<1>4. SetTypes' /\ CountTypes'
  BY <1>1, <1>2 DEF DeliveryInvariant, SetTypes, CountTypes
<1>5. Unstarted'
  BY <1>1 DEF Unstarted
<1>6. Serviced'
  <2>1. \A x \in Workers : Serving(x, worker'[x])
    BY <1>3 DEF DeliveryInvariant, Serviced
  <2>2. worker'[SharedWorker].pc = "parked" => ready'.lanes = <<>> /\ ~ready'.closed
    <3>1. CASE w = SharedWorker
      BY <1>3, <3>1
    <3>2. CASE w # SharedWorker
      BY <1>3, <3>2, ThreadFacts DEF DeliveryInvariant, Serviced, At
    <3> QED
      BY <3>1, <3>2
  <2> QED
    BY <2>1, <2>2 DEF Serviced, At
<1>7. ASSUME NEW k \in Subs PROVE Served(k)'
  <2>1. Served(k) /\ lane[k] \in LaneRecord /\ last[k] \in Nat /\ Thread(k) \in Workers
    BY <1>2, ThreadFacts DEF DeliveryInvariant
  <2> DEFINE x == worker[Thread(k)]
  <2>2. x \in WorkerRecord /\ Seen(k, lane[k], x, last[k]) \subseteq Nat
    BY <1>2, <2>1, SeenNumbers
  <2>3. \A m \in Seen(k, lane[k], x, last[k]) : Coming(m)'
    BY <2>1, <2>2 DEF Served, ComesAfter
  <2>4. CASE k = l
    <3>1. \A m \in Seen(l, s, u, n) : Coming(m)'
      BY <1>1, <2>3, <2>4
    <3> QED
      BY <1>1, <1>3, <2>4, <3>1 DEF Served
  <2>5. CASE k # l
    <3> DEFINE y == worker'[Thread(k)]
    <3>1. y = x \/ (k \notin Dedicated /\ x.lane # k /\ y.lane # k)
      <4>1. CASE Thread(k) # w
        BY <1>3, <2>1, <4>1
      <4>2. CASE Thread(k) = w
        BY <1>1, <1>3, <2>5, <4>2, ThreadFacts
      <4> QED
        BY <4>1, <4>2
    <3>2. y \in WorkerRecord
      BY <1>3, <2>1, <2>2
    <3>3. Attended(k, lane[k], x, ready) /\ Owing(k, lane[k], x, owed[k]) /\ Ordered(k, lane[k], x, last[k])
      BY <2>1 DEF Served
    <3>4. /\ Attended(k, lane[k], y, ready') /\ Owing(k, lane[k], y, owed[k])
          /\ Ordered(k, lane[k], y, last[k])
          /\ Seen(k, lane[k], y, last[k]) = Seen(k, lane[k], x, last[k])
      <4>1. PICK q, r, z : q = ready /\ r = ready' /\ z = y
        OBVIOUS
      <4> HIDE DEF x, y
      <4> QED
        BY <1>3, <2>1, <2>2, <3>1, <3>2, <3>3, <4>1, StaysServed
    <3> QED
      BY <1>3, <2>3, <2>5, <3>4 DEF Served
  <2> QED
    BY <2>4, <2>5
<1> QED
  BY <1>4, <1>5, <1>6, <1>7 DEF DeliveryInvariant

\* Most steps of a thread leave bus, relay and bell alone.
LEMMA BusBeside ==
  ASSUME DeliveryInvariant, UNCHANGED <<ring, bell, ppc, published, relay, unreported>>,
         NEW w \in Workers, worker[w].pc # "notify", NEW u, worker' = [worker EXCEPT ![w] = u]
  PROVE  Bus' /\ ComesAfter /\ Rung'
<1>1. Bus /\ Rung
  BY DEF DeliveryInvariant
<1>2. Bus' /\ ComesAfter
  BY <1>1 DEF Bus, Forwarding, Lost, Numbered, ComesAfter, Coming
<1>3. worker \in [Workers -> WorkerRecord]
  BY DEF DeliveryInvariant, SetTypes
<1>4. Ringing => Ringing'
  <2>1. \A x \in Workers : x # w => worker'[x] = worker[x]
    BY <1>3
  <2> QED
    BY <2>1 DEF Ringing, At
<1>5. Rung'
  BY <1>1, <1>4, RungBeside DEF Rung
<1> QED
  BY <1>2, <1>5

\* A lane left alone, seen as one that is overwritten with itself.
LEMMA Untouched ==
  ASSUME DeliveryInvariant, NEW l \in Subs
  PROVE  /\ lane = [lane EXCEPT ![l] = lane[l]] /\ owed = [owed EXCEPT ![l] = owed[l]]
         /\ last = [last EXCEPT ![l] = last[l]] /\ ready \in ReadyRecord
BY DEF DeliveryInvariant, SetTypes, CountTypes

\* Where a thread goes that has a lane in its hands.
LEMMA GotoFacts ==
  ASSUME DeliveryInvariant, NEW w \in Workers, worker[w].pc \in Handling,
         NEW pc \in WorkerPcs \ {"off"}, Goto(w, pc),
         w \in Dedicated => pc \notin {"next", "resched"},
         pc \in Calling => worker[w].pc \in Calling
  PROVE  \E u \in WorkerRecord :
            /\ worker' = [worker EXCEPT ![w] = u] /\ u.pc = pc /\ Serving(w, u)
            /\ pc = "next" => u.lane = SharedWorker
            /\ pc # "next" => u.lane = worker[w].lane
<1> DEFINE v == worker[w]
<1>1. v \in WorkerRecord /\ Serving(w, v) /\ v.lane \in Subs
      /\ (w = SharedWorker <=> v.lane \notin Dedicated)
  BY InHands
<1>2. v.pc # "off"
  BY DEF Handling, Calling
<1>3. NoEvent \in Events(AllKinds)
  BY DEF NoEvent, Task, Events, AllKinds, OfferKinds, RingKinds
<1>4. CASE pc = "next"
  <2>1. PICK u : u = [Idle EXCEPT !.pc = "next"]
    OBVIOUS
  <2>2. worker' = [worker EXCEPT ![w] = u]
    BY <1>4, <2>1 DEF Goto
  <2>3. u \in WorkerRecord /\ u.pc = "next" /\ u.lane = SharedWorker
    BY <1>3, <2>1 DEF Idle, WorkerRecord, WorkerPcs
  <2>4. Serving(w, u)
    BY <1>4, <2>3 DEF Serving, Calling
  <2> QED
    BY <1>4, <2>2, <2>3, <2>4
<1>5. CASE pc # "next"
  <2>1. PICK u : u = [v EXCEPT !.pc = pc, !.ev = NoEvent]
    OBVIOUS
  <2>2. worker' = [worker EXCEPT ![w] = u]
    BY <1>5, <2>1 DEF Goto
  <2>3. u \in WorkerRecord /\ u.pc = pc /\ u.lane = v.lane /\ u.left = v.left
    BY <1>1, <1>3, <2>1 DEF WorkerRecord
  <2>4. Serving(w, u)
    BY <1>1, <1>2, <2>3, ThreadFacts DEF Serving
  <2> QED
    BY <1>5, <2>2, <2>3, <2>4
<1> QED
  BY <1>4, <1>5

\* A thread that is not in a call sees as much of its lane as before.
LEMMA SameView ==
  ASSUME NEW l, NEW s, NEW v, NEW u, NEW d, NEW n,
         Owing(l, s, v, d), Ordered(l, s, v, n), ~Calls(l, v), ~Calls(l, u)
  PROVE  /\ Owing(l, s, u, d) /\ Ordered(l, s, u, n)
         /\ Seen(l, s, u, n) = Seen(l, s, v, n)
BY DEF Owing, Ordered, Seen

\* Only the phase and the owner of a lane change.
LEMMA SameQueue ==
  ASSUME NEW l, NEW s, NEW t, NEW u, NEW d, NEW n,
         t.queue = s.queue, t.dropped = s.dropped, t.abort = s.abort,
         s.phase # "Finished", Owing(l, s, u, d), Ordered(l, s, u, n)
  PROVE  /\ Owing(l, t, u, d) /\ Ordered(l, t, u, n)
         /\ Seen(l, t, u, n) = Seen(l, s, u, n)
BY DEF Owing, Ordered, Seen

\* The thread alone changes its state, with no call before or after.
LEMMA ThreadOnly ==
  ASSUME DeliveryInvariant, NEW w \in Workers, worker[w].pc \in Handling,
         NEW u \in WorkerRecord, worker' = [worker EXCEPT ![w] = u],
         UNCHANGED <<lane, owed, last, set, relay>>, ready' \in ReadyRecord,
         ready' = ready \/ (w = SharedWorker /\ ready'.closed = ready.closed
                            /\ ToSet(ready.lanes) \subseteq ToSet(ready'.lanes)),
         u.lane = IF u.pc = "next" THEN SharedWorker ELSE worker[w].lane,
         Serving(w, u), w = SharedWorker => u.pc # "parked",
         Attended(worker[w].lane, lane[worker[w].lane], u, ready'),
         worker[w].pc # "call", u.pc # "call",
         Bus', ComesAfter, Rung'
  PROVE  DeliveryInvariant'
<1>1. PICK l, v : l = worker[w].lane /\ v = worker[w]
  OBVIOUS
<1>2. PICK s, d, n : s = lane[l] /\ d = owed[l] /\ n = last[l]
  OBVIOUS
<1>3. /\ l \in Subs /\ s \in LaneRecord /\ d \in Int /\ n \in Nat
      /\ Owing(l, s, v, d) /\ Ordered(l, s, v, n)
  BY <1>1, <1>2, InHands
<1>4. /\ lane' = [lane EXCEPT ![l] = s] /\ owed' = [owed EXCEPT ![l] = d]
      /\ last' = [last EXCEPT ![l] = n]
  BY <1>2, <1>3, Untouched
<1>5. ~Calls(l, v) /\ ~Calls(l, u)
  BY <1>1 DEF Calls
<1>6. Owing(l, s, u, d) /\ Ordered(l, s, u, n) /\ Seen(l, s, u, n) = Seen(l, s, v, n)
  BY <1>3, <1>5, SameView
<1>7. /\ Attended(l, s, u, ready') /\ u.lane \in {l, SharedWorker}
      /\ Seen(l, s, u, n) \subseteq Seen(l, lane[l], worker[w], last[l])
  BY <1>1, <1>2, <1>6
<1> QED
  BY <1>1, <1>3, <1>4, <1>6, <1>7, HandsOnly

\* A thread takes its lane, or finds it at rest, finished or aborted.
LEMMA BeginKeeps ==
  ASSUME DeliveryInvariant, NEW w \in Workers, Begin(w)
  PROVE  DeliveryInvariant'
<1> DEFINE v == worker[w]
<1> DEFINE l == v.lane
<1> DEFINE s == lane[l]
<1>1. /\ v.pc = "begin" /\ v.pc \in Handling
      /\ UNCHANGED <<ring, bell, ppc, published, relay, set, ready, unreported, owed, last>>
  BY DEF Begin, At, Handling, busVars, histories
<1>2. /\ l \in Subs /\ Thread(l) = w /\ v \in WorkerRecord /\ s \in LaneRecord
      /\ owed[l] \in Int /\ last[l] \in Nat /\ (w = SharedWorker <=> l \notin Dedicated)
      /\ Attended(l, s, v, ready) /\ Owing(l, s, v, owed[l]) /\ Ordered(l, s, v, last[l])
      /\ Serving(w, v) /\ s.phase # "Running"
  BY <1>1, InHands DEF Calling
<1>3. /\ owed' = [owed EXCEPT ![l] = owed[l]] /\ last' = [last EXCEPT ![l] = last[l]]
      /\ lane = [lane EXCEPT ![l] = s] /\ ready' \in ReadyRecord
  BY <1>1, <1>2, Untouched
<1>4. ~Calls(l, v)
  BY <1>1 DEF Calls
<1>5. CASE s.phase = "Scheduled" /\ (w = SharedWorker => ~s.abort)
  <2>1. PICK u, t : u = [v EXCEPT !.pc = "pick", !.left = Quantum] /\ t = Claim(s)
    OBVIOUS
  <2>2. worker' = [worker EXCEPT ![w] = u] /\ lane' = [lane EXCEPT ![l] = t]
    BY <1>5, <2>1 DEF Begin
  <2>3. /\ u \in WorkerRecord /\ u.pc = "pick" /\ u.lane = l /\ u.left = Quantum
        /\ t \in LaneRecord /\ t.phase = "Running" /\ t.own = "worker"
        /\ t.queue = s.queue /\ t.dropped = s.dropped /\ t.abort = s.abort
    BY <1>2, <2>1, BoundAssumption DEF WorkerRecord, WorkerPcs, Calling, LaneRecord, Claim
  <2>4. Serving(w, u)
    BY <1>1, <1>2, <2>3, BoundAssumption DEF Serving, Calling
  <2>5. Attended(l, t, u, ready')
    BY <1>1, <1>2, <1>5, <2>3 DEF Attended, Calling
  <2>6. /\ Owing(l, t, u, owed[l]) /\ Ordered(l, t, u, last[l])
        /\ Seen(l, t, u, last[l]) \subseteq Seen(l, s, v, last[l])
    <3>1. ~Calls(l, u)
      BY <2>3 DEF Calls
    <3>2. /\ Owing(l, s, u, owed[l]) /\ Ordered(l, s, u, last[l])
          /\ Seen(l, s, u, last[l]) = Seen(l, s, v, last[l])
      BY <1>2, <1>4, <3>1, SameView
    <3>3. s.phase # "Finished"
      BY <1>5
    <3> HIDE DEF s, v
    <3>4. /\ Owing(l, t, u, owed[l]) /\ Ordered(l, t, u, last[l])
          /\ Seen(l, t, u, last[l]) = Seen(l, s, u, last[l])
      BY <2>3, <3>2, <3>3, SameQueue
    <3> QED
      BY <3>2, <3>4
  <2>7. Bus' /\ ComesAfter /\ Rung'
    BY <1>1, <2>2, BusBeside
  <2> QED
    BY <1>1, <1>2, <1>3, <2>2, <2>3, <2>4, <2>5, <2>6, <2>7, HandsOnly
<1>6. CASE ~(s.phase = "Scheduled" /\ (w = SharedWorker => ~s.abort))
  <2>1. PICK pc : pc = IF w = SharedWorker THEN "next"
                       ELSE IF s.phase = "Idle" THEN "parked" ELSE "exit"
    OBVIOUS
  <2>2. /\ Goto(w, pc) /\ lane' = lane
        /\ pc \in WorkerPcs \ {"off"} /\ pc \notin Calling
        /\ w \in Dedicated => pc \notin {"next", "resched"}
        /\ w = SharedWorker => pc # "parked"
    BY <1>6, <2>1, ThreadFacts DEF Begin, WorkerPcs, Calling
  <2>3. PICK u \in WorkerRecord :
            /\ worker' = [worker EXCEPT ![w] = u] /\ u.pc = pc /\ Serving(w, u)
            /\ pc = "next" => u.lane = SharedWorker
            /\ pc # "next" => u.lane = l
    BY <1>1, <2>2, GotoFacts
  <2>4. s.phase \in {"Idle", "Finished"}
    BY <1>2, <1>6, LaneFields DEF Attended
  <2>5. Attended(l, s, u, ready')
    BY <1>1, <1>2, <2>1, <2>2, <2>3, <2>4 DEF Attended
  <2>6. u.pc # "call" /\ v.pc # "call"
    BY <1>1, <2>2, <2>3 DEF Calling
  <2>7. Bus' /\ ComesAfter /\ Rung'
    BY <1>1, <2>3, BusBeside
  <2> QED
    BY <1>1, <1>3, <2>2, <2>3, <2>5, <2>6, <2>7, ThreadOnly
<1> QED
  BY <1>5, <1>6

\* The call of an event that leaves the queue.
LEMMA TakesEvent ==
  ASSUME NEW l, NEW s \in LaneRecord, NEW t, NEW v, NEW u, NEW d \in Int, NEW n \in Nat,
         s.queue # <<>>, t.queue = Tail(s.queue), t.dropped = s.dropped, t.abort = s.abort,
         t.phase = s.phase, ~Calls(l, v), Calls(l, u), u.ev = Head(s.queue),
         Owing(l, s, v, d), Ordered(l, s, v, n)
  PROVE  /\ Owing(l, t, u, d) /\ Ordered(l, t, u, n)
         /\ Seen(l, t, u, n) \subseteq Seen(l, s, v, n)
<1> DEFINE q == s.queue
<1> DEFINE e == Head(q)
<1>1. /\ q \in Seq(Events(OfferKinds)) /\ q # <<>> /\ s.dropped \in Nat
      /\ Events(OfferKinds) \subseteq Events(AllKinds)
  BY LaneFields DEF Events, AllKinds
<1>2. PICK r : r = Tail(q)
  OBVIOUS
<1>3. /\ r \in Seq(Events(OfferKinds)) /\ e \in Events(OfferKinds)
      /\ \A k \in Ordinary(r) : k + 1 \in Ordinary(q) /\ r[k] = q[k + 1]
      /\ e = q[1]
      /\ ~Internal(e) => 1 \in Ordinary(q)
      /\ Cardinality(Ordinary(q)) = Cardinality(Ordinary(r)) + (IF Internal(e) THEN 0 ELSE 1)
  <2>1. PICK S, p : S = Events(OfferKinds) /\ p = q
    OBVIOUS
  <2>2. p \in Seq(S) /\ p # <<>>
    BY <1>1, <2>1
  <2>3. /\ Tail(p) \in Seq(S) /\ Head(p) \in S /\ Head(p) = p[1]
        /\ \A k \in Ordinary(Tail(p)) :
              k + 1 \in Ordinary(p) /\ Tail(p)[k] = p[k + 1] /\ k \in Nat \ {0}
        /\ ~Internal(Head(p)) => 1 \in Ordinary(p)
        /\ Cardinality(Ordinary(p)) =
              Cardinality(Ordinary(Tail(p))) + (IF Internal(Head(p)) THEN 0 ELSE 1)
    BY <2>2, OrdinaryTail
  <2> QED
    BY <1>2, <2>1, <2>3
<1>4. Cardinality(Ordinary(r)) \in Nat
  BY <1>3, OrdinaryFinite
<1>5. Settled(e) = IF Internal(e) THEN 0 ELSE 1
  <2>1. e \in Events(AllKinds) /\ e.kind # "full"
    BY <1>1, <1>3 DEF Events, OfferKinds, RingKinds
  <2> HIDE DEF e
  <2> QED
    BY <2>1, OrdinaryKind
<1>6. /\ Rising(q) /\ Above(q, n)
  BY DEF Ordered
<1>7. /\ Rising(r) /\ Above(r, n) /\ (~Internal(e) => n < e.n /\ Above(r, e.n))
  <2> HIDE DEF q
  <2> QED
    BY <1>1, <1>2, <1>6, RisingTail
<1>8. Owing(l, t, u, d)
  <2> SUFFICES ASSUME t.phase # "Finished", ~t.abort
               PROVE  d = Cardinality(Ordinary(r)) + t.dropped + Settled(e)
    BY <1>2 DEF Owing
  <2>1. d = Cardinality(Ordinary(q)) + s.dropped + 0
    BY DEF Owing
  <2> HIDE DEF e, q
  <2> QED
    BY <1>1, <1>3, <1>4, <1>5, <2>1
<1>9. Ordered(l, t, u, n)
  BY <1>2, <1>7 DEF Ordered
<1>10. Seen(l, t, u, n) \subseteq Seen(l, s, v, n)
  <2> SUFFICES ASSUME NEW m \in Seen(l, t, u, n) PROVE m \in Seen(l, s, v, n)
    OBVIOUS
  <2>1. CASE m = n
    BY <2>1 DEF Seen
  <2>2. ASSUME NEW k \in Ordinary(r), m = r[k].n PROVE m \in Seen(l, s, v, n)
    BY <1>3, <2>2 DEF Seen
  <2>3. CASE m = e.n /\ ~Internal(e)
    BY <1>3, <2>3 DEF Seen
  <2> QED
    BY <1>2, <2>1, <2>2, <2>3 DEF Seen
<1> QED
  BY <1>8, <1>9, <1>10

\* The call that sums up the losses.
LEMMA TakesSummary ==
  ASSUME NEW l, NEW s \in LaneRecord, NEW t, NEW v, NEW u, NEW d \in Int, NEW n \in Nat,
         t.queue = s.queue, t.dropped = 0, t.abort = s.abort,
         t.phase = s.phase, ~Calls(l, v), Calls(l, u), u.ev = Summary(s.dropped),
         Owing(l, s, v, d), Ordered(l, s, v, n)
  PROVE  /\ Owing(l, t, u, d) /\ Ordered(l, t, u, n)
         /\ Seen(l, t, u, n) \subseteq Seen(l, s, v, n)
<1>1. s.queue \in Seq(Events(OfferKinds)) /\ s.dropped \in Nat
  BY LaneFields
<1>2. Cardinality(Ordinary(s.queue)) \in Nat
  BY <1>1, OrdinaryFinite
<1>3. Settled(u.ev) = s.dropped /\ Internal(u.ev)
  BY DEF Settled, Summary, Internal
<1>4. Owing(l, t, u, d)
  <2> SUFFICES ASSUME t.phase # "Finished", ~t.abort
               PROVE  d = Cardinality(Ordinary(s.queue)) + 0 + s.dropped
    BY <1>3 DEF Owing
  <2>1. d = Cardinality(Ordinary(s.queue)) + s.dropped + 0
    BY DEF Owing
  <2> QED
    BY <1>1, <1>2, <2>1
<1>5. Ordered(l, t, u, n) /\ Seen(l, t, u, n) \subseteq Seen(l, s, v, n)
  BY <1>3 DEF Ordered, Seen
<1> QED
  BY <1>4, <1>5

\* A thread chooses what to do next with its lane.
LEMMA PickKeeps ==
  ASSUME DeliveryInvariant, NEW w \in Workers, Pick(w)
  PROVE  DeliveryInvariant'
<1>1. PICK v, l : v = worker[w] /\ l = worker[w].lane
  OBVIOUS
<1>2. PICK s, d, n : s = lane[l] /\ d = owed[l] /\ n = last[l]
  OBVIOUS
<1>3. /\ v.pc = "pick" /\ v.pc \in Handling /\ v.left > 0
      /\ UNCHANGED <<ring, bell, ppc, published, relay, set, ready, unreported, owed, last>>
  BY <1>1 DEF Pick, At, Handling, Calling, busVars, histories
<1>4. /\ l \in Subs /\ v \in WorkerRecord /\ s \in LaneRecord /\ d \in Int /\ n \in Nat
      /\ Attended(l, s, v, ready) /\ Owing(l, s, v, d) /\ Ordered(l, s, v, n)
      /\ Serving(w, v) /\ s.phase = "Running" /\ ready' \in ReadyRecord /\ v.lane = l
  BY <1>1, <1>2, <1>3, InHands, Untouched DEF Calling
<1>5. owed' = [owed EXCEPT ![l] = d] /\ last' = [last EXCEPT ![l] = n]
  BY <1>2, <1>3, <1>4, Untouched
<1>6. ~Calls(l, v)
  BY <1>3 DEF Calls
<1>7. ASSUME NEW e \in Events(AllKinds), NEW u, NEW t \in LaneRecord,
             u = [v EXCEPT !.pc = "call", !.ev = e,
                           !.left = IF w = SharedWorker THEN @ - 1 ELSE @],
             worker' = [worker EXCEPT ![w] = u], lane' = [lane EXCEPT ![l] = t],
             t.phase = "Running", t.own = s.own, t.abort = s.abort,
             Calls(l, u) /\ u.ev = e => /\ Owing(l, t, u, d) /\ Ordered(l, t, u, n)
                                        /\ Seen(l, t, u, n) \subseteq Seen(l, s, v, n)
      PROVE  DeliveryInvariant'
  <2>1. v.left \in Nat /\ v.left - 1 \in Nat
    BY <1>3, <1>4, WorkerFields
  <2>2. /\ u \in WorkerRecord /\ u.pc = "call" /\ u.lane = l /\ u.ev = e
        /\ w # SharedWorker => u.left = v.left
    BY <1>4, <1>7, <2>1 DEF WorkerRecord, WorkerPcs, Calling
  <2>3. Calls(l, u) /\ Serving(w, u)
    BY <1>3, <1>4, <2>2, ThreadFacts DEF Calls, Serving, Calling
  <2>4. Attended(l, t, u, ready')
    BY <1>3, <1>4, <1>7, <2>2 DEF Attended, Calling
  <2>5. Bus' /\ ComesAfter /\ Rung'
    <3>1. worker[w].pc # "notify"
      BY <1>1, <1>3
    <3> QED
      BY <1>3, <1>7, <3>1, BusBeside
  <2>6. /\ u.lane \in {l, SharedWorker} /\ u.pc # "parked" /\ l = worker[w].lane
        /\ worker[w].pc \in Handling
        /\ Owing(l, t, u, d) /\ Ordered(l, t, u, n)
        /\ Seen(l, t, u, n) \subseteq Seen(l, lane[l], worker[w], last[l])
    BY <1>1, <1>2, <1>3, <1>7, <2>2, <2>3
  <2> QED
    BY <1>3, <1>4, <1>5, <1>7, <2>2, <2>3, <2>4, <2>5, <2>6, HandsOnly
<1>8. CASE ~s.abort /\ s.queue # <<>> /\ worker' = [worker EXCEPT ![w].pc = "call",
                ![w].ev = Head(s.queue), ![w].left = IF w = SharedWorker THEN @ - 1 ELSE @]
              /\ lane' = [lane EXCEPT ![l].queue = Tail(@)]
  <2>1. PICK e, u, t : /\ e = Head(s.queue)
                       /\ u = [v EXCEPT !.pc = "call", !.ev = e,
                                        !.left = IF w = SharedWorker THEN @ - 1 ELSE @]
                       /\ t = [s EXCEPT !.queue = Tail(@)]
    OBVIOUS
  <2>2. worker' = [worker EXCEPT ![w] = u] /\ lane' = [lane EXCEPT ![l] = t]
    BY <1>1, <1>2, <1>8, <2>1
  <2>3. s.queue \in Seq(Events(OfferKinds))
    BY <1>4, LaneFields
  <2>4. e \in Events(AllKinds) /\ Tail(s.queue) \in Seq(Events(OfferKinds))
    <3>1. e \in Events(OfferKinds) /\ Tail(s.queue) \in Seq(Events(OfferKinds))
      BY <1>8, <2>1, <2>3
    <3> QED
      BY <3>1 DEF Events, AllKinds
  <2>5. /\ t \in LaneRecord /\ t.queue = Tail(s.queue) /\ t.dropped = s.dropped
        /\ t.abort = s.abort /\ t.phase = s.phase /\ t.own = s.own
    BY <1>4, <2>1, <2>4 DEF LaneRecord
  <2>6. Calls(l, u) /\ u.ev = e => /\ Owing(l, t, u, d) /\ Ordered(l, t, u, n)
                                   /\ Seen(l, t, u, n) \subseteq Seen(l, s, v, n)
    <3>1. s.queue # <<>> /\ e = Head(s.queue)
      BY <1>8, <2>1
    <3> QED
      BY <1>4, <1>6, <2>5, <3>1, TakesEvent
  <2> QED
    BY <1>4, <1>7, <2>1, <2>2, <2>4, <2>5, <2>6
<1>9. CASE ~s.abort /\ s.queue = <<>> /\ s.dropped # 0 /\ worker' = [worker EXCEPT ![w].pc = "call",
                ![w].ev = Summary(s.dropped), ![w].left = IF w = SharedWorker THEN @ - 1 ELSE @]
              /\ lane' = [lane EXCEPT ![l].dropped = 0]
  <2>1. PICK e, u, t : /\ e = Summary(s.dropped)
                       /\ u = [v EXCEPT !.pc = "call", !.ev = e,
                                        !.left = IF w = SharedWorker THEN @ - 1 ELSE @]
                       /\ t = [s EXCEPT !.dropped = 0]
    OBVIOUS
  <2>2. worker' = [worker EXCEPT ![w] = u] /\ lane' = [lane EXCEPT ![l] = t]
    BY <1>1, <1>2, <1>9, <2>1
  <2>3. e \in Events(AllKinds)
    <3>1. s.dropped \in Nat
      BY <1>4, LaneFields
    <3> QED
      BY <2>1, <3>1 DEF Summary, Events, AllKinds
  <2>4. /\ t \in LaneRecord /\ t.queue = s.queue /\ t.dropped = 0
        /\ t.abort = s.abort /\ t.phase = s.phase /\ t.own = s.own
    BY <1>4, <2>1 DEF LaneRecord
  <2>5. Calls(l, u) /\ u.ev = e => /\ Owing(l, t, u, d) /\ Ordered(l, t, u, n)
                                   /\ Seen(l, t, u, n) \subseteq Seen(l, s, v, n)
    <3>1. e = Summary(s.dropped)
      BY <2>1
    <3> QED
      BY <1>4, <1>6, <2>4, <3>1, TakesSummary
  <2> QED
    BY <1>4, <1>7, <2>1, <2>2, <2>3, <2>4, <2>5
<1>10. ASSUME NEW pc \in {"finish", "rest"}, Goto(w, pc), lane' = lane PROVE DeliveryInvariant'
  <2>1. pc \in WorkerPcs \ {"off"} /\ pc \in Calling /\ worker[w].pc \in Calling
    BY <1>1, <1>3 DEF WorkerPcs, Calling
  <2>2. worker[w].pc \in Handling
    BY <1>1, <1>3
  <2>3. PICK u \in WorkerRecord :
            /\ worker' = [worker EXCEPT ![w] = u] /\ u.pc = pc /\ Serving(w, u)
            /\ u.lane = l
    BY <1>1, <1>10, <2>1, <2>2, GotoFacts
  <2>4. Attended(l, s, u, ready')
    BY <1>3, <1>4, <2>1, <2>3 DEF Attended
  <2>5. Bus' /\ ComesAfter /\ Rung'
    <3>1. worker[w].pc # "notify"
      BY <1>1, <1>3
    <3> QED
      BY <1>3, <2>3, <3>1, BusBeside
  <2>6. /\ u.lane = IF u.pc = "next" THEN SharedWorker ELSE worker[w].lane
        /\ u.pc # "parked" /\ u.pc # "call" /\ worker[w].pc # "call"
        /\ Attended(worker[w].lane, lane[worker[w].lane], u, ready')
    BY <1>1, <1>2, <1>3, <1>10, <2>3, <2>4
  <2> QED
    BY <1>3, <1>4, <1>10, <2>2, <2>3, <2>5, <2>6, ThreadOnly
<1> QED
  BY <1>1, <1>2, <1>8, <1>9, <1>10 DEF Pick

\* What a lane's second look decides: rest only with nothing left to do, and a
\* new turn only on the shared thread.
LEMMA Verdicts ==
  ASSUME NEW s \in LaneRecord, NEW shared \in BOOLEAN
  PROVE  /\ RestVerdict(s, shared) \in {"finish", "idle", "resched", "pick"}
         /\ RestVerdict(s, shared) = "idle" => ~s.abort /\ NothingPending(s)
         /\ RestVerdict(s, shared) = "resched" => shared /\ ~s.abort
         /\ RestVerdict(s, shared) = "pick" => ~shared
         /\ QuantumVerdict(s) \in {"finish", "idle", "resched"}
         /\ QuantumVerdict(s) = "idle" => ~s.abort /\ NothingPending(s)
         /\ QuantumVerdict(s) = "resched" => ~s.abort
<1>1. s.abort \in BOOLEAN /\ s.closing \in BOOLEAN
  BY LaneFields
<1>2. CASE s.abort
  BY <1>2 DEF RestVerdict, QuantumVerdict
<1>3. CASE ~s.abort /\ s.closing
  BY <1>3 DEF RestVerdict, QuantumVerdict
<1>4. CASE ~s.abort /\ ~s.closing
  BY <1>4 DEF RestVerdict, QuantumVerdict
<1> QED
  BY <1>1, <1>2, <1>3, <1>4

\* A thread stops calling: it finishes the lane, rests it or yields it.
LEMMA StopCallingKeeps ==
  ASSUME DeliveryInvariant, NEW w \in Workers, StopCalling(w)
  PROVE  DeliveryInvariant'
<1>1. PICK v, l : v = worker[w] /\ l = worker[w].lane
  OBVIOUS
<1>2. PICK s, d, n : s = lane[l] /\ d = owed[l] /\ n = last[l]
  OBVIOUS
<1>3. /\ v.pc = "rest" \/ (v.pc = "pick" /\ v.left = 0)
      /\ v.pc \in Calling /\ v.pc \in Handling
      /\ UNCHANGED <<ring, bell, ppc, published, relay, set, ready, unreported, owed, last>>
  BY <1>1 DEF StopCalling, At, Handling, Calling, busVars, histories
<1>4. /\ l \in Subs /\ v \in WorkerRecord /\ s \in LaneRecord /\ d \in Int /\ n \in Nat
      /\ Attended(l, s, v, ready) /\ Owing(l, s, v, d) /\ Ordered(l, s, v, n)
      /\ Serving(w, v) /\ s.phase = "Running" /\ ready' \in ReadyRecord /\ v.lane = l
      /\ (w = SharedWorker <=> l \notin Dedicated)
  BY <1>1, <1>2, <1>3, InHands, Untouched
<1>5. owed' = [owed EXCEPT ![l] = d] /\ last' = [last EXCEPT ![l] = n]
  BY <1>2, <1>3, <1>4, Untouched
<1>6. ~Calls(l, v) /\ worker[w].pc \in Handling /\ worker[w].pc \notin {"call", "notify"}
  BY <1>1, <1>3 DEF Calls
<1>7. PICK verdict : verdict = IF At(w, "rest") THEN RestVerdict(s, w = SharedWorker)
                               ELSE QuantumVerdict(s)
  OBVIOUS
<1>8. /\ verdict \in {"finish", "idle", "resched", "pick"}
      /\ verdict = "idle" => ~s.abort /\ NothingPending(s)
      /\ verdict = "resched" => w = SharedWorker /\ ~s.abort
      /\ verdict = "pick" => w # SharedWorker
  <2>1. CASE v.pc = "rest"
    <3>1. verdict = RestVerdict(s, w = SharedWorker)
      BY <1>1, <1>7, <2>1 DEF At
    <3> QED
      BY <1>4, <3>1, Verdicts
  <2>2. CASE v.pc = "pick" /\ v.left = 0
    <3>1. verdict = QuantumVerdict(s)
      BY <1>1, <1>7, <2>2 DEF At
    <3>2. w = SharedWorker
      BY <1>4, <2>2, ThreadFacts DEF Serving, Calling
    <3> QED
      BY <1>4, <3>1, <3>2, Verdicts
  <2> QED
    BY <1>3, <2>1, <2>2
<1>9. /\ lane' = [lane EXCEPT ![l] = CASE verdict = "idle"    -> Rest(s)
                                       [] verdict = "resched" -> Yield(s)
                                       [] OTHER               -> s]
      /\ Goto(w, CASE verdict = "idle" -> (IF w = SharedWorker THEN "next" ELSE "begin")
                   [] OTHER            -> verdict)
  BY <1>1, <1>2, <1>7 DEF StopCalling
<1>10. PICK pc : pc = CASE verdict = "idle" -> (IF w = SharedWorker THEN "next" ELSE "begin")
                        [] OTHER            -> verdict
  OBVIOUS
<1>11. /\ verdict # "idle" => pc = verdict
       /\ verdict = "idle" => pc = IF w = SharedWorker THEN "next" ELSE "begin"
       /\ Goto(w, pc)
  BY <1>8, <1>9, <1>10
<1>12. /\ pc \in WorkerPcs \ {"off"} /\ pc # "parked" /\ pc # "call"
       /\ w \in Dedicated => pc \notin {"next", "resched"}
  BY <1>8, <1>11, ThreadFacts DEF WorkerPcs, Calling
<1>13. PICK u \in WorkerRecord :
            /\ worker' = [worker EXCEPT ![w] = u] /\ u.pc = pc /\ Serving(w, u)
            /\ pc = "next" => u.lane = SharedWorker
            /\ pc # "next" => u.lane = l
  BY <1>1, <1>3, <1>6, <1>11, <1>12, GotoFacts
<1>14. Bus' /\ ComesAfter /\ Rung'
  BY <1>3, <1>6, <1>13, BusBeside
<1>15. CASE verdict \in {"finish", "pick"}
  <2>1. lane' = lane
    BY <1>2, <1>4, <1>9, <1>15, Untouched
  <2>2. Attended(l, s, u, ready')
    BY <1>3, <1>4, <1>11, <1>13, <1>15 DEF Attended, Calling
  <2>3. /\ u.lane = IF u.pc = "next" THEN SharedWorker ELSE worker[w].lane
        /\ u.pc # "parked" /\ u.pc # "call" /\ worker[w].pc # "call"
        /\ Attended(worker[w].lane, lane[worker[w].lane], u, ready')
    BY <1>1, <1>2, <1>6, <1>12, <1>13, <2>2
  <2> QED
    BY <1>3, <1>4, <1>6, <1>13, <1>14, <2>1, <2>3, ThreadOnly
<1>16. CASE verdict \in {"idle", "resched"}
  <2>1. PICK t : t = IF verdict = "idle" THEN Rest(s) ELSE Yield(s)
    OBVIOUS
  <2>2. lane' = [lane EXCEPT ![l] = t]
    BY <1>9, <1>16, <2>1
  <2>3. /\ t \in LaneRecord /\ t.queue = s.queue /\ t.dropped = s.dropped
        /\ t.phase = (IF verdict = "idle" THEN "Idle" ELSE "Scheduled") /\ t.own = "lane"
        /\ t.abort = s.abort
    BY <1>4, <1>16, <2>1 DEF Rest, Yield, LaneRecord
  <2>4. Attended(l, t, u, ready')
    <3>1. ~s.abort /\ ~ready.closed
      BY <1>4, <1>8, <1>16 DEF Attended
    <3>2. pc \notin Calling /\ pc # "parked"
      BY <1>11, <1>12, <1>16 DEF Calling
    <3>3. t.phase = "Scheduled" => l \notin Dedicated /\ u.lane = l /\ u.pc = "resched"
      BY <1>4, <1>8, <1>11, <1>13, <1>16, <2>3
    <3>4. t.phase = "Idle" => NothingPending(t)
      BY <1>8, <1>16, <2>3 DEF NothingPending
    <3> QED
      BY <1>3, <1>13, <1>16, <2>3, <3>1, <3>2, <3>3, <3>4 DEF Attended
  <2>5. /\ Owing(l, s, u, d) /\ Ordered(l, s, u, n)
        /\ Seen(l, s, u, n) = Seen(l, s, v, n)
    <3>1. ~Calls(l, u)
      BY <1>12, <1>13 DEF Calls
    <3> QED
      BY <1>4, <1>6, <3>1, SameView
  <2>6. /\ Owing(l, t, u, d) /\ Ordered(l, t, u, n)
        /\ Seen(l, t, u, n) = Seen(l, s, u, n)
    <3>1. s.phase # "Finished"
      BY <1>4
    <3> QED
      BY <2>3, <2>5, <3>1, SameQueue
  <2>7. /\ u.lane \in {l, SharedWorker} /\ u.pc # "parked" /\ l = worker[w].lane
        /\ Seen(l, t, u, n) \subseteq Seen(l, lane[l], worker[w], last[l])
    BY <1>1, <1>2, <1>12, <1>13, <2>5, <2>6
  <2> QED
    BY <1>3, <1>4, <1>5, <1>6, <1>13, <1>14, <2>2, <2>3, <2>4, <2>6, <2>7, HandsOnly
<1> QED
  BY <1>8, <1>15, <1>16

\* The turns of the shared thread: a lane queues up, or the first one is served.
LEMMA TurnFacts ==
  ASSUME NEW q \in ReadyRecord, NEW t \in Seq(Subs \ Dedicated)
  PROVE  /\ Schedule(q, t) \in ReadyRecord /\ Schedule(q, t).closed = q.closed
         /\ ToSet(q.lanes) \subseteq ToSet(Schedule(q, t).lanes)
         /\ ~q.closed => ToSet(t) \subseteq ToSet(Schedule(q, t).lanes)
         /\ t = <<>> => Schedule(q, t).lanes = q.lanes
<1>1. q.lanes \in Seq(Subs \ Dedicated) /\ q.closed \in BOOLEAN
  BY DEF ReadyRecord
<1>2. CASE q.closed
  BY <1>2 DEF Schedule
<1>3. CASE ~q.closed
  <2>1. PICK r : r = q.lanes \o t
    OBVIOUS
  <2>2. /\ r \in Seq(Subs \ Dedicated) /\ Len(r) = Len(q.lanes) + Len(t)
        /\ \A i \in 1..Len(q.lanes) : r[i] = q.lanes[i]
        /\ \A i \in 1..Len(t) : r[Len(q.lanes) + i] = t[i]
    BY <1>1, <2>1
  <2>3. Schedule(q, t) \in ReadyRecord /\ Schedule(q, t).closed = q.closed /\ Schedule(q, t).lanes = r
    BY <1>3, <2>1, <2>2 DEF Schedule, ReadyRecord
  <2>4. /\ \A i \in 1..Len(q.lanes) : i \in 1..Len(r)
        /\ \A i \in 1..Len(t) : Len(q.lanes) + i \in 1..Len(r)
        /\ DOMAIN r = 1..Len(r) /\ DOMAIN t = 1..Len(t) /\ DOMAIN q.lanes = 1..Len(q.lanes)
    BY <1>1, <2>2
  <2>5. ToSet(q.lanes) \subseteq ToSet(r) /\ ToSet(t) \subseteq ToSet(r)
    BY <2>2, <2>4 DEF ToSet
  <2>6. t = <<>> => r = q.lanes
    BY <1>1, <2>1
  <2> QED
    BY <2>3, <2>5, <2>6
<1> QED
  BY <1>1, <1>2, <1>3

\* A lane that was yielded is queued for its next turn.
LEMMA RescheduleKeeps ==
  ASSUME DeliveryInvariant, Reschedule
  PROVE  DeliveryInvariant'
<1> DEFINE w == SharedWorker
<1>1. PICK v, l, s : v = worker[w] /\ l = worker[w].lane /\ s = lane[l]
  OBVIOUS
<1>2. /\ v.pc = "resched" /\ worker[w].pc \in Handling /\ w \in Workers
      /\ worker[w].pc \notin {"call", "notify"}
      /\ UNCHANGED <<ring, bell, ppc, published, relay, set, lane, unreported, owed, last>>
      /\ ready' = Schedule(ready, <<l>>) /\ Goto(w, "next")
  BY <1>1, ThreadFacts DEF Reschedule, At, Handling, busVars, histories
<1>3. /\ l \in Subs \ Dedicated /\ s \in LaneRecord /\ ready \in ReadyRecord
      /\ Attended(l, s, v, ready) /\ s.phase # "Running"
  BY <1>1, <1>2, InHands, Untouched DEF Calling
<1>4. /\ ready' \in ReadyRecord /\ ready'.closed = ready.closed
      /\ ToSet(ready.lanes) \subseteq ToSet(ready'.lanes)
      /\ ~ready.closed => l \in ToSet(ready'.lanes)
  <2>1. PICK t : t = <<l>>
    OBVIOUS
  <2>2. t \in Seq(Subs \ Dedicated) /\ l \in ToSet(t)
    BY <1>3, <2>1 DEF ToSet
  <2>3. ready' = Schedule(ready, t)
    BY <1>2, <2>1
  <2> QED
    BY <1>3, <2>2, <2>3, TurnFacts
<1>5. PICK u \in WorkerRecord :
         /\ worker' = [worker EXCEPT ![w] = u] /\ u.pc = "next" /\ Serving(w, u)
         /\ u.lane = SharedWorker
  <2>1. "next" \in WorkerPcs \ {"off"} /\ "next" \notin Calling /\ w \notin Dedicated
    BY ThreadFacts DEF WorkerPcs, Calling
  <2> QED
    BY <1>2, <2>1, GotoFacts
<1>6. Bus' /\ ComesAfter /\ Rung'
  BY <1>2, <1>5, BusBeside
<1>7. Attended(l, s, u, ready')
  BY <1>2, <1>3, <1>4, <1>5 DEF Attended, Calling
<1> QED
  BY <1>1, <1>2, <1>4, <1>5, <1>6, <1>7, ThreadOnly

\* The thread that published a diagnostic rings the bell.
LEMMA WorkerNotifiesKeeps ==
  ASSUME DeliveryInvariant, NEW w \in Workers, WorkerNotifies(w)
  PROVE  DeliveryInvariant'
<1>1. PICK v, l, s : v = worker[w] /\ l = worker[w].lane /\ s = lane[l]
  OBVIOUS
<1>2. PICK pc : pc = IF s.own = "poisoned" THEN "finish" ELSE "pick"
  OBVIOUS
<1>3. /\ v.pc = "notify" /\ worker[w].pc \in Handling /\ worker[w].pc \in Calling
      /\ UNCHANGED <<ring, ppc, published, relay, set, lane, ready, unreported, owed, last>>
      /\ bell' = NotifyOne(bell) /\ Goto(w, pc)
  BY <1>1, <1>2 DEF WorkerNotifies, At, Handling, Calling, histories
<1>4. /\ l \in Subs /\ s \in LaneRecord /\ ready' \in ReadyRecord
      /\ Attended(l, s, v, ready) /\ s.phase = "Running"
  BY <1>1, <1>3, InHands, Untouched
<1>5. /\ pc \in WorkerPcs \ {"off"} /\ pc \in Calling /\ pc \notin {"next", "resched", "parked", "call"}
  BY <1>2 DEF WorkerPcs, Calling
<1>6. PICK u \in WorkerRecord :
         /\ worker' = [worker EXCEPT ![w] = u] /\ u.pc = pc /\ Serving(w, u) /\ u.lane = l
  BY <1>1, <1>3, <1>5, GotoFacts
<1>7. Bus' /\ ComesAfter
  BY <1>3 DEF DeliveryInvariant, Bus, Forwarding, Lost, Numbered, ComesAfter, Coming
<1>8. Rung'
  BY <1>3, RungNotify DEF DeliveryInvariant, Rung
<1>9. Attended(l, s, u, ready')
  BY <1>3, <1>4, <1>5, <1>6 DEF Attended
<1> QED
  BY <1>1, <1>3, <1>4, <1>5, <1>6, <1>7, <1>8, <1>9, ThreadOnly

\* A callback ends: what was in hand is settled.
LEMMA Delivered ==
  ASSUME NEW l, NEW s \in LaneRecord, NEW t, NEW v \in WorkerRecord, NEW u, NEW d \in Int, NEW n \in Nat,
         t.queue = s.queue, t.dropped = s.dropped, t.abort = s.abort, t.phase = s.phase,
         Calls(l, v), ~Calls(l, u), Owing(l, s, v, d), Ordered(l, s, v, n),
         NEW c, c = IF s.abort THEN d ELSE d - Settled(v.ev),
         NEW m, m = IF v.ev.kind = "task" THEN v.ev.n ELSE n
  PROVE  /\ c \in Int /\ m \in Nat /\ Owing(l, t, u, c) /\ Ordered(l, t, u, m)
         /\ Seen(l, t, u, m) \subseteq Seen(l, s, v, n)
<1>1. /\ s.queue \in Seq(Events(OfferKinds)) /\ s.dropped \in Nat
      /\ v.ev \in Events(AllKinds) /\ v.ev.n \in Nat
  BY LaneFields, WorkerFields
<1>2. Cardinality(Ordinary(s.queue)) \in Nat
  BY <1>1, OrdinaryFinite
<1>3. Settled(v.ev) \in Nat /\ (~Internal(v.ev) <=> v.ev.kind = "task")
  BY <1>1, OrdinaryKind
<1>4. Owing(l, t, u, c)
  <2> SUFFICES ASSUME t.phase # "Finished", ~t.abort
               PROVE  c = Cardinality(Ordinary(s.queue)) + s.dropped + 0
    BY DEF Owing
  <2>1. d = Cardinality(Ordinary(s.queue)) + s.dropped + Settled(v.ev)
    BY DEF Owing
  <2> QED
    BY <1>1, <1>2, <1>3, <2>1
<1>5. Ordered(l, t, u, m)
  BY <1>3 DEF Ordered
<1>6. Seen(l, t, u, m) \subseteq Seen(l, s, v, n)
  BY <1>3 DEF Seen
<1> QED
  BY <1>1, <1>3, <1>4, <1>5, <1>6

\* The thread goes on after a callback.
LEMMA CallOver ==
  ASSUME DeliveryInvariant, NEW w \in Workers, worker[w].pc = "call",
         Deliver(worker[w].lane, worker[w].ev),
         NEW u \in WorkerRecord, worker' = [worker EXCEPT ![w] = u], Serving(w, u),
         u.lane = worker[w].lane, u.pc \in Calling \ {"call"},
         NEW t \in LaneRecord, lane' = [lane EXCEPT ![worker[w].lane] = t],
         LET s == lane[worker[w].lane]
         IN /\ t.queue = s.queue /\ t.dropped = s.dropped /\ t.abort = s.abort
            /\ t.phase = s.phase /\ t.own \in {s.own, "poisoned"},
         UNCHANGED <<set, ready, relay>>, Bus', ComesAfter, Rung'
  PROVE  DeliveryInvariant'
<1>1. PICK v, l : v = worker[w] /\ l = worker[w].lane
  OBVIOUS
<1>2. PICK s, d, n : s = lane[l] /\ d = owed[l] /\ n = last[l]
  OBVIOUS
<1>3. worker[w].pc \in Handling /\ worker[w].pc \in Calling
  BY DEF Handling, Calling
<1>4. /\ l \in Subs /\ v \in WorkerRecord /\ s \in LaneRecord /\ d \in Int /\ n \in Nat
      /\ Attended(l, s, v, ready) /\ Owing(l, s, v, d) /\ Ordered(l, s, v, n)
      /\ s.phase = "Running" /\ ready' \in ReadyRecord /\ v.lane = l
  BY <1>1, <1>2, <1>3, InHands, Untouched
<1>5. PICK c, m : /\ c = IF s.abort THEN d ELSE d - Settled(v.ev)
                  /\ m = IF v.ev.kind = "task" THEN v.ev.n ELSE n
  OBVIOUS
<1>6. owed' = [owed EXCEPT ![l] = c] /\ last' = [last EXCEPT ![l] = m]
  <2>1. owed = [owed EXCEPT ![l] = d] /\ last = [last EXCEPT ![l] = n]
    BY <1>2, <1>4, Untouched
  <2>2. CASE s.abort
    BY <1>1, <1>2, <1>5, <2>1, <2>2 DEF Deliver
  <2>3. CASE ~s.abort
    BY <1>1, <1>2, <1>5, <2>1, <2>3 DEF Deliver
  <2> QED
    BY <2>2, <2>3
<1>7. Calls(l, v) /\ ~Calls(l, u)
  BY <1>1, <1>4 DEF Calls
<1>8. /\ t.queue = s.queue /\ t.dropped = s.dropped /\ t.abort = s.abort
      /\ t.phase = s.phase /\ t.own \in {s.own, "poisoned"}
  BY <1>1, <1>2
<1>9. /\ c \in Int /\ m \in Nat /\ Owing(l, t, u, c) /\ Ordered(l, t, u, m)
      /\ Seen(l, t, u, m) \subseteq Seen(l, s, v, n)
  BY <1>4, <1>5, <1>7, <1>8, Delivered
<1>10. Attended(l, t, u, ready')
  BY <1>1, <1>4, <1>8 DEF Attended, Calling
<1>11. /\ u.lane \in {l, SharedWorker} /\ u.pc # "parked"
       /\ Seen(l, t, u, m) \subseteq Seen(l, lane[l], worker[w], last[l])
       /\ lane' = [lane EXCEPT ![l] = t]
  BY <1>1, <1>2, <1>9 DEF Calling
<1> QED
  BY <1>1, <1>3, <1>4, <1>6, <1>9, <1>10, <1>11, HandsOnly

\* A callback returns.
LEMMA CallReturnsKeeps ==
  ASSUME DeliveryInvariant, NEW w \in Workers, CallReturns(w)
  PROVE  DeliveryInvariant'
<1>1. /\ worker[w].pc = "call" /\ Deliver(worker[w].lane, worker[w].ev) /\ Goto(w, "pick")
      /\ UNCHANGED <<ring, bell, ppc, published, relay, set, lane, ready, unreported>>
      /\ worker[w].pc \in Handling /\ worker[w].pc \in Calling
  BY DEF CallReturns, At, busVars, Handling, Calling
<1>2. PICK u \in WorkerRecord : /\ worker' = [worker EXCEPT ![w] = u] /\ u.pc = "pick"
                                /\ Serving(w, u) /\ u.lane = worker[w].lane
  <2>1. "pick" \in WorkerPcs \ {"off"} /\ "pick" \notin {"next", "resched"}
    BY DEF WorkerPcs, Calling
  <2> QED
    BY <1>1, <2>1, GotoFacts
<1>3. Bus' /\ ComesAfter /\ Rung'
  BY <1>1, <1>2, BusBeside
<1>4. u.pc \in Calling \ {"call"}
  BY <1>2 DEF Calling
<1>5. PICK t : t = lane[worker[w].lane]
  OBVIOUS
<1>6. t \in LaneRecord /\ lane' = [lane EXCEPT ![worker[w].lane] = t]
  BY <1>1, <1>5, InHands, Untouched
<1> QED
  BY <1>1, <1>2, <1>3, <1>4, <1>5, <1>6, CallOver

\* A callback panics; the diagnostic it leaves, for an ordinary event, will be
\* rung for by this thread when it finds the ring empty.
LEMMA CallPanicsKeeps ==
  ASSUME DeliveryInvariant, NEW w \in Workers, NEW nested \in BOOLEAN, CallPanics(w, nested)
  PROVE  DeliveryInvariant'
<1>1. PICK l, e, s : l = worker[w].lane /\ e = worker[w].ev /\ s = lane[l]
  OBVIOUS
<1>2. PICK pc : pc = IF ~Internal(e) /\ BecameNonempty(ring) THEN "notify"
                     ELSE IF nested THEN "finish" ELSE "pick"
  OBVIOUS
<1>3. /\ worker[w].pc = "call" /\ Deliver(l, e) /\ Goto(w, pc)
      /\ lane' = IF nested THEN [lane EXCEPT ![l].own = "poisoned"] ELSE lane
      /\ IF Internal(e) THEN UNCHANGED <<ring, unreported>> ELSE PublishTo(Panicked)
      /\ UNCHANGED <<bell, ppc, published, relay, set, ready>>
      /\ worker[w].pc \in Handling /\ worker[w].pc \in Calling
  BY <1>1, <1>2 DEF CallPanics, At, Handling, Calling
<1>4. /\ pc \in WorkerPcs \ {"off"} /\ pc \in Calling /\ pc # "call"
      /\ pc \notin {"next", "resched"}
  BY <1>2 DEF WorkerPcs, Calling
<1>5. PICK u \in WorkerRecord : /\ worker' = [worker EXCEPT ![w] = u] /\ u.pc = pc
                                /\ Serving(w, u) /\ u.lane = l
  BY <1>1, <1>3, <1>4, GotoFacts
<1>6. l \in Subs /\ s \in LaneRecord
  BY <1>1, <1>3, InHands
<1>7. PICK t : t = IF nested THEN [s EXCEPT !.own = "poisoned"] ELSE s
  OBVIOUS
<1>8. /\ t \in LaneRecord /\ lane' = [lane EXCEPT ![l] = t]
      /\ t.queue = s.queue /\ t.dropped = s.dropped /\ t.abort = s.abort
      /\ t.phase = s.phase /\ t.own \in {s.own, "poisoned"}
  <2>1. CASE nested
    BY <1>1, <1>3, <1>6, <1>7, <2>1 DEF LaneRecord
  <2>2. CASE ~nested
    BY <1>1, <1>3, <1>6, <1>7, <2>2, Untouched
  <2> QED
    BY <2>1, <2>2
<1>9. Bus' /\ ComesAfter /\ Rung'
  <2>1. CASE Internal(e)
    BY <1>3, <1>5, <2>1, BusBeside
  <2>2. CASE ~Internal(e)
    <3>1. Bus /\ Rung /\ published \in Nat
      BY DEF DeliveryInvariant, Bus, Lost
    <3>2. Publishes
      <4>1. PICK p : p = Panicked
        OBVIOUS
      <4>2. p \in Events(RingKinds) /\ Internal(p)
        BY <4>1 DEF Panicked, Events, RingKinds, Internal
      <4> QED
        BY <1>3, <2>2, <3>1, <4>1, <4>2, PublishStep
    <3>3. Bus' /\ ComesAfter
      BY <1>3, <3>1, <3>2, PublishBeside
    <3>4. worker'[w] = u /\ \A x \in Workers : x # w => worker'[x] = worker[x]
      BY <1>5 DEF DeliveryInvariant, SetTypes
    <3>5. Ringing => Ringing'
      BY <1>3, <3>4 DEF Ringing, At
    <3>6. BecameNonempty(ring) => Ringing'
      BY <1>2, <1>5, <2>2, <3>4 DEF Ringing, At
    <3>7. Rung'
      BY <1>3, <3>1, <3>2, <3>5, <3>6, RungBeside DEF Publishes, Rung
    <3> QED
      BY <3>3, <3>7
  <2> QED
    BY <2>1, <2>2
<1>10. /\ Deliver(worker[w].lane, worker[w].ev) /\ worker[w].pc = "call"
       /\ u.lane = worker[w].lane /\ u.pc \in Calling \ {"call"}
       /\ lane' = [lane EXCEPT ![worker[w].lane] = t] /\ UNCHANGED <<set, ready, relay>>
  BY <1>1, <1>3, <1>4, <1>5, <1>8
<1>11. LET x == lane[worker[w].lane]
       IN /\ t.queue = x.queue /\ t.dropped = x.dropped /\ t.abort = x.abort
          /\ t.phase = x.phase /\ t.own \in {x.own, "poisoned"}
  BY <1>1, <1>8
<1> QED
  BY <1>5, <1>8, <1>9, <1>10, <1>11, CallOver

\* A thread finishes its lane.
LEMMA FinishKeeps ==
  ASSUME DeliveryInvariant, NEW w \in Workers, Finish(w)
  PROVE  DeliveryInvariant'
<1>1. PICK v, l : v = worker[w] /\ l = worker[w].lane
  OBVIOUS
<1>2. PICK s, n : s = lane[l] /\ n = last[l]
  OBVIOUS
<1>3. PICK pc : pc = IF w = SharedWorker THEN "next" ELSE "exit"
  OBVIOUS
<1>4. /\ worker[w].pc = "finish" /\ Goto(w, pc) /\ worker[w].pc \in Handling
      /\ lane' = [lane EXCEPT ![l] = FinishRunning(@)]
      /\ owed' = IF s.abort \/ s.own = "poisoned" THEN [owed EXCEPT ![l] = 0] ELSE owed
      /\ UNCHANGED <<ring, bell, ppc, published, relay, set, ready, unreported, last>>
  BY <1>1, <1>2, <1>3 DEF Finish, At, Handling, Calling, busVars
<1>5. /\ l \in Subs /\ v \in WorkerRecord /\ s \in LaneRecord /\ owed[l] \in Int /\ n \in Nat
      /\ Attended(l, s, v, ready) /\ Ordered(l, s, v, n) /\ ready' \in ReadyRecord /\ v.lane = l
      /\ s.phase = "Running" /\ (w = SharedWorker <=> l \notin Dedicated)
  BY <1>1, <1>2, <1>4, InHands, Untouched DEF Calling
<1>6. PICK d : d = IF s.abort \/ s.own = "poisoned" THEN 0 ELSE owed[l]
  OBVIOUS
<1>7. d \in Int /\ owed' = [owed EXCEPT ![l] = d] /\ last' = [last EXCEPT ![l] = n]
  <2>1. owed = [owed EXCEPT ![l] = owed[l]] /\ last = [last EXCEPT ![l] = last[l]]
    BY <1>5, Untouched
  <2>2. CASE s.abort \/ s.own = "poisoned"
    <3>1. d = 0 /\ owed' = [owed EXCEPT ![l] = 0] /\ last' = last
      BY <1>4, <1>6, <2>2
    <3> QED
      BY <1>2, <2>1, <3>1
  <2>3. CASE ~(s.abort \/ s.own = "poisoned")
    <3>1. d = owed[l] /\ owed' = owed /\ last' = last
      BY <1>4, <1>6, <2>3
    <3> QED
      BY <1>2, <1>5, <2>1, <3>1
  <2> QED
    BY <2>2, <2>3
<1>8. PICK t : t = FinishRunning(s)
  OBVIOUS
<1>9. /\ lane' = [lane EXCEPT ![l] = t] /\ t \in LaneRecord /\ t.phase = "Finished"
      /\ t.queue = <<>> /\ t.own # "lane"
  <2>1. lane' = [lane EXCEPT ![l] = t]
    BY <1>2, <1>4, <1>8
  <2>2. <<>> \in Seq(Events(OfferKinds))
    OBVIOUS
  <2>3. /\ t \in LaneRecord /\ t.phase = "Finished" /\ t.queue = <<>>
        /\ t.own = IF s.own = "poisoned" THEN "retired" ELSE "submitted"
    BY <1>5, <1>8, <2>2 DEF FinishRunning, LaneRecord
  <2> QED
    BY <2>1, <2>3
<1>10. /\ pc \in WorkerPcs \ {"off"} /\ pc \notin Calling /\ pc # "parked"
       /\ w \in Dedicated => pc \notin {"next", "resched"}
  BY <1>3, ThreadFacts DEF WorkerPcs, Calling
<1>11. PICK u \in WorkerRecord : /\ worker' = [worker EXCEPT ![w] = u] /\ u.pc = pc
                                 /\ Serving(w, u) /\ u.lane \in {l, SharedWorker}
  BY <1>1, <1>4, <1>10, GotoFacts
<1>12. Bus' /\ ComesAfter /\ Rung'
  BY <1>4, <1>11, BusBeside
<1>13. Attended(l, t, u, ready')
  BY <1>9, <1>10, <1>11 DEF Attended
<1>14. Owing(l, t, u, d) /\ ~Calls(l, u)
  BY <1>9, <1>10, <1>11 DEF Owing, Calls, Calling
<1>15. Ordered(l, t, u, n) /\ Seen(l, t, u, n) = {n}
  <2>1. Ordinary(t.queue) = {}
    BY <1>9 DEF Ordinary
  <2> QED
    BY <1>14, <2>1 DEF Ordered, Seen, Rising, Above
<1>16. Seen(l, t, u, n) \subseteq Seen(l, lane[l], worker[w], last[l])
  BY <1>2, <1>15 DEF Seen
<1> QED
  BY <1>1, <1>4, <1>5, <1>7, <1>9, <1>10, <1>11, <1>12, <1>13, <1>14, <1>15, <1>16, HandsOnly

\* The shared thread takes the first lane of the queue, sleeps or ends.
LEMMA SharedNextKeeps ==
  ASSUME DeliveryInvariant, SharedNext
  PROVE  DeliveryInvariant'
<1>1. PICK w : w = SharedWorker
  OBVIOUS
<1>2. PICK v : v = worker[w]
  OBVIOUS
<1>3. /\ v.pc = "next" /\ w \in Workers
      /\ UNCHANGED <<ring, bell, ppc, published, relay, set, lane, unreported, owed, last>>
  BY <1>1, <1>2, ThreadFacts DEF SharedNext, At, busVars, histories
<1>4. /\ worker \in [Workers -> WorkerRecord] /\ lane \in [Subs -> LaneRecord]
      /\ ready \in ReadyRecord /\ CountTypes /\ Serviced
  BY DEF DeliveryInvariant, SetTypes
<1>5. PICK q : q = ready.lanes
  OBVIOUS
<1>6. q \in Seq(Subs \ Dedicated) /\ ready.closed \in BOOLEAN
  BY <1>4, <1>5 DEF ReadyRecord
<1>7. PICK u : u = IF q # <<>> THEN [v EXCEPT !.pc = "begin", !.lane = Head(q)]
                   ELSE [v EXCEPT !.pc = IF ready.closed THEN "exit" ELSE "parked", !.ev = NoEvent]
  OBVIOUS
<1>8. /\ worker' = [worker EXCEPT ![w] = u]
      /\ q # <<>> => ready' = [ready EXCEPT !.lanes = Tail(q)]
      /\ q = <<>> => ready' = ready
  <2>1. CASE q # <<>>
    BY <1>1, <1>2, <1>5, <1>7, <2>1 DEF SharedNext
  <2>2. CASE q = <<>>
    <3>1. PICK pc : pc = IF ready.closed THEN "exit" ELSE "parked"
      OBVIOUS
    <3>2. pc # "next" /\ Goto(w, pc) /\ ready' = ready
      BY <1>1, <1>5, <2>2, <3>1 DEF SharedNext
    <3> QED
      BY <1>2, <1>7, <2>2, <3>1, <3>2 DEF Goto
  <2> QED
    BY <2>1, <2>2
<1>9. /\ q # <<>> => /\ u \in WorkerRecord /\ u.pc = "begin" /\ u.lane = Head(q)
                      /\ Head(q) \in Subs \ Dedicated
      /\ q = <<>> => /\ u \in WorkerRecord /\ u.pc \in {"exit", "parked"} /\ u.lane = v.lane
                     /\ u.pc = "parked" => ~ready.closed
  <2>1. v \in WorkerRecord
    BY <1>2, <1>3, <1>4
  <2>2. CASE q # <<>>
    <3>1. PICK h : h = Head(q)
      OBVIOUS
    <3>2. h \in Subs \ Dedicated
      BY <1>6, <2>2, <3>1
    <3>3. u = [v EXCEPT !.pc = "begin", !.lane = h]
      BY <1>7, <2>2, <3>1
    <3>4. u \in WorkerRecord /\ u.pc = "begin" /\ u.lane = h
      BY <2>1, <3>2, <3>3 DEF WorkerRecord, WorkerPcs
    <3> QED
      BY <2>2, <3>1, <3>2, <3>4
  <2>3. CASE q = <<>>
    <3>1. NoEvent \in Events(AllKinds)
      BY DEF NoEvent, Task, Events, AllKinds, OfferKinds, RingKinds
    <3>2. PICK pc : pc = IF ready.closed THEN "exit" ELSE "parked"
      OBVIOUS
    <3>3. pc \in WorkerPcs /\ u = [v EXCEPT !.pc = pc, !.ev = NoEvent]
      BY <1>7, <2>3, <3>2 DEF WorkerPcs
    <3>4. u \in WorkerRecord /\ u.pc = pc /\ u.lane = v.lane
      BY <2>1, <3>1, <3>3 DEF WorkerRecord
    <3> QED
      BY <2>3, <3>2, <3>4
  <2> QED
    BY <2>2, <2>3
<1>10. /\ ready' \in ReadyRecord /\ ready'.closed = ready.closed
       /\ \A l \in ToSet(q) : l \in ToSet(ready'.lanes) \/ (q # <<>> /\ l = Head(q))
       /\ q = <<>> => ready'.lanes = <<>>
  <2>1. CASE q = <<>>
    BY <1>4, <1>5, <1>8, <2>1
  <2>2. CASE q # <<>>
    <3>1. PICK t : t = Tail(q)
      OBVIOUS
    <3>2. /\ t \in Seq(Subs \ Dedicated) /\ Len(t) = Len(q) - 1 /\ Len(q) \in Nat /\ Head(q) = q[1]
          /\ \A i \in 1..Len(t) : t[i] = q[i + 1]
          /\ DOMAIN q = 1..Len(q) /\ DOMAIN t = 1..Len(t)
      BY <1>6, <2>2, <3>1
    <3>3. ready' \in ReadyRecord /\ ready'.closed = ready.closed /\ ready'.lanes = t
      BY <1>4, <1>8, <2>2, <3>1, <3>2 DEF ReadyRecord
    <3>4. ASSUME NEW i \in 1..Len(q), i # 1 PROVE q[i] \in ToSet(t)
      <4>1. i - 1 \in 1..Len(t) /\ (i - 1) + 1 = i
        BY <3>2, <3>4
      <4>2. t[i - 1] = q[i]
        BY <3>2, <4>1
      <4> QED
        BY <3>2, <4>1, <4>2 DEF ToSet
    <3>5. \A l \in ToSet(q) : l \in ToSet(t) \/ l = Head(q)
      BY <3>2, <3>4 DEF ToSet
    <3> QED
      BY <2>2, <3>3, <3>5
  <2> QED
    BY <2>1, <2>2
<1>11. u \in WorkerRecord /\ u.pc \in {"begin", "exit", "parked"}
  BY <1>9
<1>12. worker'[w] = u /\ \A x \in Workers : x # w => worker'[x] = worker[x]
  BY <1>3, <1>4, <1>8
<1>13. SetTypes' /\ CountTypes'
  BY <1>3, <1>4, <1>8, <1>10, <1>11 DEF DeliveryInvariant, SetTypes, CountTypes
<1>14. set # "pending"
  BY <1>2, <1>3 DEF DeliveryInvariant, Unstarted, At
<1>15. Serviced'
  <2>1. Serving(w, u)
    BY <1>1, <1>9, ThreadFacts DEF Serving, Calling
  <2>2. u.pc = "parked" => ready'.lanes = <<>> /\ ~ready'.closed
    BY <1>9, <1>10
  <2> QED
    BY <1>1, <1>4, <1>12, <2>1, <2>2 DEF Serviced, At
<1>16. Bus' /\ ComesAfter /\ Rung'
  <2>1. worker[w].pc # "notify"
    BY <1>2, <1>3
  <2> QED
    BY <1>3, <1>8, <2>1, BusBeside
<1>17. ASSUME NEW l \in Subs PROVE Served(l)'
  <2>1. PICK s, d, n, x, y : /\ s = lane[l] /\ d = owed[l] /\ n = last[l]
                             /\ x = worker[Thread(l)] /\ y = worker'[Thread(l)]
    OBVIOUS
  <2>2. /\ s \in LaneRecord /\ n \in Nat /\ Thread(l) \in Workers /\ x \in WorkerRecord
        /\ Attended(l, s, x, ready) /\ Owing(l, s, x, d) /\ Ordered(l, s, x, n)
        /\ \A m \in Seen(l, s, x, n) : Coming(m)
    BY <1>4, <2>1, ThreadFacts DEF DeliveryInvariant, Served, CountTypes
  <2>3. \A m \in Seen(l, s, x, n) : Coming(m)'
    <3>1. Seen(l, s, x, n) \subseteq Nat
      BY <2>2, SeenNumbers
    <3> QED
      BY <1>16, <2>2, <3>1 DEF ComesAfter
  <2>4. /\ Attended(l, s, y, ready') /\ Owing(l, s, y, d) /\ Ordered(l, s, y, n)
        /\ Seen(l, s, y, n) = Seen(l, s, x, n)
    <3>1. CASE l \in Dedicated
      <4>1. y = x
        BY <1>1, <1>12, <2>1, <2>2, <3>1, ThreadFacts
      <4> QED
        BY <1>10, <2>2, <3>1, <4>1 DEF Attended
    <3>2. CASE l \notin Dedicated
      <4>1. x = v /\ y = u
        BY <1>1, <1>2, <1>12, <2>1, <3>2, ThreadFacts
      <4>2. ~Calls(l, x) /\ ~Calls(l, y)
        BY <1>3, <1>11, <4>1 DEF Calls
      <4>3. x.pc \notin Calling /\ y.pc \notin Calling /\ x.pc \notin {"begin", "resched"}
        BY <1>3, <1>11, <4>1 DEF Calling
      <4>4. l \in ToSet(q) => l \in ToSet(ready'.lanes) \/ (y.lane = l /\ y.pc = "begin")
        BY <1>9, <1>10, <4>1
      <4>5. Attended(l, s, y, ready')
        BY <1>5, <1>10, <2>2, <3>2, <4>3, <4>4 DEF Attended
      <4> QED
        BY <2>2, <4>2, <4>5, SameView
    <3> QED
      BY <3>1, <3>2
  <2> QED
    BY <1>3, <2>1, <2>3, <2>4 DEF Served
<1> QED
  BY <1>3, <1>13, <1>14, <1>15, <1>16, <1>17 DEF DeliveryInvariant, Unstarted

(***************************************************************************)
(* Steps that wake threads and reach every lane.                           *)
(***************************************************************************)

\* What a wakeup does to a thread, at most.
Wakes(v, u) ==
    \/ u = v
    \/ /\ v.pc = "parked" /\ u.pc \in {"begin", "next"}
       /\ u.lane = v.lane /\ u.left = v.left /\ u.ev = v.ev

\* The dedicated threads of S are woken.
LEMMA WakeDedicatedFacts ==
  ASSUME DeliveryInvariant, NEW S \in SUBSET Subs
  PROVE  LET ws == WakeDedicated(S)
         IN /\ ws \in [Workers -> WorkerRecord] /\ ws[SharedWorker] = worker[SharedWorker]
            /\ \A w \in Workers : Wakes(worker[w], ws[w]) /\ Serving(w, ws[w])
            /\ \A l \in S : l \in Dedicated => ws[l].pc # "parked"
<1> DEFINE ws == WakeDedicated(S)
<1>1. worker \in [Workers -> WorkerRecord] /\ \A w \in Workers : Serving(w, worker[w])
  BY DEF DeliveryInvariant, SetTypes, Serviced
<1>2. ASSUME NEW w \in Workers
      PROVE  /\ ws[w] \in WorkerRecord /\ Wakes(worker[w], ws[w]) /\ Serving(w, ws[w])
             /\ w \in S => ws[w].pc # "parked"
             /\ w = SharedWorker => ws[w] = worker[w]
  <2>1. PICK v, u : v = worker[w] /\ u = ws[w]
    OBVIOUS
  <2>2. v \in WorkerRecord /\ Serving(w, v)
    BY <1>1, <2>1
  <2>3. u = [v EXCEPT !.pc = IF @ = "parked" /\ w \in S THEN "begin" ELSE @]
    BY <2>1 DEF WakeDedicated
  <2>4. CASE v.pc = "parked" /\ w \in S
    <3>1. u = [v EXCEPT !.pc = "begin"]
      BY <2>3, <2>4
    <3>2. /\ u \in WorkerRecord /\ u.pc = "begin" /\ u.lane = v.lane /\ u.left = v.left /\ u.ev = v.ev
      BY <2>2, <3>1 DEF WorkerRecord, WorkerPcs
    <3>3. w # SharedWorker
      BY <2>4, ThreadFacts
    <3>4. Serving(w, u)
      BY <2>2, <2>4, <3>2, <3>3 DEF Serving, Calling
    <3> QED
      BY <2>1, <2>4, <3>2, <3>3, <3>4 DEF Wakes
  <2>5. CASE ~(v.pc = "parked" /\ w \in S)
    <3>1. u = v
      BY <2>2, <2>3, <2>5 DEF WorkerRecord
    <3> QED
      BY <2>1, <2>2, <2>5, <3>1 DEF Wakes
  <2> QED
    BY <2>4, <2>5
<1>3. ws \in [Workers -> WorkerRecord]
  BY <1>2 DEF WakeDedicated
<1>4. \A l \in S : l \in Dedicated => ws[l].pc # "parked"
  BY <1>2, ThreadFacts
<1> HIDE DEF ws
<1> QED
  BY <1>2, <1>3, <1>4, ThreadFacts DEF ws

\* The shared thread is woken after them.
LEMMA SharedWokenFacts ==
  ASSUME NEW vs \in [Workers -> WorkerRecord], NEW ws \in [Workers -> WorkerRecord],
         \A w \in Workers : Wakes(vs[w], ws[w]) /\ Serving(w, ws[w]),
         ws[SharedWorker] = vs[SharedWorker]
  PROVE  LET us == SharedWoken(ws)
         IN /\ us \in [Workers -> WorkerRecord] /\ us[SharedWorker].pc # "parked"
            /\ \A w \in Workers : Wakes(vs[w], us[w]) /\ Serving(w, us[w])
            /\ \A l \in Dedicated : us[l] = ws[l]
<1> DEFINE us == SharedWoken(ws)
<1>1. SharedWorker \in Workers
  BY ThreadFacts
<1>2. PICK v, u : v = ws[SharedWorker] /\ u = us[SharedWorker]
  OBVIOUS
<1>3. PICK x : x = [v EXCEPT !.pc = IF @ = "parked" THEN "next" ELSE @]
  OBVIOUS
<1>4. us = [ws EXCEPT ![SharedWorker] = x]
  BY <1>2, <1>3 DEF SharedWoken
<1>5. /\ x \in WorkerRecord /\ x.pc = (IF v.pc = "parked" THEN "next" ELSE v.pc)
      /\ x.lane = v.lane /\ x.left = v.left /\ x.ev = v.ev /\ v \in WorkerRecord
  BY <1>1, <1>2, <1>3 DEF WorkerRecord, WorkerPcs
<1>6. v.pc # "parked" => x = v
  BY <1>3, <1>5 DEF WorkerRecord
<1> HIDE DEF us
<1>7. /\ us \in [Workers -> WorkerRecord] /\ us[SharedWorker] = x
      /\ \A w \in Workers : w # SharedWorker => us[w] = ws[w]
  BY <1>1, <1>4, <1>5
<1>8. Wakes(vs[SharedWorker], x) /\ Serving(SharedWorker, x) /\ x.pc # "parked"
  <2>1. CASE v.pc = "parked"
    <3>1. Serving(SharedWorker, x)
      BY <1>5, <2>1, ThreadFacts DEF Serving, Calling
    <3> QED
      BY <1>2, <1>5, <2>1, <3>1 DEF Wakes
  <2>2. CASE v.pc # "parked"
    BY <1>1, <1>2, <1>6, <2>2 DEF Wakes
  <2> QED
    BY <2>1, <2>2
<1> QED
  BY <1>7, <1>8, ThreadFacts DEF us

\* A wakeup by itself changes nothing for a lane.
LEMMA WakesServed ==
  ASSUME NEW l, NEW s, NEW v, NEW u, NEW q, NEW d, NEW n, Wakes(v, u),
         Attended(l, s, v, q), Owing(l, s, v, d), Ordered(l, s, v, n)
  PROVE  /\ Attended(l, s, u, q) /\ Owing(l, s, u, d) /\ Ordered(l, s, u, n)
         /\ Seen(l, s, u, n) = Seen(l, s, v, n)
<1>1. CASE u = v
  BY <1>1
<1>2. CASE v.pc = "parked" /\ u.pc \in {"begin", "next"} /\ u.lane = v.lane
  <2>1. ~Calls(l, v) /\ ~Calls(l, u)
    BY <1>2 DEF Calls
  <2>2. Attended(l, s, u, q)
    BY <1>2 DEF Attended, Calling
  <2> QED
    BY <2>1, <2>2, SameView
<1> QED
  BY <1>1, <1>2 DEF Wakes

\* Neither for the bell.
LEMMA WakesRung ==
  ASSUME Rung, UNCHANGED <<ring, bell, ppc, relay>>,
         \A w \in Workers : Wakes(worker[w], worker'[w])
  PROVE  Rung'
<1>1. Ringing => Ringing'
  BY DEF Ringing, At, Wakes
<1> QED
  BY <1>1, RungBeside DEF Rung

\* Nothing happens on the bus, threads are woken, and every lane is served on.
LEMMA AllServed ==
  ASSUME DeliveryInvariant, set' \in {set, "closed"},
         UNCHANGED <<ring, bell, ppc, published, relay, unreported, last>>,
         worker' \in [Workers -> WorkerRecord], lane' \in [Subs -> LaneRecord],
         owed' \in [Subs -> Int], ready' \in ReadyRecord,
         \A w \in Workers : Wakes(worker[w], worker'[w]) /\ Serving(w, worker'[w]),
         worker'[SharedWorker].pc = "parked" => ready'.lanes = <<>> /\ ~ready'.closed,
         \A l \in Subs : LET u == worker'[Thread(l)]
                             t == lane'[l]
                         IN /\ Attended(l, t, u, ready') /\ Owing(l, t, u, owed'[l])
                            /\ Ordered(l, t, u, last[l])
                            /\ Seen(l, t, u, last[l]) \subseteq
                                  Seen(l, lane[l], worker[Thread(l)], last[l])
  PROVE  DeliveryInvariant'
<1>1. Bus' /\ ComesAfter
  BY DEF DeliveryInvariant, Bus, Forwarding, Lost, Numbered, ComesAfter, Coming
<1>2. Rung'
  BY WakesRung DEF DeliveryInvariant
<1>3. SetTypes' /\ CountTypes'
  BY DEF DeliveryInvariant, SetTypes, CountTypes
<1>4. Unstarted'
  BY DEF DeliveryInvariant, Unstarted, At, Wakes
<1>5. Serviced'
  BY DEF Serviced, At
<1>6. ASSUME NEW l \in Subs PROVE Served(l)'
  <2>1. PICK s, v, n : s = lane[l] /\ v = worker[Thread(l)] /\ n = last[l]
    OBVIOUS
  <2>2. s \in LaneRecord /\ v \in WorkerRecord /\ n \in Nat /\ \A m \in Seen(l, s, v, n) : Coming(m)
    BY <2>1, ThreadFacts DEF DeliveryInvariant, SetTypes, CountTypes, Served
  <2>3. Seen(l, s, v, n) \subseteq Nat
    BY <2>2, SeenNumbers
  <2>4. \A m \in Seen(l, s, v, n) : Coming(m)'
    BY <1>1, <2>2, <2>3 DEF ComesAfter
  <2> QED
    BY <2>1, <2>4 DEF Served
<1> QED
  BY <1>1, <1>2, <1>3, <1>4, <1>5, <1>6 DEF DeliveryInvariant

\* The set starts its threads, and the relay follows.
LEMMA StartSetKeeps ==
  ASSUME DeliveryInvariant, StartSet
  PROVE  DeliveryInvariant'
<1>1. /\ set = "pending" /\ set' = "started" /\ relay' = [relay EXCEPT !.pc = "top"]
      /\ worker' = [w \in Workers |->
                      [Idle EXCEPT !.pc = IF w = SharedWorker THEN "next" ELSE "begin", !.lane = w]]
      /\ UNCHANGED <<ring, bell, ppc, published, lane, ready, unreported, owed, last>>
  BY DEF StartSet, busVars, histories
<1>2. relay.pc = "off" /\ relay \in RelayRecord /\ \A w \in Workers : worker[w].pc = "off"
  BY <1>1 DEF DeliveryInvariant, Unstarted, At, Bus, Forwarding
<1>3. /\ relay' \in RelayRecord /\ relay'.out = relay.out /\ relay'.lost = relay.lost
      /\ relay'.pc = "top"
  BY <1>1, <1>2 DEF RelayRecord, RelayPcs
<1>4. Bus' /\ ComesAfter
  <2>1. relay.pc \in Between /\ relay'.pc \in Between
    BY <1>2, <1>3 DEF Between
  <2> QED
    BY <1>1, <1>3, <2>1, RelayMoves DEF DeliveryInvariant
<1>5. Rung'
  BY <1>1, <1>3, RungAwake DEF DeliveryInvariant, Rung
<1>6. NoEvent \in Events(AllKinds)
  BY DEF NoEvent, Task, Events, AllKinds, OfferKinds, RingKinds
<1>7. ASSUME NEW w \in Workers
      PROVE  /\ worker'[w] \in WorkerRecord /\ worker'[w].lane = w
             /\ worker'[w].pc = IF w = SharedWorker THEN "next" ELSE "begin"
  BY <1>1, <1>6, ThreadFacts DEF Idle, WorkerRecord, WorkerPcs
<1>8. worker' \in [Workers -> WorkerRecord]
  BY <1>1, <1>7
<1>9. SetTypes' /\ CountTypes'
  BY <1>1, <1>8 DEF DeliveryInvariant, SetTypes, CountTypes
<1>10. Unstarted'
  BY <1>1 DEF Unstarted
<1>11. Serviced'
  <2>1. ASSUME NEW w \in Workers PROVE Serving(w, worker'[w]) /\ worker'[w].pc # "parked"
    BY <1>7, ThreadFacts DEF Serving, Calling
  <2> QED
    BY <2>1, ThreadFacts DEF Serviced, At
<1>12. ASSUME NEW l \in Subs PROVE Served(l)'
  <2>1. PICK s, d, n, v, u : /\ s = lane[l] /\ d = owed[l] /\ n = last[l]
                             /\ v = worker[Thread(l)] /\ u = worker'[Thread(l)]
    OBVIOUS
  <2>2. /\ s \in LaneRecord /\ n \in Nat /\ v \in WorkerRecord
        /\ Attended(l, s, v, ready) /\ Owing(l, s, v, d) /\ Ordered(l, s, v, n)
        /\ \A m \in Seen(l, s, v, n) : Coming(m)
    BY <2>1, ThreadFacts DEF DeliveryInvariant, SetTypes, CountTypes, Served
  <2>3. v.pc = "off" /\ u.pc \in {"next", "begin"}
    BY <1>2, <1>7, <2>1, ThreadFacts
  <2>4. Attended(l, s, u, ready')
    BY <1>1, <2>2, <2>3 DEF Attended, Calling
  <2>5. Owing(l, s, u, d) /\ Ordered(l, s, u, n) /\ Seen(l, s, u, n) = Seen(l, s, v, n)
    <3>1. ~Calls(l, v) /\ ~Calls(l, u)
      BY <2>3 DEF Calls
    <3> QED
      BY <2>2, <3>1, SameView
  <2>6. Seen(l, s, v, n) \subseteq Nat
    BY <2>2, SeenNumbers
  <2>7. \A m \in Seen(l, s, u, n) : Coming(m)'
    BY <1>4, <2>2, <2>5, <2>6 DEF ComesAfter
  <2> QED
    BY <1>1, <2>1, <2>4, <2>5, <2>7 DEF Served
<1> QED
  BY <1>4, <1>5, <1>9, <1>10, <1>11, <1>12 DEF DeliveryInvariant

(***************************************************************************)
(* close and drop of the set.                                              *)
(***************************************************************************)

\* A lane is told to close: an idle one is over, the others go on.
LEMMA ClosedServed ==
  ASSUME NEW l, NEW s \in LaneRecord, NEW t, t = BeginClose(s), NEW u, NEW q, NEW d, NEW n,
         Attended(l, s, u, q), Owing(l, s, u, d), Ordered(l, s, u, n),
         l \in Dedicated => u.pc # "parked"
  PROVE  /\ t \in LaneRecord
         /\ Attended(l, t, u, q) /\ Owing(l, t, u, d) /\ Ordered(l, t, u, n)
         /\ Seen(l, t, u, n) = Seen(l, s, u, n)
<1>1. CASE s.phase = "Idle"
  <2>1. /\ t \in LaneRecord /\ t.phase = "Finished" /\ t.own = "submitted" /\ t.queue = s.queue
        /\ t.abort = s.abort
    BY <1>1 DEF BeginClose, LaneRecord
  <2>2. Attended(l, t, u, q)
    BY <1>1, <2>1 DEF Attended
  <2> QED
    BY <2>1, <2>2 DEF Owing, Ordered, Seen
<1>2. CASE s.phase # "Idle"
  <2>1. /\ t \in LaneRecord /\ t.phase = s.phase /\ t.own = s.own /\ t.queue = s.queue
        /\ t.dropped = s.dropped /\ t.abort = s.abort
    BY <1>2 DEF BeginClose, LaneRecord
  <2>2. Attended(l, t, u, q)
    BY <1>2, <2>1 DEF Attended
  <2> QED
    BY <2>1, <2>2 DEF Owing, Ordered, Seen
<1> QED
  BY <1>1, <1>2

\* A lane is aborted, and the ready queue closed: unless a call is under way
\* the lane is over.
LEMMA AbortedServed ==
  ASSUME NEW l, NEW s \in LaneRecord, NEW t, t = Abort(s), NEW u, NEW q, NEW d, NEW n,
         Attended(l, s, u, q), Ordered(l, s, u, n), l \in Dedicated => u.pc # "parked"
  PROVE  /\ t \in LaneRecord
         /\ Attended(l, t, u, ClosedQueue) /\ Owing(l, t, u, d) /\ Ordered(l, t, u, n)
         /\ Seen(l, t, u, n) \subseteq Seen(l, s, u, n)
<1>1. s.phase \in {"Idle", "Scheduled", "Running", "Finished"}
  BY LaneFields
<1>2. /\ t \in LaneRecord /\ t.abort /\ t.queue = <<>>
      /\ t.phase = (IF s.phase \in {"Idle", "Scheduled"} THEN "Finished" ELSE s.phase)
      /\ t.own = (IF s.phase \in {"Idle", "Scheduled"} THEN "submitted" ELSE s.own)
  <2>1. <<>> \in Seq(Events(OfferKinds))
    OBVIOUS
  <2> QED
    BY <2>1 DEF Abort, LaneRecord
<1>3. Attended(l, t, u, ClosedQueue)
  <2>1. CASE s.phase \in {"Idle", "Scheduled"}
    BY <1>2, <2>1 DEF Attended
  <2>2. CASE s.phase \in {"Running", "Finished"}
    BY <1>2, <2>2 DEF Attended
  <2> QED
    BY <1>1, <2>1, <2>2
<1>4. Owing(l, t, u, d)
  BY <1>2 DEF Owing
<1>5. Ordinary(t.queue) = {}
  BY <1>2 DEF Ordinary
<1>6. Ordered(l, t, u, n) /\ Seen(l, t, u, n) \subseteq Seen(l, s, u, n)
  BY <1>5 DEF Ordered, Rising, Above, Seen
<1> QED
  BY <1>2, <1>3, <1>4, <1>6

\* close begins.
LEMMA CloseBeginsKeeps ==
  ASSUME DeliveryInvariant, CloseBegins
  PROVE  DeliveryInvariant'
<1>1. /\ set' = "closed" /\ lane' = [l \in Subs |-> BeginClose(lane[l])]
      /\ worker' = WakeDedicated(Subs)
      /\ UNCHANGED <<ring, bell, ppc, published, relay, ready, unreported, owed, last>>
  BY DEF CloseBegins, busVars, histories
<1>2. /\ worker' \in [Workers -> WorkerRecord] /\ worker'[SharedWorker] = worker[SharedWorker]
      /\ \A w \in Workers : Wakes(worker[w], worker'[w]) /\ Serving(w, worker'[w])
      /\ \A l \in Subs : l \in Dedicated => worker'[l].pc # "parked"
  BY <1>1, WakeDedicatedFacts
<1>3. ASSUME NEW l \in Subs
      PROVE  /\ lane'[l] \in LaneRecord
             /\ LET u == worker'[Thread(l)]
                    t == lane'[l]
                IN /\ Attended(l, t, u, ready') /\ Owing(l, t, u, owed'[l])
                   /\ Ordered(l, t, u, last[l])
                   /\ Seen(l, t, u, last[l]) \subseteq
                         Seen(l, lane[l], worker[Thread(l)], last[l])
  <2>1. PICK s, t, d, n, v, u : /\ s = lane[l] /\ t = lane'[l] /\ d = owed[l] /\ n = last[l]
                                /\ v = worker[Thread(l)] /\ u = worker'[Thread(l)]
    OBVIOUS
  <2>2. /\ s \in LaneRecord /\ t = BeginClose(s)
        /\ Attended(l, s, v, ready) /\ Owing(l, s, v, d) /\ Ordered(l, s, v, n)
    BY <1>1, <2>1 DEF DeliveryInvariant, SetTypes, Served
  <2>3. Wakes(v, u) /\ (l \in Dedicated => u.pc # "parked")
    BY <1>2, <2>1, ThreadFacts
  <2>4. /\ Attended(l, s, u, ready) /\ Owing(l, s, u, d) /\ Ordered(l, s, u, n)
        /\ Seen(l, s, u, n) = Seen(l, s, v, n)
    BY <2>2, <2>3, WakesServed
  <2>5. /\ t \in LaneRecord /\ Attended(l, t, u, ready) /\ Owing(l, t, u, d)
        /\ Ordered(l, t, u, n) /\ Seen(l, t, u, n) = Seen(l, s, u, n)
    BY <2>2, <2>3, <2>4, ClosedServed
  <2> QED
    BY <1>1, <2>1, <2>4, <2>5
<1>4. lane' \in [Subs -> LaneRecord]
  BY <1>1, <1>3
<1>5. /\ ready' \in ReadyRecord /\ owed' \in [Subs -> Int] /\ set' \in {set, "closed"}
      /\ worker'[SharedWorker].pc = "parked" => ready'.lanes = <<>> /\ ~ready'.closed
  BY <1>1, <1>2 DEF DeliveryInvariant, SetTypes, CountTypes, Serviced, At
<1> QED
  BY <1>1, <1>2, <1>3, <1>4, <1>5, AllServed

\* Every lane is over, and the shared thread is let go.
LEMMA CloseDrainedKeeps ==
  ASSUME DeliveryInvariant, CloseDrained
  PROVE  DeliveryInvariant'
<1>1. /\ \A l \in Subs : lane[l].phase = "Finished"
      /\ ready' = ClosedQueue /\ worker' = SharedWoken(worker)
      /\ UNCHANGED <<ring, bell, ppc, published, relay, set, lane, unreported, owed, last>>
  BY DEF CloseDrained, busVars, histories
<1>2. /\ worker \in [Workers -> WorkerRecord]
      /\ \A w \in Workers : Wakes(worker[w], worker[w]) /\ Serving(w, worker[w])
  BY DEF DeliveryInvariant, SetTypes, Serviced, Wakes
<1>3. /\ worker' \in [Workers -> WorkerRecord] /\ worker'[SharedWorker].pc # "parked"
      /\ \A w \in Workers : Wakes(worker[w], worker'[w]) /\ Serving(w, worker'[w])
  BY <1>1, <1>2, SharedWokenFacts
<1>4. ASSUME NEW l \in Subs
      PROVE  LET u == worker'[Thread(l)]
                 t == lane'[l]
             IN /\ Attended(l, t, u, ready') /\ Owing(l, t, u, owed'[l])
                /\ Ordered(l, t, u, last[l])
                /\ Seen(l, t, u, last[l]) \subseteq
                      Seen(l, lane[l], worker[Thread(l)], last[l])
  <2>1. PICK s, d, n, v, u : /\ s = lane[l] /\ d = owed[l] /\ n = last[l]
                             /\ v = worker[Thread(l)] /\ u = worker'[Thread(l)]
    OBVIOUS
  <2>2. /\ s.phase = "Finished"
        /\ Attended(l, s, v, ready) /\ Owing(l, s, v, d) /\ Ordered(l, s, v, n)
    BY <1>1, <2>1 DEF DeliveryInvariant, Served
  <2>3. Wakes(v, u)
    BY <1>3, <2>1, ThreadFacts
  <2>4. /\ Attended(l, s, u, ready) /\ Owing(l, s, u, d) /\ Ordered(l, s, u, n)
        /\ Seen(l, s, u, n) = Seen(l, s, v, n)
    BY <2>2, <2>3, WakesServed
  <2>5. Attended(l, s, u, ready')
    BY <2>2, <2>4 DEF Attended
  <2> QED
    BY <1>1, <2>1, <2>4, <2>5
<1>5. /\ ready' \in ReadyRecord /\ owed' \in [Subs -> Int] /\ set' \in {set, "closed"}
      /\ lane' \in [Subs -> LaneRecord]
  <2>1. <<>> \in Seq(Subs \ Dedicated)
    OBVIOUS
  <2> QED
    BY <1>1, <2>1 DEF DeliveryInvariant, SetTypes, CountTypes, ReadyRecord, ClosedQueue
<1> QED
  BY <1>1, <1>3, <1>4, <1>5, AllServed

\* The deadline of close, or the drop of the set, aborts every lane.
LEMMA AbortAllKeeps ==
  ASSUME DeliveryInvariant, CloseDeadline \/ DropSet
  PROVE  DeliveryInvariant'
<1>1. /\ AbortAll /\ set' \in {set, "closed"}
      /\ UNCHANGED <<ring, bell, ppc, published, relay, unreported, last>>
  BY DEF CloseDeadline, DropSet, busVars
<1>2. /\ lane' = [l \in Subs |-> Abort(lane[l])] /\ owed' = [l \in Subs |-> 0]
      /\ ready' = ClosedQueue /\ worker' = SharedWoken(WakeDedicated(Subs))
  BY <1>1 DEF AbortAll
<1>3. PICK ws : ws = WakeDedicated(Subs)
  OBVIOUS
<1>4. /\ ws \in [Workers -> WorkerRecord] /\ ws[SharedWorker] = worker[SharedWorker]
      /\ \A w \in Workers : Wakes(worker[w], ws[w]) /\ Serving(w, ws[w])
      /\ \A l \in Subs : l \in Dedicated => ws[l].pc # "parked"
  BY <1>3, WakeDedicatedFacts
<1>5. /\ worker' \in [Workers -> WorkerRecord] /\ worker'[SharedWorker].pc # "parked"
      /\ \A w \in Workers : Wakes(worker[w], worker'[w]) /\ Serving(w, worker'[w])
      /\ \A l \in Dedicated : worker'[l] = ws[l]
  <2>1. worker \in [Workers -> WorkerRecord] /\ worker' = SharedWoken(ws)
    BY <1>2, <1>3 DEF DeliveryInvariant, SetTypes
  <2> QED
    BY <1>4, <2>1, SharedWokenFacts
<1>6. ASSUME NEW l \in Subs
      PROVE  /\ lane'[l] \in LaneRecord
             /\ LET u == worker'[Thread(l)]
                    t == lane'[l]
                IN /\ Attended(l, t, u, ready') /\ Owing(l, t, u, owed'[l])
                   /\ Ordered(l, t, u, last[l])
                   /\ Seen(l, t, u, last[l]) \subseteq
                         Seen(l, lane[l], worker[Thread(l)], last[l])
  <2>1. PICK s, t, d, n, v, u : /\ s = lane[l] /\ t = lane'[l] /\ d = owed'[l] /\ n = last[l]
                                /\ v = worker[Thread(l)] /\ u = worker'[Thread(l)]
    OBVIOUS
  <2>2. /\ s \in LaneRecord /\ t = Abort(s)
        /\ Attended(l, s, v, ready) /\ Owing(l, s, v, owed[l]) /\ Ordered(l, s, v, n)
    BY <1>2, <2>1 DEF DeliveryInvariant, SetTypes, Served
  <2>3. Wakes(v, u) /\ (l \in Dedicated => u.pc # "parked")
    BY <1>4, <1>5, <2>1, ThreadFacts
  <2>4. /\ Attended(l, s, u, ready) /\ Ordered(l, s, u, n)
        /\ Seen(l, s, u, n) = Seen(l, s, v, n)
    BY <2>2, <2>3, WakesServed
  <2>5. /\ t \in LaneRecord /\ Attended(l, t, u, ClosedQueue) /\ Owing(l, t, u, d)
        /\ Ordered(l, t, u, n) /\ Seen(l, t, u, n) \subseteq Seen(l, s, u, n)
    BY <2>2, <2>3, <2>4, AbortedServed
  <2> QED
    BY <1>2, <2>1, <2>4, <2>5
<1>7. lane' \in [Subs -> LaneRecord]
  BY <1>2, <1>6
<1>8. ready' \in ReadyRecord /\ owed' \in [Subs -> Int]
  <2>1. <<>> \in Seq(Subs \ Dedicated)
    OBVIOUS
  <2> QED
    BY <1>2, <2>1 DEF ReadyRecord, ClosedQueue
<1> QED
  BY <1>1, <1>5, <1>6, <1>7, <1>8, AllServed

(***************************************************************************)
(* The offer of an event to every lane.                                    *)
(***************************************************************************)

\* The subscribers are finitely many.
LEMMA SubsFinite == IsFiniteSet(Subs)
<1>1. Lanes \in Seq(Subs) /\ DOMAIN Lanes = 1..Len(Lanes) /\ Len(Lanes) \in Nat
  BY SubscriberAssumption
<1>2. IsFiniteSet(1..Len(Lanes))
  BY <1>1, FS_Interval
<1>3. Lanes \in Surjection(1..Len(Lanes), Subs)
  BY <1>1 DEF Surjection, Subs, ToSet
<1> QED
  BY <1>2, <1>3, FS_Surjection

\* The idle ones among those of the shared thread queue up each once.
LEMMA InOrderFacts ==
  ASSUME NEW S \in SUBSET (Subs \ Dedicated), NEW t \in InOrder(S)
  PROVE  t \in Seq(Subs \ Dedicated) /\ ToSet(t) = S
<1>1. IsFiniteSet(S)
  BY SubsFinite, FS_Subset
<1>2. PICK n : n = Cardinality(S)
  OBVIOUS
<1>3. n \in Nat
  BY <1>1, <1>2, FS_CardinalityType
<1>4. /\ t \in [1..n -> S]
      /\ \A j, k \in 1..n : j < k =>
            \E i, m \in DOMAIN Lanes : i < m /\ Lanes[i] = t[j] /\ Lanes[m] = t[k]
  BY <1>2 DEF InOrder
<1>5. ASSUME NEW j \in 1..n, NEW k \in 1..n, j < k PROVE t[j] # t[k]
  <2>1. PICK i \in DOMAIN Lanes, m \in DOMAIN Lanes : i < m /\ Lanes[i] = t[j] /\ Lanes[m] = t[k]
    BY <1>4, <1>5
  <2>2. i # m
    <3>1. i \in Nat /\ m \in Nat
      BY SubscriberAssumption
    <3> QED
      BY <2>1, <3>1
  <2>3. IsInjective(Lanes)
    BY SubscriberAssumption
  <2> QED
    BY <2>1, <2>2, <2>3 DEF IsInjective
<1>6. ASSUME NEW j \in 1..n, NEW k \in 1..n, t[j] = t[k] PROVE j = k
  <2>1. j < k \/ k < j \/ j = k
    BY <1>3
  <2> QED
    BY <1>5, <1>6, <2>1
<1>7. t \in Injection(1..n, S)
  BY <1>4, <1>6 DEF Injection, IsInjective
<1>8. Cardinality(1..n) = Cardinality(S)
  <2>1. Cardinality(1..n) = n
    <3>1. Cardinality(1..n) = IF 1 > n THEN 0 ELSE n - 1 + 1
      BY <1>3, FS_Interval
    <3> QED
      BY <1>3, <3>1
  <2> QED
    BY <1>2, <2>1
<1>9. t \in Surjection(1..n, S)
  BY <1>1, <1>7, <1>8, FS_Injection
<1>10. t \in Seq(Subs \ Dedicated)
  <2>1. t \in [1..n -> Subs \ Dedicated]
    BY <1>4
  <2> QED
    BY <1>3, <2>1
<1>11. DOMAIN t = 1..n
  BY <1>4
<1>12. ToSet(t) = S
  BY <1>4, <1>9, <1>11 DEF ToSet, Surjection
<1> QED
  BY <1>10, <1>12

\* A lane is offered an event newer than all it has seen.
LEMMA OfferedServed ==
  ASSUME NEW l, NEW s \in LaneRecord, NEW e \in Events(OfferKinds), NEW t, t = Enqueue(s, e),
         NEW u \in WorkerRecord, NEW q, NEW r, NEW d \in Int, NEW n \in Nat,
         Attended(l, s, u, q), Owing(l, s, u, d), Ordered(l, s, u, n),
         ~Internal(e) => \A m \in Seen(l, s, u, n) : m < e.n,
         r.closed = q.closed, ToSet(q.lanes) \subseteq ToSet(r.lanes),
         s.phase = "Idle" /\ l \notin Dedicated => l \in ToSet(r.lanes),
         s.phase = "Idle" /\ l \in Dedicated => u.pc # "parked",
         NEW c, c = IF s.phase = "Finished" \/ Internal(e) THEN d ELSE d + 1
  PROVE  /\ t \in LaneRecord /\ c \in Int
         /\ Attended(l, t, u, r) /\ Owing(l, t, u, c) /\ Ordered(l, t, u, n)
         /\ Seen(l, t, u, n) \subseteq Seen(l, s, u, n) \cup {m \in {e.n} : ~Internal(e)}
<1>1. /\ s.queue \in Seq(Events(OfferKinds)) /\ s.dropped \in Nat
      /\ s.phase \in {"Idle", "Scheduled", "Running", "Finished"}
      /\ Events(OfferKinds) \subseteq Events(AllKinds)
  BY LaneFields DEF Events, AllKinds
<1>2. Cardinality(Ordinary(s.queue)) \in Nat
  BY <1>1, OrdinaryFinite
<1>3. PICK x : x = IF Calls(l, u) THEN Settled(u.ev) ELSE 0
  OBVIOUS
<1>4. x \in Nat
  BY <1>3, WorkerFields, OrdinaryKind
<1>5. ~(s.phase # "Finished" /\ ~s.abort) \/ d = Cardinality(Ordinary(s.queue)) + s.dropped + x
  BY <1>3 DEF Owing
<1>6. c \in Int
  OBVIOUS
<1>7. CASE s.phase = "Finished"
  <2>1. /\ t \in LaneRecord /\ t.phase = s.phase /\ t.own = s.own /\ t.queue = s.queue
        /\ t.dropped = s.dropped /\ t.abort = s.abort
    BY <1>7 DEF Enqueue, LaneRecord
  <2>2. Attended(l, t, u, r)
    BY <1>7, <2>1 DEF Attended
  <2> QED
    BY <1>6, <1>7, <2>1, <2>2 DEF Owing, Ordered, Seen
<1>8. CASE s.phase # "Finished" /\ Len(s.queue) = LaneCapacity
  <2>1. PICK y : y = IF Internal(e) THEN s.dropped ELSE s.dropped + 1
    OBVIOUS
  <2>2. y \in Nat
    BY <1>1, <2>1
  <2>3. t = [s EXCEPT !.dropped = y]
    BY <1>8, <2>1 DEF Enqueue
  <2>4. /\ t \in LaneRecord /\ t.phase = s.phase /\ t.own = s.own /\ t.queue = s.queue
        /\ t.dropped = y /\ t.abort = s.abort
    BY <2>2, <2>3 DEF LaneRecord
  <2>5. s.phase # "Idle"
    <3>1. s.queue # <<>>
      <4>1. s.queue = <<>> => Len(s.queue) = 0
        OBVIOUS
      <4> QED
        BY <1>8, <4>1, LaneAssumption
    <3> QED
      BY <3>1 DEF Attended, NothingPending
  <2>6. Attended(l, t, u, r)
    BY <2>4, <2>5 DEF Attended
  <2>7. Owing(l, t, u, c)
    <3> SUFFICES ASSUME ~s.abort
                 PROVE  c = Cardinality(Ordinary(s.queue)) + y + x
      BY <1>3, <2>4 DEF Owing
    <3>1. d = Cardinality(Ordinary(s.queue)) + s.dropped + x
      BY <1>5, <1>8
    <3> QED
      BY <1>1, <1>2, <1>4, <1>8, <2>1, <3>1
  <2> QED
    BY <1>6, <2>4, <2>6, <2>7 DEF Ordered, Seen
<1>9. CASE s.phase # "Finished" /\ Len(s.queue) # LaneCapacity
  <2>1. PICK p, z : /\ p = Append(s.queue, e)
                    /\ z = IF s.phase = "Idle" THEN "Scheduled" ELSE s.phase
    OBVIOUS
  <2>2. t = [s EXCEPT !.queue = p, !.phase = z]
    BY <1>9, <2>1 DEF Enqueue
  <2>3. /\ p \in Seq(Events(OfferKinds))
        /\ Cardinality(Ordinary(p)) =
              Cardinality(Ordinary(s.queue)) + (IF Internal(e) THEN 0 ELSE 1)
        /\ \A k \in Ordinary(s.queue) : p[k] = s.queue[k]
        /\ p[Len(s.queue) + 1] = e
        /\ \A k \in Ordinary(p) : k \in Ordinary(s.queue) \/ (k = Len(s.queue) + 1 /\ ~Internal(e))
    <3>1. PICK S, o : S = Events(OfferKinds) /\ o = s.queue
      OBVIOUS
    <3>2. o \in Seq(S) /\ e \in S /\ p = Append(o, e)
      BY <1>1, <2>1, <3>1
    <3>3. Append(o, e) \in Seq(S)
      BY <3>2
    <3>4. Cardinality(Ordinary(Append(o, e))) =
             Cardinality(Ordinary(o)) + (IF Internal(e) THEN 0 ELSE 1)
      BY <3>2, OrdinaryAppend
    <3>5. ASSUME NEW k \in Ordinary(o) PROVE Append(o, e)[k] = o[k]
      <4>1. k \in 1..Len(o)
        BY <3>2, OrdinaryFinite
      <4> QED
        BY <3>2, <4>1
    <3>6. Append(o, e)[Len(o) + 1] = e
      BY <3>2
    <3>7. \A k \in Ordinary(Append(o, e)) :
             k \in Ordinary(o) \/ (k = Len(o) + 1 /\ ~Internal(e))
      BY <3>2, OrdinaryAppend
    <3> QED
      BY <3>1, <3>2, <3>3, <3>4, <3>5, <3>6, <3>7
  <2>4. /\ t \in LaneRecord /\ t.phase = z /\ t.own = s.own /\ t.queue = p
        /\ t.dropped = s.dropped /\ t.abort = s.abort
    <3>1. z \in {"Idle", "Scheduled", "Running", "Finished"}
      BY <1>1, <2>1
    <3> QED
      BY <2>2, <2>3, <3>1 DEF LaneRecord
  <2>5. Attended(l, t, u, r)
    <3>1. CASE s.phase = "Idle"
      <4>1. z = "Scheduled"
        BY <2>1, <3>1
      <4> QED
        BY <2>4, <3>1, <4>1 DEF Attended
    <3>2. CASE s.phase # "Idle"
      <4>1. z = s.phase
        BY <2>1, <3>2
      <4> QED
        BY <2>4, <3>2, <4>1 DEF Attended
    <3> QED
      BY <3>1, <3>2
  <2>6. Owing(l, t, u, c)
    <3> SUFFICES ASSUME ~s.abort
                 PROVE  c = Cardinality(Ordinary(p)) + s.dropped + x
      BY <1>3, <2>4 DEF Owing
    <3>1. d = Cardinality(Ordinary(s.queue)) + s.dropped + x
      BY <1>5, <1>9
    <3> QED
      BY <1>1, <1>2, <1>4, <1>9, <2>3, <3>1
  <2>7. /\ \A k \in Ordinary(s.queue) : ~Internal(e) => s.queue[k].n < e.n
        /\ ~Internal(e) => n < e.n
        /\ Calls(l, u) /\ ~Internal(u.ev) /\ ~Internal(e) => u.ev.n < e.n
    BY SeenNumbers
  <2>8. Rising(p) /\ \A m : Above(p, m) <=> Above(s.queue, m) /\ (~Internal(e) => m < e.n)
    <3>1. Rising(s.queue)
      BY DEF Ordered
    <3> QED
      BY <1>1, <2>1, <2>7, <3>1, RisingAppend
  <2>9. Ordered(l, t, u, n)
    BY <2>4, <2>7, <2>8 DEF Ordered
  <2>10. ASSUME NEW m \in Seen(l, t, u, n)
         PROVE  m \in Seen(l, s, u, n) \cup {i \in {e.n} : ~Internal(e)}
    <3>1. CASE m = n \/ (m = u.ev.n /\ Calls(l, u) /\ ~Internal(u.ev))
      BY <3>1 DEF Seen
    <3>2. ASSUME NEW k \in Ordinary(p), m = p[k].n
          PROVE  m \in Seen(l, s, u, n) \cup {i \in {e.n} : ~Internal(e)}
      <4>1. CASE k \in Ordinary(s.queue)
        <5>1. m = s.queue[k].n
          BY <2>3, <3>2, <4>1
        <5> QED
          BY <4>1, <5>1 DEF Seen
      <4>2. CASE k = Len(s.queue) + 1 /\ ~Internal(e)
        <5>1. p[k] = e
          BY <2>3, <4>2
        <5> QED
          BY <3>2, <4>2, <5>1
      <4> QED
        BY <2>3, <4>1, <4>2
    <3> QED
      BY <2>4, <2>10, <3>1, <3>2 DEF Seen
  <2> QED
    BY <1>6, <2>4, <2>5, <2>6, <2>9, <2>10
<1> QED
  BY <1>7, <1>8, <1>9

\* The relay offers an event to every lane and wakes their threads.
LEMMA RelayEmitKeeps ==
  ASSUME DeliveryInvariant, RelayEmit
  PROVE  DeliveryInvariant'
<1>1. PICK e : e = relay.out[1]
  OBVIOUS
<1>2. PICK idle : idle = {l \in Subs : lane[l].phase = "Idle"}
  OBVIOUS
<1>3. /\ Bus /\ Rung /\ relay.pc = "emit" /\ relay \in RelayRecord /\ relay.out # <<>>
      /\ unreported \in Int /\ ring \in RingRecord /\ set # "pending"
  BY DEF DeliveryInvariant, Bus, Forwarding, Lost, Unstarted, RelayEmit
<1>4. Head(relay.out) = e /\ e \in Events(OfferKinds) /\ e.n \in Nat
  <2>1. relay.out \in Seq(Events(OfferKinds))
    BY <1>3, RelayFields
  <2>2. Head(relay.out) = e /\ e \in Events(OfferKinds)
    BY <1>1, <1>3, <2>1
  <2> QED
    BY <2>2 DEF Events
<1>5. PICK c : c = Cardinality({l \in Subs : ReportsClosed(lane[l], e)})
  OBVIOUS
<1>6. /\ lane' = [l \in Subs |-> Enqueue(lane[l], e)] /\ relay' = AfterEmit(c)
      /\ owed' = [l \in Subs |-> IF lane[l].phase = "Finished" \/ Internal(e)
                                 THEN owed[l] ELSE owed[l] + 1]
      /\ unreported' = IF e.kind = "lagged" THEN unreported - e.n ELSE unreported
      /\ UNCHANGED <<ring, bell, ppc, published, set, last>>
  BY <1>4, <1>5 DEF RelayEmit, busVars
<1>7. PICK turns \in InOrder(idle \ Dedicated) :
         /\ ready' = Schedule(ready, turns)
         /\ worker' = IF turns = <<>> THEN WakeDedicated(idle) ELSE SharedWoken(WakeDedicated(idle))
  BY <1>2 DEF RelayEmit
<1>8. /\ turns \in Seq(Subs \ Dedicated) /\ ToSet(turns) = idle \ Dedicated
  <2>1. idle \ Dedicated \in SUBSET (Subs \ Dedicated)
    BY <1>2
  <2> QED
    BY <2>1, InOrderFacts
<1>9. /\ ready' \in ReadyRecord /\ ready'.closed = ready.closed
      /\ ToSet(ready.lanes) \subseteq ToSet(ready'.lanes)
      /\ ~ready.closed => idle \ Dedicated \subseteq ToSet(ready'.lanes)
      /\ turns = <<>> => ready'.lanes = ready.lanes
  <2>1. ready \in ReadyRecord
    BY DEF DeliveryInvariant, SetTypes
  <2> QED
    BY <1>7, <1>8, <2>1, TurnFacts
<1>10. PICK ws : ws = WakeDedicated(idle)
  OBVIOUS
<1>11. /\ ws \in [Workers -> WorkerRecord] /\ ws[SharedWorker] = worker[SharedWorker]
       /\ \A w \in Workers : Wakes(worker[w], ws[w]) /\ Serving(w, ws[w])
       /\ \A l \in idle : l \in Dedicated => ws[l].pc # "parked"
  <2>1. idle \in SUBSET Subs
    BY <1>2
  <2> QED
    BY <1>10, <2>1, WakeDedicatedFacts
<1>12. /\ worker' \in [Workers -> WorkerRecord]
       /\ \A w \in Workers : Wakes(worker[w], worker'[w]) /\ Serving(w, worker'[w])
       /\ \A l \in Dedicated : worker'[l] = ws[l]
       /\ turns = <<>> => worker'[SharedWorker] = worker[SharedWorker]
       /\ turns # <<>> => worker'[SharedWorker].pc # "parked"
  <2>1. CASE turns = <<>>
    BY <1>7, <1>10, <1>11, <2>1
  <2>2. CASE turns # <<>>
    <3>1. worker \in [Workers -> WorkerRecord] /\ worker' = SharedWoken(ws)
      BY <1>7, <1>10, <2>2 DEF DeliveryInvariant, SetTypes
    <3> QED
      BY <1>11, <2>2, <3>1, SharedWokenFacts
  <2> QED
    BY <2>1, <2>2
<1>13. c \in Int /\ (c > 0 => ~Internal(relay.out[1]))
  <2>1. PICK C : C = {l \in Subs : ReportsClosed(lane[l], e)}
    OBVIOUS
  <2>2. IsFiniteSet(C)
    BY <2>1, SubsFinite, FS_Subset
  <2>3. Internal(e) => C = {}
    BY <2>1 DEF ReportsClosed
  <2>4. c \in Nat /\ (C = {} => c = 0)
    BY <1>5, <2>1, <2>2, FS_CardinalityType, FS_EmptySet
  <2> QED
    BY <1>1, <2>3, <2>4
<1>14. /\ unreported' \in Int
       /\ unreported' = unreported + (ring'.dropped - ring.dropped) -
             (IF relay.out[1].kind = "lagged" THEN relay.out[1].n ELSE 0)
  <2>1. PICK d : d = ring'.dropped - ring.dropped
    OBVIOUS
  <2>2. d = 0
    BY <1>3, <1>6, <2>1, RingFields
  <2>3. PICK x : x = IF relay.out[1].kind = "lagged" THEN relay.out[1].n ELSE 0
    OBVIOUS
  <2>4. x \in Nat /\ unreported' = unreported - x
    BY <1>1, <1>3, <1>4, <1>6, <2>3
  <2>5. unreported' \in Int /\ unreported' = unreported + (d - x)
    BY <1>3, <2>2, <2>4
  <2> QED
    BY <2>1, <2>3, <2>5
<1>15. Retains
  <2>1. Rising(ring.events) /\ \A k \in Ordinary(ring.events) : ring.events[k].n <= published
    BY <1>3 DEF Bus, Numbered
  <2> QED
    BY <1>3, <1>6, <2>1 DEF Retains
<1>16. /\ Bus' /\ ComesAfter /\ relay'.pc \notin {"try", "asleep", "off"}
       /\ \A m \in Nat : ~Internal(e) /\ m = e.n => Coming(m)'
  BY <1>1, <1>3, <1>6, <1>13, <1>14, <1>15, RelayGoesOn
<1>17. Rung'
  BY <1>3, <1>6, <1>16, RungAwake DEF Rung
<1>18. ASSUME NEW l \in Subs
       PROVE  lane'[l] \in LaneRecord /\ owed'[l] \in Int /\ Served(l)'
  <2>1. PICK s, t, d, n, v, u : /\ s = lane[l] /\ t = lane'[l] /\ d = owed[l] /\ n = last[l]
                                /\ v = worker[Thread(l)] /\ u = worker'[Thread(l)]
    OBVIOUS
  <2>2. PICK b : b = owed'[l]
    OBVIOUS
  <2>3. /\ s \in LaneRecord /\ t = Enqueue(s, e) /\ d \in Int /\ n \in Nat
        /\ v \in WorkerRecord /\ u \in WorkerRecord
        /\ Attended(l, s, v, ready) /\ Owing(l, s, v, d) /\ Ordered(l, s, v, n)
        /\ \A m \in Seen(l, s, v, n) : Coming(m)
        /\ b = IF s.phase = "Finished" \/ Internal(e) THEN d ELSE d + 1
    BY <1>6, <1>12, <2>1, <2>2, ThreadFacts DEF DeliveryInvariant, SetTypes, CountTypes, Served
  <2>4. Wakes(v, u)
    BY <1>12, <2>1, ThreadFacts
  <2>5. /\ Attended(l, s, u, ready) /\ Owing(l, s, u, d) /\ Ordered(l, s, u, n)
        /\ Seen(l, s, u, n) = Seen(l, s, v, n)
    BY <2>3, <2>4, WakesServed
  <2>6. /\ s.phase = "Idle" /\ l \notin Dedicated => l \in ToSet(ready'.lanes)
        /\ s.phase = "Idle" /\ l \in Dedicated => u.pc # "parked"
    <3>1. s.phase = "Idle" => l \in idle /\ ~ready.closed
      BY <1>2, <2>1, <2>3 DEF Attended
    <3> QED
      BY <1>9, <1>11, <1>12, <2>1, <3>1, ThreadFacts
  <2>7. ~Internal(e) => \A m \in Seen(l, s, u, n) : m < e.n
    BY <1>1, <1>3, <2>3, <2>5 DEF Coming
  <2>8. /\ t \in LaneRecord /\ b \in Int
        /\ Attended(l, t, u, ready') /\ Owing(l, t, u, b) /\ Ordered(l, t, u, n)
        /\ Seen(l, t, u, n) \subseteq Seen(l, s, u, n) \cup {m \in {e.n} : ~Internal(e)}
    <3>1. PICK q, r : q = ready /\ r = ready'
      OBVIOUS
    <3>2. r.closed = q.closed /\ ToSet(q.lanes) \subseteq ToSet(r.lanes) /\ Attended(l, s, u, q)
      BY <1>9, <2>5, <3>1
    <3>3. /\ s.phase = "Idle" /\ l \notin Dedicated => l \in ToSet(r.lanes)
          /\ s.phase = "Idle" /\ l \in Dedicated => u.pc # "parked"
      BY <2>6, <3>1
    <3>4. /\ s \in LaneRecord /\ t = Enqueue(s, e) /\ d \in Int /\ n \in Nat /\ u \in WorkerRecord
          /\ Owing(l, s, u, d) /\ Ordered(l, s, u, n) /\ e \in Events(OfferKinds)
          /\ b = IF s.phase = "Finished" \/ Internal(e) THEN d ELSE d + 1
      BY <1>4, <2>3, <2>5
    <3>5. /\ t \in LaneRecord /\ b \in Int
          /\ Attended(l, t, u, r) /\ Owing(l, t, u, b) /\ Ordered(l, t, u, n)
          /\ Seen(l, t, u, n) \subseteq Seen(l, s, u, n) \cup {m \in {e.n} : ~Internal(e)}
      BY <2>7, <3>2, <3>3, <3>4, OfferedServed
    <3> QED
      BY <3>1, <3>5
  <2>9. Seen(l, s, u, n) \subseteq Nat
    BY <2>3, SeenNumbers
  <2>10. \A m \in Seen(l, t, u, n) : Coming(m)'
    BY <1>4, <1>16, <2>3, <2>5, <2>8, <2>9 DEF ComesAfter
  <2> QED
    BY <1>6, <2>1, <2>2, <2>8, <2>10 DEF Served
<1>19. SetTypes' /\ CountTypes'
  <2>1. lane' \in [Subs -> LaneRecord] /\ owed' \in [Subs -> Int]
    BY <1>6, <1>18
  <2> QED
    BY <1>6, <1>9, <1>12, <2>1 DEF DeliveryInvariant, SetTypes, CountTypes
<1>20. Serviced'
  <2>1. worker'[SharedWorker].pc = "parked" => ready'.lanes = <<>> /\ ~ready'.closed
    BY <1>9, <1>12 DEF DeliveryInvariant, Serviced, At
  <2> QED
    BY <1>12, <2>1 DEF Serviced, At
<1>21. Unstarted'
  BY <1>3, <1>6 DEF Unstarted
<1> QED
  BY <1>16, <1>17, <1>18, <1>19, <1>20, <1>21 DEF DeliveryInvariant

(***************************************************************************)
(* The theorems.                                                           *)
(***************************************************************************)

\* Before the start nothing is published, queued, owed or under way.
LEMMA DeliveryInitInvariant ==
  ASSUME DeliveryInit
  PROVE  DeliveryInvariant
<1>1. NoEvent \in Events(AllKinds)
  BY DEF NoEvent, Task, Events, AllKinds, OfferKinds, RingKinds
<1>2. Idle \in WorkerRecord /\ Idle.pc = "off" /\ Idle.lane = SharedWorker
  BY <1>1 DEF Idle, WorkerRecord, WorkerPcs, Calling
<1>3. /\ NewLane \in LaneRecord /\ NewLane.queue = <<>> /\ NewLane.dropped = 0
      /\ NewLane.phase = "Idle" /\ NewLane.own = "lane" /\ NewLane.abort = FALSE
  BY DEF NewLane, LaneRecord
<1>4. Ordinary(<<>>) = {} /\ Cardinality(Ordinary(<<>>)) = 0
  <2>1. PICK q : q = <<>>
    OBVIOUS
  <2>2. q \in Seq(Nat)
    BY <2>1
  <2> QED
    BY <2>1, <2>2, OrdinaryFinite
<1>5. SetTypes /\ CountTypes
  BY <1>2, <1>3 DEF DeliveryInit, SetTypes, CountTypes, ReadyRecord
<1>6. /\ ring.events = <<>> /\ ring.dropped = 0 /\ ring.closed = FALSE /\ ring \in RingRecord
  BY DEF DeliveryInit, EmptyRing, RingRecord
<1>7. /\ relay \in RelayRecord /\ relay.pc = "off" /\ relay.out = <<>> /\ relay.lost = 0
      /\ published = 0 /\ unreported = 0
  BY DEF DeliveryInit, RelayRecord, RelayPcs
<1>8. Bus
  <2>1. Len(<<>>) <= 2 /\ DOMAIN <<>> = {}
    OBVIOUS
  <2>2. Forwarding
    BY <1>6, <1>7, <2>1 DEF Forwarding
  <2>3. Lost
    BY <1>6, <1>7, <2>1 DEF Lost, Reporting
  <2>4. Numbered
    BY <1>4, <1>6, <1>7 DEF Numbered, Rising
  <2> QED
    BY <2>2, <2>3, <2>4 DEF Bus
<1>9. Rung
  BY <1>7 DEF DeliveryInit, Rung, SilentBell
<1>10. \A w \in Workers : worker[w] = Idle
  BY DEF DeliveryInit
<1>11. Unstarted /\ Serviced
  <2>1. \A w \in Workers : Serving(w, worker[w]) /\ At(w, "off")
    BY <1>2, <1>10 DEF Serving, Calling, At
  <2> QED
    BY <1>7, <2>1, ThreadFacts DEF Unstarted, Serviced, At
<1>12. ASSUME NEW l \in Subs PROVE Served(l)
  <2>1. PICK s, v : s = lane[l] /\ v = worker[Thread(l)]
    OBVIOUS
  <2>2. /\ s.queue = <<>> /\ s.dropped = 0 /\ s.phase = "Idle" /\ s.own = "lane" /\ s.abort = FALSE
        /\ v.pc = "off" /\ owed[l] = 0 /\ last[l] = 0 /\ ready.closed = FALSE
    BY <1>2, <1>3, <1>10, <2>1, ThreadFacts DEF DeliveryInit
  <2>3. Attended(l, s, v, ready)
    BY <2>2 DEF Attended, NothingPending, Calling
  <2>4. ~Calls(l, v)
    BY <2>2 DEF Calls
  <2>5. Owing(l, s, v, owed[l])
    BY <1>4, <2>2, <2>4 DEF Owing
  <2>6. Ordered(l, s, v, last[l])
    BY <1>4, <2>2, <2>4 DEF Ordered, Rising, Above
  <2>7. Seen(l, s, v, last[l]) = {0}
    BY <1>4, <2>2, <2>4 DEF Seen
  <2>8. Coming(0)
    BY <1>4, <1>6, <1>7 DEF Coming, Above
  <2> QED
    BY <2>1, <2>3, <2>5, <2>6, <2>7, <2>8 DEF Served
<1> QED
  BY <1>5, <1>8, <1>9, <1>11, <1>12 DEF DeliveryInvariant

\* Every step of the publishers, the relay, the threads and the closer keeps
\* the invariant.
LEMMA DeliveryNextInvariant ==
  ASSUME DeliveryInvariant, [DeliveryNext]_eventVars
  PROVE  DeliveryInvariant'
<1>1. CASE StartSet
  BY <1>1, StartSetKeeps
<1>2. CASE CancelRuntime \/ UNCHANGED eventVars
  BY <1>2, CancelKeeps
<1>3. CASE Relay
  <2>1. CASE RelayTop \/ RelayWake \/ (RelayTry /\ ring.events = <<>>)
    BY <2>1, RelayTurnKeeps
  <2>2. CASE DrainTake \/ (RelayTry /\ ring.events # <<>>)
    BY <2>2, RelayTakeKeeps
  <2>3. CASE DrainClose
    BY <2>3, DrainCloseKeeps
  <2>4. CASE RelayEmit
    BY <2>4, RelayEmitKeeps
  <2>5. CASE RelayReport
    BY <2>5, RelayReportKeeps
  <2> QED
    BY <1>3, <2>1, <2>2, <2>3, <2>4, <2>5 DEF Relay
<1>4. CASE CloseBegins
  BY <1>4, CloseBeginsKeeps
<1>5. CASE CloseDeadline \/ DropSet
  BY <1>5, AbortAllKeeps
<1>6. CASE CloseDrained
  BY <1>6, CloseDrainedKeeps
<1>7. ASSUME NEW p \in Publishers, Publish(p) \/ Notify(p)
      PROVE  DeliveryInvariant'
  BY <1>7, PublishKeeps, NotifyKeeps
<1>8. ASSUME NEW w \in Workers, WorkerStep(w)
      PROVE  DeliveryInvariant'
  <2>1. CASE Begin(w)
    BY <2>1, BeginKeeps
  <2>2. CASE Pick(w)
    BY <2>2, PickKeeps
  <2>3. CASE StopCalling(w)
    BY <2>3, StopCallingKeeps
  <2>4. CASE WorkerNotifies(w)
    BY <2>4, WorkerNotifiesKeeps
  <2>5. CASE Finish(w)
    BY <2>5, FinishKeeps
  <2>6. CASE SharedNext
    BY <2>6, SharedNextKeeps
  <2>7. CASE Reschedule
    BY <2>7, RescheduleKeeps
  <2> QED
    BY <1>8, <2>1, <2>2, <2>3, <2>4, <2>5, <2>6, <2>7 DEF WorkerStep
<1>9. ASSUME NEW w \in Workers, CallEnds(w)
      PROVE  DeliveryInvariant'
  BY <1>9, CallReturnsKeeps, CallPanicsKeeps DEF CallEnds
<1> QED
  BY <1>1, <1>2, <1>3, <1>4, <1>5, <1>6, <1>7, <1>8, <1>9 DEF DeliveryNext, Closer

\* The invariant holds in every reachable state.
THEOREM DeliveryCorrect == DeliverySpec => []DeliveryInvariant
<1>1. DeliveryInit => DeliveryInvariant
  BY DeliveryInitInvariant
<1>2. DeliveryInvariant /\ [DeliveryNext]_eventVars => DeliveryInvariant'
  BY DeliveryNextInvariant
<1> QED
  BY <1>1, <1>2, PTL DEF DeliverySpec

\* Nobody but its own thread has a lane in hand.
LEMMA CallersAre ==
  ASSUME DeliveryInvariant, NEW l \in Subs
  PROVE  Callers(l) = IF lane[l].phase = "Running" THEN {Thread(l)} ELSE {}
<1>1. \A w \in Workers : Serving(w, worker[w])
  BY DEF DeliveryInvariant, Serviced
<1>2. ASSUME NEW w \in Workers, worker[w].lane = l, worker[w].pc \in Calling
      PROVE  w = Thread(l)
  <2>1. CASE w \in Dedicated
    <3>1. worker[w].lane = w
      BY <1>1, <1>2, <2>1 DEF Serving, Calling
    <3> QED
      BY <1>2, <2>1, <3>1, ThreadFacts
  <2>2. CASE w = SharedWorker
    <3>1. worker[w].lane \in Subs \ Dedicated
      BY <1>1, <1>2, <2>2 DEF Serving
    <3> QED
      BY <1>2, <2>2, <3>1, ThreadFacts
  <2> QED
    BY <2>1, <2>2, ThreadFacts
<1>3. lane[l].phase = "Running" <=> worker[Thread(l)].lane = l /\ worker[Thread(l)].pc \in Calling
  BY DEF DeliveryInvariant, Served, Attended
<1>4. Callers(l) = {w \in Workers : worker[w].lane = l /\ worker[w].pc \in Calling}
  BY DEF Callers, Calling
<1>5. Thread(l) \in Workers
  BY ThreadFacts
<1> QED
  BY <1>2, <1>3, <1>4, <1>5

\* Callbacks of one subscriber never overlap and its events arrive in order,
\* whatever threads, publishers and closers do.
THEOREM DeliverySerial == DeliverySpec => []SerialInOrder
<1>1. ASSUME DeliveryInvariant PROVE SerialInOrder
  <2>1. ASSUME NEW l \in Subs
        PROVE  Cardinality(Callers(l)) = (IF lane[l].phase = "Running" THEN 1 ELSE 0)
    BY <1>1, <2>1, CallersAre, FS_Singleton, FS_EmptySet
  <2>2. ASSUME NEW l \in Subs
        PROVE  /\ Attended(l, lane[l], worker[Thread(l)], ready)
               /\ Ordered(l, lane[l], worker[Thread(l)], last[l])
    BY <1>1 DEF DeliveryInvariant, Served
  <2>3. ASSUME NEW l \in Subs
        PROVE  CASE lane[l].phase = "Running"  -> lane[l].own \in {"worker", "poisoned"}
                 [] lane[l].phase = "Finished" -> lane[l].own # "lane"
                 [] OTHER                      -> lane[l].own = "lane"
    BY <2>2 DEF Attended
  <2>4. ASSUME NEW l \in Subs
        PROVE  InCall(l) <=> Calls(l, worker[Thread(l)])
    BY DEF InCall, Calls, At
  <2> QED
    BY <2>1, <2>2, <2>3, <2>4 DEF SerialInOrder, Ordered, Rising, Above, InHand
<1> QED
  BY <1>1, DeliveryCorrect, PTL

\* No wakeup is lost: neither the relay nor a callback thread sleeps beside
\* work that nobody else will point it to.
THEOREM DeliveryAttended == DeliverySpec => []LanesAttended
<1>1. ASSUME DeliveryInvariant PROVE LanesAttended
  <2>1. /\ relay.pc = "asleep" /\ ring.events # <<>> =>
              \/ bell.waiter \in {"woken", "ready"}
              \/ \E p \in Publishers : ppc[p] = "notify"
              \/ \E w \in Workers : At(w, "notify")
        /\ At(SharedWorker, "parked") => ready.lanes = <<>> /\ ~ready.closed
    BY <1>1 DEF DeliveryInvariant, Rung, Ringing, Serviced
  <2>2. ASSUME NEW l \in Subs
        PROVE  /\ lane[l].phase = "Idle" => NothingPending(lane[l])
               /\ lane[l].phase = "Scheduled" /\ l \notin Dedicated =>
                     \/ l \in ToSet(ready.lanes)
                     \/ worker[SharedWorker].lane = l /\ worker[SharedWorker].pc \in {"begin", "resched"}
               /\ l \in Dedicated /\ At(l, "parked") => lane[l].phase = "Idle"
    <3>1. Attended(l, lane[l], worker[Thread(l)], ready)
      BY <1>1 DEF DeliveryInvariant, Served
    <3> QED
      BY <3>1, ThreadFacts DEF Attended, At
  <2> QED
    BY <2>1, <2>2 DEF LanesAttended
<1> QED
  BY <1>1, DeliveryCorrect, PTL

\* No event is lost uncounted, by the ring or by a lane, for all capacities.
THEOREM DeliveryAccounted == DeliverySpec => []LossAccounted
<1>1. ASSUME DeliveryInvariant PROVE LossAccounted
  <2>1. Forwarding /\ Lost
    BY <1>1 DEF DeliveryInvariant, Bus
  <2>2. unreported = ring.dropped + relay.lost +
           (IF \E k \in DOMAIN relay.out : relay.out[k].kind = "lagged"
            THEN relay.out[Len(relay.out)].n ELSE 0)
    BY <2>1 DEF Lost, Reporting
  <2>3. ASSUME relay.pc = "done" PROVE unreported = 0 /\ ring.closed
    <3>1. ring.closed /\ ring.dropped = 0 /\ relay.lost = 0 /\ relay.out = <<>>
      BY <2>1, <2>3 DEF Forwarding
    <3>2. Reporting(relay.out) = 0
      BY <3>1 DEF Reporting
    <3> QED
      BY <2>1, <3>1, <3>2 DEF Lost
  <2>4. ASSUME NEW l \in Subs, lane[l].phase # "Finished" /\ ~lane[l].abort
        PROVE  owed[l] = Cardinality(Ordinary(lane[l].queue)) + lane[l].dropped +
                         (IF InCall(l) THEN Settled(InHand(l)) ELSE 0)
    <3>1. Owing(l, lane[l], worker[Thread(l)], owed[l])
      BY <1>1 DEF DeliveryInvariant, Served
    <3> QED
      BY <2>4, <3>1 DEF Owing, Calls, InCall, InHand, At
  <2> QED
    BY <2>2, <2>3, <2>4 DEF LossAccounted
<1> QED
  BY <1>1, DeliveryCorrect, PTL
=============================================================================
