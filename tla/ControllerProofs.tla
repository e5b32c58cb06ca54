-------------------------- MODULE ControllerProofs --------------------------
(***************************************************************************)
(* Proofs about the slot controller: for every number of submissions,      *)
(* slots and callers and for all limits, nothing is lost, a slot serves    *)
(* one task at a time, budgets hold, no slot waits for nothing, and what   *)
(* watchers and callers are told is so and final.                          *)
(***************************************************************************)
EXTENDS Controller, QueueLemmas

(***************************************************************************)
(* The inductive invariant.  Its parts are operators on the pieces of the  *)
(* state a handler passes on, so that they can be said of a handler's      *)
(* intermediate state as well.                                             *)
(***************************************************************************)

Fates == {"new", "command", "controller", "registry"} \cup Kinds

\* A task the registry still has, or that it forgot and that still runs.
Active == {"queued", "live", "removing", "released"}

\* One the registry was told to remove, or more.
Leaving == {"removing", "released", "gone"}

Inputs == slotOf \in [Ids -> Slots] /\ policy \in [Ids -> Policies]

\* begin_shutdown closes the gate before it cancels the token, and only the
\* token ends the loop, which then tracks nothing.
Course ==
    /\ loop \in {"running", "draining", "done"}
    /\ gate \in {"open", "closed"} /\ token \in BOOLEAN
    /\ token => gate = "closed"
    /\ loop # "running" =>
         token /\ pump = <<>> /\ admissions = {} /\ completions = {} /\ removals = {}

\* The commands that f and k say are on their way.
Sent(f, k) ==
    {x \in Commands : \/ x.op = "submit" /\ f[x.id] = "command"
                      \/ x.op = "manage" /\ k[x.by] = "sent"}

\* The channel holds these, once each, and an operation on a submission
\* after the submission.
Commanded(q, f, k) ==
    /\ Lists(Commands, q, Sent(f, k)) /\ Len(q) <= CommandCap
    /\ \A m, n \in DOMAIN q :
         q[m].op = "manage" /\ q[n] = [op |-> "submit", id |-> target[q[m].by]] => n < m

\* The watchers that the controller holds are those of the submissions in
\* its two indexes, of which there are no more than the budget; only the
\* submissions of I are in a handler's hands.
Watched(f, x, cap, I) ==
    /\ f \in [Ids -> Fates]
    /\ x \subseteq Ids /\ cap \subseteq Ids
    /\ x \cap cap = {} /\ I \cap (x \cup cap) = {}
    /\ \A i \in Ids \ I : f[i] = "controller" <=> i \in x \cup cap
    /\ Cardinality(x) + Cardinality(cap) <= MaxPending

\* The reservations of the pump are those of the capacity waiters.
Reserved(p, cap) == Lists(Ids, p, cap) /\ Len(p) <= AdmissionCap

\* The registry knows what was handed over to it and nothing else.
Known(f, r, adm, comp, I) ==
    /\ r \in [Ids -> RegStates]
    /\ adm \subseteq Ids /\ comp \subseteq Ids
    /\ \A i \in Ids \ I : f[i] = "registry" <=> r[i] # "none"
    /\ \A i \in I : r[i] = "none"
    /\ \A i \in adm \cup comp : r[i] # "none"

\* A result is awaited for every task that is active.
Awaited(r, adm, comp) == \A i \in Ids : r[i] \in Active => i \in adm \cup comp

\* Slot s, whose state is e, waits for its owner and for nobody else.
Serves(s, e, cap, adm, comp) ==
    /\ e.phase \in {"absent", "idle"} => e.owner = NoId
    /\ e.phase \in {"admitting", "cancelPending"} =>
         e.owner \in cap \cup adm /\ e.owner \notin comp /\ slotOf[e.owner] = s
    /\ e.phase \in {"running", "terminating"} =>
         e.owner \in comp /\ e.owner \notin cap \cup adm /\ slotOf[e.owner] = s
    /\ \A i \in cap \cup adm \cup comp : slotOf[i] = s => e.owner = i

Queued(s, x) == {i \in x : slotOf[i] = s}

\* The queue q of slot s, which is in phase ph.
Lined(s, ph, q, x) ==
    /\ Lists(Ids, q, Queued(s, x))
    /\ Len(q) <= MaxSlotQueue \/ Len(q) = 1
    /\ gate = "open" => ph # "idle" /\ (q # <<>> => ph # "absent")
    /\ \A m \in DOMAIN q : policy[q[m]] = "Replace" =>
         m = 1 /\ (ph \in {"cancelPending", "terminating"} \/ gate = "closed")

SlotRecord == [phase : Phases, owner : Ids \cup {NoId}]

Lines ==
    /\ slots \in [Slots -> SlotRecord] /\ queue \in [Slots -> Seq(Ids)]
    /\ \A s \in Slots : Lined(s, slots[s].phase, queue[s], indexed)
    /\ Cardinality(Present) <= MaxSlots

\* What only the running loop keeps up.
Running ==
    loop = "running" =>
        /\ Reserved(pump, capacity)
        /\ Awaited(reg, admissions, completions)
        /\ \A s \in Slots : Serves(s, slots[s], capacity, admissions, completions)

\* Callers: an operation is about a submission that was made, and once it is
\* with the registry about one that the controller has let go.
Called(k, f) ==
    /\ k \in [Callers -> CallStates] /\ target \in [Callers -> Ids \cup {NoId}]
    /\ \A c \in Callers : k[c] # "idle" => target[c] \in Ids /\ f[target[c]] # "new"
    /\ \A c \in Callers : k[c] = "tracked" => f[target[c]] \in Kinds \cup {"registry"}

\* What callers were told, a cancel that claimed its task included.
Won(c, k) == k[c] \in {"true", "claimed"}

Told(k, f, r) ==
    /\ \A c \in Callers : Won(c, k) =>
         f[target[c]] = "RemovedFromQueue" \/ r[target[c]] \in Leaving
    /\ \A c, d \in Callers : Won(c, k) /\ Won(d, k) /\ target[c] = target[d] => c = d
    /\ \A c \in Callers : k[c] = "false" =>
         f[target[c]] \in Kinds \/ r[target[c]] \in Leaving \cup {"rejected"}

\* The inductive invariant of the controller.
ControllerInvariant ==
    /\ Inputs /\ Course
    /\ Commanded(cmds, fate, caller)
    /\ Watched(fate, indexed, capacity, {})
    /\ Known(fate, reg, admissions, completions, {}) /\ removals \subseteq Ids
    /\ Lines /\ Running
    /\ Called(caller, fate) /\ Told(caller, fate, reg)
    /\ Cardinality(Tracked) <= IdentityCap
    /\ SlotExclusive

(***************************************************************************)
(* What a handler does to one slot.                                        *)
(***************************************************************************)

\* A handler that worked on slot s: f is what it made of the watchers before
\* it placed anything, comp the completions that are awaited afterwards.
Handled(s, f, comp) ==
    /\ Watched(fate', indexed', capacity', {}) /\ Reserved(pump', capacity')
    /\ Known(fate', reg', admissions', comp, {}) /\ Awaited(reg', admissions', comp)
    /\ slots' \in [Slots -> SlotRecord] /\ queue' \in [Slots -> Seq(Ids)]
    /\ \A t \in Slots : t # s => slots'[t] = slots[t] /\ queue'[t] = queue[t]
    /\ \A i \in Ids : slotOf[i] # s => /\ i \in indexed' <=> i \in indexed
                                       /\ i \in capacity' <=> i \in capacity
                                       /\ i \in admissions' <=> i \in admissions
    /\ Lined(s, slots'[s].phase, queue'[s], indexed')
    /\ Serves(s, slots'[s], capacity', admissions', comp)
    /\ \A i \in Ids : \/ fate'[i] = f[i]
                      \/ f[i] = "controller" /\ fate'[i] \in Kinds \cup {"registry"}
    /\ \A i \in Ids : reg'[i] = reg[i] \/ (reg[i] = "none" /\ reg'[i] = "queued")

\* The slot s went to submission i, and x are those in the queues.
Started(s, i, b, x, comp) ==
    /\ Watched(fate', x, capacity', {}) /\ Reserved(pump', capacity')
    /\ Known(fate', reg', admissions', comp, {}) /\ Awaited(reg', admissions', comp)
    /\ slots' \in [Slots -> SlotRecord] /\ slots'[s].phase = "admitting"
    /\ \A t \in Slots : t # s => slots'[t] = slots[t]
    /\ Serves(s, slots'[s], capacity', admissions', comp)
    /\ \A j \in Ids : j # i => /\ fate'[j] = b.fate[j] /\ reg'[j] = reg[j]
                               /\ j \in capacity' <=> j \in b.capacity
                               /\ j \in admissions' <=> j \in b.admissions
    /\ fate'[i] \in {"registry", "controller"}
    /\ reg[i] = "none" /\ reg'[i] \in {"none", "queued"} /\ gate = "open"

\* Sets of submissions can be counted.
LEMMA SubmissionsFinite ==
  ASSUME NEW T, T \subseteq Ids
  PROVE  IsFiniteSet(T) /\ Cardinality(T) \in Nat
BY ControllerAssumption, FS_Subset, FS_CardinalityType

\* So can sets of slots.
LEMMA SlotsFinite ==
  ASSUME NEW T, T \subseteq Slots
  PROVE  IsFiniteSet(T) /\ Cardinality(T) \in Nat
BY ControllerAssumption, FS_Subset, FS_CardinalityType

\* One submission joins the capacity waiters.
LEMMA OneMoreWaits ==
  ASSUME NEW cap, cap \subseteq Ids, NEW i \in Ids, i \notin cap
  PROVE  Cardinality(cap \cup {i}) = Cardinality(cap) + 1
<1>1. IsFiniteSet(cap)
  BY SubmissionsFinite
<1> QED
  BY <1>1, FS_AddElement

\* start_in_slot: the submission i, which a handler has in its hands, owns the
\* slot that nobody held; x are the submissions that stay in the queues.
LEMMA Starts ==
  ASSUME Inputs, slots \in [Slots -> SlotRecord],
         NEW i \in Ids, NEW s, s = slotOf[i], NEW n, NEW b, NEW x, NEW comp,
         Watched(b.fate, x, b.capacity, {i}), Reserved(b.pump, b.capacity),
         Known(b.fate, reg, b.admissions, comp, {i}), Awaited(reg, b.admissions, comp),
         \A j \in b.capacity \cup b.admissions \cup comp : slotOf[j] # s,
         n = Cardinality(x) + Cardinality(b.capacity),
         StartInSlot(s, i, n, b)
  PROVE  Started(s, i, b, x, comp)
<1>1. /\ s \in Slots /\ gate = "open"
      /\ slots' = [slots EXCEPT ![s] = [phase |-> "admitting", owner |-> i]]
  BY DEF Inputs, StartInSlot
<1>2. [phase |-> "admitting", owner |-> i] \in SlotRecord
  BY DEF SlotRecord, Phases
<1>3. /\ slots' \in [Slots -> SlotRecord]
      /\ slots'[s] = [phase |-> "admitting", owner |-> i]
      /\ \A t \in Slots : t # s => slots'[t] = slots[t]
  BY <1>1, <1>2
<1>4. slots'[s].phase = "admitting" /\ slots'[s].owner = i
  BY <1>3
<1>5. /\ b.fate \in [Ids -> Fates] /\ x \subseteq Ids /\ b.capacity \subseteq Ids
      /\ x \cap b.capacity = {} /\ i \notin x /\ i \notin b.capacity
      /\ \A j \in Ids : j # i => (b.fate[j] = "controller" <=> j \in x \cup b.capacity)
      /\ Cardinality(x) + Cardinality(b.capacity) <= MaxPending
  BY DEF Watched
<1>6. /\ reg \in [Ids -> RegStates] /\ b.admissions \subseteq Ids /\ comp \subseteq Ids
      /\ reg[i] = "none" /\ \A j \in b.admissions \cup comp : reg[j] # "none"
      /\ \A j \in Ids : j # i => (b.fate[j] = "registry" <=> reg[j] # "none")
  BY DEF Known
<1>7. CASE /\ fate' = [b.fate EXCEPT ![i] = "registry"]
           /\ reg' = [reg EXCEPT ![i] = "queued"]
           /\ admissions' = b.admissions \cup {i}
           /\ capacity' = b.capacity /\ pump' = b.pump
  <2>1. /\ fate' \in [Ids -> Fates] /\ fate'[i] = "registry"
        /\ \A j \in Ids : j # i => fate'[j] = b.fate[j]
    BY <1>5, <1>7 DEF Fates
  <2>2. /\ reg' \in [Ids -> RegStates] /\ reg'[i] = "queued"
        /\ \A j \in Ids : j # i => reg'[j] = reg[j]
    BY <1>6, <1>7 DEF RegStates
  <2>3. Watched(fate', x, capacity', {})
    BY <1>5, <1>7, <2>1 DEF Watched
  <2>4. Known(fate', reg', admissions', comp, {})
    BY <1>6, <1>7, <2>1, <2>2 DEF Known
  <2>5. Awaited(reg', admissions', comp)
    BY <1>7, <2>2 DEF Awaited
  <2>6. Serves(s, slots'[s], capacity', admissions', comp)
    BY <1>4, <1>6, <1>7 DEF Serves
  <2> QED
    BY <1>1, <1>3, <1>4, <1>6, <1>7, <2>1, <2>2, <2>3, <2>4, <2>5, <2>6 DEF Started
<1>8. CASE /\ n < MaxPending /\ ~PumpFull(b.pump)
           /\ fate' = [b.fate EXCEPT ![i] = "controller"]
           /\ capacity' = b.capacity \cup {i} /\ pump' = Append(b.pump, i)
           /\ admissions' = b.admissions /\ reg' = reg
  <2>1. /\ fate' \in [Ids -> Fates] /\ fate'[i] = "controller"
        /\ \A j \in Ids : j # i => fate'[j] = b.fate[j]
    BY <1>5, <1>8 DEF Fates
  <2>2. Cardinality(x) + Cardinality(capacity') <= MaxPending
    <3>1. Cardinality(capacity') = Cardinality(b.capacity) + 1
      BY <1>5, <1>8, OneMoreWaits
    <3>2. Cardinality(x) \in Nat /\ Cardinality(b.capacity) \in Nat /\ MaxPending \in Nat
      BY <1>5, SubmissionsFinite, ControllerAssumption
    <3>3. Cardinality(x) + Cardinality(b.capacity) < MaxPending
      BY <1>8
    <3> QED
      BY <3>1, <3>2, <3>3
  <2>3. Watched(fate', x, capacity', {})
    BY <1>5, <1>8, <2>1, <2>2 DEF Watched
  <2>4. Known(fate', reg', admissions', comp, {})
    BY <1>6, <1>8, <2>1 DEF Known
  <2>5. Awaited(reg', admissions', comp)
    BY <1>8 DEF Awaited
  <2>6. Serves(s, slots'[s], capacity', admissions', comp)
    BY <1>4, <1>6, <1>8 DEF Serves
  <2>7. Reserved(pump', capacity')
    <3>1. Lists(Ids, b.pump, b.capacity) /\ Len(b.pump) <= AdmissionCap
      BY DEF Reserved
    <3>2. /\ Lists(Ids, pump', capacity') /\ Len(pump') = Len(b.pump) + 1
      BY <1>5, <1>8, <3>1, ListsAppend
    <3>3. Len(b.pump) \in Nat /\ AdmissionCap \in Nat
      BY <3>1, ControllerAssumption DEF Lists
    <3>4. ~(Len(b.pump) >= AdmissionCap)
      BY <1>8 DEF PumpFull
    <3>5. Len(pump') <= AdmissionCap
      BY <3>2, <3>3, <3>4
    <3> QED
      BY <3>2, <3>5 DEF Reserved
  <2> QED
    BY <1>1, <1>3, <1>4, <1>6, <1>8, <2>1, <2>3, <2>4, <2>5, <2>6, <2>7 DEF Started
<1> QED
  BY <1>7, <1>8 DEF StartInSlot, TrackAdmission, PumpEnqueue

\* The slot loses its owner and nobody takes over: shutdown was seen, or
\* there is nobody.
LEMMA Vacates ==
  ASSUME Inputs, Lines, NEW s \in Slots, NEW b, NEW comp,
         Watched(b.fate, indexed, b.capacity, {}), Reserved(b.pump, b.capacity),
         Known(b.fate, reg, b.admissions, comp, {}), Awaited(reg, b.admissions, comp),
         \A j \in b.capacity \cup b.admissions \cup comp : slotOf[j] # s,
         \A j \in Ids : slotOf[j] # s => /\ j \in b.capacity <=> j \in capacity
                                         /\ j \in b.admissions <=> j \in admissions,
         gate = "closed" \/ queue[s] = <<>>,
         Vacate(s, b)
  PROVE  Handled(s, b.fate, comp) /\ Present' \subseteq Present \cup {s}
<1>1. /\ slots' = [slots EXCEPT ![s] = IF queue[s] = <<>> THEN Absent
                                       ELSE [phase |-> "idle", owner |-> NoId]]
      /\ fate' = b.fate /\ capacity' = b.capacity /\ pump' = b.pump
      /\ admissions' = b.admissions /\ reg' = reg /\ queue' = queue /\ indexed' = indexed
  BY DEF Vacate, Leave
<1>2. /\ slots \in [Slots -> SlotRecord] /\ queue \in [Slots -> Seq(Ids)]
      /\ Lined(s, slots[s].phase, queue[s], indexed)
  BY DEF Lines
<1>3. /\ slots' \in [Slots -> SlotRecord] /\ \A t \in Slots : t # s => slots'[t] = slots[t]
      /\ slots'[s].owner = NoId
      /\ slots'[s].phase = IF queue[s] = <<>> THEN "absent" ELSE "idle"
  BY <1>1, <1>2 DEF SlotRecord, Phases, Absent
<1>4. Lined(s, slots'[s].phase, queue'[s], indexed')
  <2>1. \A m \in DOMAIN queue[s] : gate = "closed"
    OBVIOUS
  <2> QED
    BY <1>1, <1>2, <1>3, <2>1 DEF Lined
<1>5. Serves(s, slots'[s], capacity', admissions', comp)
  BY <1>1, <1>3 DEF Serves
<1>6. Present' \subseteq Present \cup {s}
  BY <1>3 DEF Present
<1> QED
  BY <1>1, <1>2, <1>3, <1>4, <1>5, <1>6 DEF Handled


\* start_next_from_queue: the slot goes to the first in the queue whose
\* hand-off does not fail, or is collected.
LEMMA Advances ==
  ASSUME Inputs, Lines, NEW s \in Slots, NEW b, NEW comp,
         b = [fate |-> b.fate, capacity |-> b.capacity, pump |-> b.pump,
              admissions |-> b.admissions],
         Watched(b.fate, indexed, b.capacity, {}), Reserved(b.pump, b.capacity),
         Known(b.fate, reg, b.admissions, comp, {}), Awaited(reg, b.admissions, comp),
         \A j \in b.capacity \cup b.admissions \cup comp : slotOf[j] # s,
         \A j \in Ids : slotOf[j] # s => /\ j \in b.capacity <=> j \in capacity
                                         /\ j \in b.admissions <=> j \in admissions,
         StartNext(s, b)
  PROVE  Handled(s, b.fate, comp) /\ Present' \subseteq Present \cup {s}
<1> DEFINE q == queue[s]
           Gone(k) == {q[j] : j \in 1..k}
           After(k) == [b EXCEPT !.fate = Rejecting(b.fate, Gone(k), "HandoffFailed")]
<1>1. /\ slots \in [Slots -> SlotRecord] /\ queue \in [Slots -> Seq(Ids)]
      /\ Lined(s, slots[s].phase, q, indexed)
  BY DEF Lines
<1>2. /\ Lists(Ids, q, Queued(s, indexed)) /\ q \in Seq(Ids) /\ Len(q) \in Nat
      /\ DOMAIN q = 1..Len(q) /\ \A j \in 1..Len(q) : q[j] \in Queued(s, indexed)
  BY <1>1, ListsByPlace DEF Lined, Lists
<1>3. /\ b.fate \in [Ids -> Fates] /\ indexed \subseteq Ids /\ b.capacity \subseteq Ids
      /\ indexed \cap b.capacity = {}
      /\ \A j \in Ids : b.fate[j] = "controller" <=> j \in indexed \cup b.capacity
      /\ Cardinality(indexed) + Cardinality(b.capacity) <= MaxPending
  BY DEF Watched
<1>4. /\ reg \in [Ids -> RegStates] /\ b.admissions \subseteq Ids /\ comp \subseteq Ids
      /\ \A j \in b.admissions \cup comp : reg[j] # "none"
      /\ \A j \in Ids : b.fate[j] = "registry" <=> reg[j] # "none"
  BY DEF Known
<1>5. \A j \in Queued(s, indexed) :
        j \in Ids /\ slotOf[j] = s /\ b.fate[j] = "controller" /\ reg[j] = "none"
  BY <1>3, <1>4 DEF Queued
<1>6. ASSUME NEW k \in 0..Len(q)
      PROVE  /\ Gone(k) \subseteq Queued(s, indexed)
             /\ After(k).fate \in [Ids -> Fates] /\ After(k).capacity = b.capacity
             /\ After(k).pump = b.pump /\ After(k).admissions = b.admissions
             /\ \A j \in Gone(k) : After(k).fate[j] = "HandoffFailed"
             /\ \A j \in Ids \ Gone(k) : After(k).fate[j] = b.fate[j]
  <2>1. Gone(k) \subseteq Queued(s, indexed) /\ k \in Nat /\ k <= Len(q)
    BY <1>2
  <2>2. Gone(k) \subseteq Ids
    BY <1>5, <2>1
  <2>3. PICK G : G = Gone(k)
    OBVIOUS
  <2>4. PICK g : g = Rejecting(b.fate, G, "HandoffFailed")
    OBVIOUS
  <2>5. /\ g \in [Ids -> Fates] /\ \A j \in G : g[j] = "HandoffFailed"
        /\ \A j \in Ids \ G : g[j] = b.fate[j]
    BY <1>3, <2>2, <2>3, <2>4 DEF Rejecting, Fates, Kinds
  <2>6. After(k) = [b EXCEPT !.fate = g]
    BY <2>3, <2>4
  <2>7. /\ After(k).fate = g /\ After(k).capacity = b.capacity
        /\ After(k).pump = b.pump /\ After(k).admissions = b.admissions
    BY <2>6
  <2> HIDE DEF Gone, After
  <2> QED
    BY <2>1, <2>3, <2>5, <2>7
<1>7. PICK k \in 0..Len(q) :
        \/ /\ k = Len(q)
           /\ queue' = [queue EXCEPT ![s] = <<>>] /\ indexed' = indexed \ Gone(k)
           /\ slots' = [slots EXCEPT ![s] = Absent] /\ Leave(After(k))
        \/ /\ k < Len(q)
           /\ queue' = [queue EXCEPT ![s] = SubSeq(@, k + 2, Len(@))]
           /\ indexed' = indexed \ (Gone(k) \cup {q[k + 1]})
           /\ StartInSlot(s, q[k + 1],
                          Cardinality(indexed) - (k + 1) + Cardinality(b.capacity), After(k))
  BY DEF StartNext
<1>8. PICK G, a : G = Gone(k) /\ a = After(k)
  OBVIOUS
<1>9. /\ G \subseteq Queued(s, indexed)
      /\ a.fate \in [Ids -> Fates] /\ a.capacity = b.capacity
      /\ a.pump = b.pump /\ a.admissions = b.admissions
      /\ \A j \in G : a.fate[j] = "HandoffFailed"
      /\ \A j \in Ids \ G : a.fate[j] = b.fate[j]
  BY <1>6, <1>8
<1>10. k \in Nat /\ k <= Len(q) /\ G = {q[j] : j \in 1..k}
  BY <1>2, <1>8
<1> HIDE DEF Gone, After
<1>11. CASE /\ k = Len(q)
            /\ queue' = [queue EXCEPT ![s] = <<>>] /\ indexed' = indexed \ Gone(k)
            /\ slots' = [slots EXCEPT ![s] = Absent] /\ Leave(After(k))
  <2>1. /\ fate' = a.fate /\ capacity' = b.capacity /\ pump' = b.pump
        /\ admissions' = b.admissions /\ reg' = reg /\ indexed' = indexed \ G
    BY <1>8, <1>9, <1>11 DEF Leave
  <2>2. G = Queued(s, indexed)
    BY <1>2, <1>9, <1>10, <1>11, ListsByPlace
  <2>3. /\ slots' \in [Slots -> SlotRecord] /\ \A t \in Slots : t # s => slots'[t] = slots[t]
        /\ slots'[s].owner = NoId /\ slots'[s].phase = "absent"
    BY <1>1, <1>11 DEF SlotRecord, Phases, Absent
  <2>4. /\ queue' \in [Slots -> Seq(Ids)] /\ \A t \in Slots : t # s => queue'[t] = queue[t]
        /\ queue'[s] = <<>>
    BY <1>1, <1>11
  <2>5. Queued(s, indexed') = {}
    BY <2>1, <2>2 DEF Queued
  <2>6. Lined(s, slots'[s].phase, queue'[s], indexed')
    <3>1. Lists(Ids, queue'[s], Queued(s, indexed'))
      BY <2>4, <2>5, ListsNothing
    <3>2. Len(queue'[s]) = 0 /\ DOMAIN queue'[s] = {}
      BY <2>4
    <3>3. Len(queue'[s]) <= MaxSlotQueue
      BY <3>2, ControllerAssumption
    <3> QED
      BY <2>3, <2>4, <3>1, <3>2, <3>3 DEF Lined
  <2>7. Serves(s, slots'[s], capacity', admissions', comp)
    BY <2>1, <2>3 DEF Serves
  <2>8. Watched(fate', indexed', capacity', {})
    <3>1. Cardinality(indexed') <= Cardinality(indexed)
      <4>1. IsFiniteSet(indexed)
        BY <1>3, SubmissionsFinite
      <4> QED
        BY <2>1, <4>1, FS_Subset
    <3>2. Cardinality(indexed') + Cardinality(capacity') <= MaxPending
      <4>1. /\ Cardinality(indexed) \in Nat /\ Cardinality(b.capacity) \in Nat
            /\ Cardinality(indexed') \in Nat /\ MaxPending \in Nat
        BY <1>3, <2>1, SubmissionsFinite, ControllerAssumption
      <4> QED
        BY <1>3, <2>1, <3>1, <4>1
    <3>3. \A j \in Ids : fate'[j] = "controller" <=> j \in indexed' \cup capacity'
      BY <1>3, <1>5, <1>9, <2>1
    <3> QED
      BY <1>3, <1>9, <2>1, <3>2, <3>3 DEF Watched
  <2>9. Known(fate', reg', admissions', comp, {})
    BY <1>4, <1>5, <1>9, <2>1 DEF Known
  <2>10. \A j \in Ids : \/ fate'[j] = b.fate[j]
                        \/ b.fate[j] = "controller" /\ fate'[j] \in Kinds \cup {"registry"}
    BY <1>5, <1>9, <2>1 DEF Kinds
  <2>11. \A j \in Ids : slotOf[j] # s => (j \in indexed' <=> j \in indexed)
    BY <1>5, <1>9, <2>1
  <2>12. Present' \subseteq Present \cup {s}
    BY <2>3 DEF Present
  <2> QED
    BY <2>1, <2>3, <2>4, <2>6, <2>7, <2>8, <2>9, <2>10, <2>11, <2>12 DEF Handled
<1>12. CASE /\ k < Len(q)
            /\ queue' = [queue EXCEPT ![s] = SubSeq(@, k + 2, Len(@))]
            /\ indexed' = indexed \ (Gone(k) \cup {q[k + 1]})
            /\ StartInSlot(s, q[k + 1],
                           Cardinality(indexed) - (k + 1) + Cardinality(b.capacity), After(k))
  <2>1. PICK i : i = q[k + 1]
    OBVIOUS
  <2>2. k + 1 \in 1..Len(q) /\ k + 1 \in 0..Len(q)
    BY <1>2, <1>10, <1>12
  <2>3. i \in Queued(s, indexed) /\ i \notin G
    <3>1. \A j, l \in 1..Len(q) : q[j] = q[l] => j = l
      BY <1>2, ListsByPlace
    <3>2. \A j \in 1..k : j \in 1..Len(q) /\ j # k + 1
      BY <1>2, <1>10
    <3> QED
      BY <1>2, <1>10, <2>1, <2>2, <3>1, <3>2
  <2>4. PICK x : x = indexed \ (G \cup {i})
    OBVIOUS
  <2>5. indexed' = x
    BY <1>8, <1>12, <2>1, <2>4
  <2>6. Cardinality(x) = Cardinality(indexed) - (k + 1)
    <3>1. IsFiniteSet(indexed) /\ Cardinality(indexed) \in Nat
      BY <1>3, SubmissionsFinite
    <3>2. {q[j] : j \in 1..(k + 1)} = G \cup {i}
      <4>1. 1..(k + 1) = 1..k \cup {k + 1}
        BY <1>10
      <4> QED
        BY <1>10, <2>1, <4>1
    <3>3. G \cup {i} \subseteq indexed
      BY <1>9, <2>3 DEF Queued
    <3>4. Cardinality(G \cup {i}) = k + 1
      <4>1. PICK c, d : c = SubSeq(q, 1, k + 1) /\ d = k + 1
        OBVIOUS
      <4>2. Cardinality(ToSet(c)) = k + 1
        BY <1>2, <2>2, <4>1, ListsSplit
      <4>3. ToSet(c) = {q[j] : j \in 1..(k + 1)}
        <5>1. \A j \in 1..(k + 1) : q[j] \in Ids
          BY <1>2, <1>5, <2>2
        <5>2. c \in Seq(Ids) /\ Len(c) = k + 1 /\ \A j \in 1..(k + 1) : c[j] = q[j]
          BY <1>2, <1>10, <2>2, <4>1, <5>1, SubSeqProperties
        <5>3. DOMAIN c = 1..(k + 1)
          BY <5>2
        <5> QED
          BY <5>2, <5>3 DEF ToSet
      <4> QED
        BY <3>2, <4>2, <4>3
    <3>5. Cardinality(x) = Cardinality(indexed) - Cardinality(indexed \cap (G \cup {i}))
      BY <2>4, <3>1, FS_Difference
    <3>6. indexed \cap (G \cup {i}) = G \cup {i}
      BY <3>3
    <3> QED
      BY <3>4, <3>5, <3>6
  <2>7. /\ i \in Ids /\ slotOf[i] = s /\ b.fate[i] = "controller" /\ reg[i] = "none"
        /\ \A j \in G : j \in Ids /\ slotOf[j] = s /\ b.fate[j] = "controller" /\ reg[j] = "none"
    BY <1>5, <1>9, <2>3
  <2>8. Watched(a.fate, x, a.capacity, {i})
    <3>1. /\ Cardinality(x) \in Nat /\ Cardinality(b.capacity) \in Nat /\ MaxPending \in Nat
          /\ Cardinality(indexed) \in Nat
      BY <1>3, <2>4, SubmissionsFinite, ControllerAssumption
    <3>2. Cardinality(x) + Cardinality(a.capacity) <= MaxPending
      BY <1>3, <1>9, <1>10, <2>6, <3>1
    <3>3. \A j \in Ids \ {i} : a.fate[j] = "controller" <=> j \in x \cup a.capacity
      BY <1>3, <1>9, <2>4, <2>7
    <3>4. {i} \cap (x \cup a.capacity) = {}
      BY <1>3, <1>9, <2>3, <2>4 DEF Queued
    <3> QED
      BY <1>3, <1>9, <2>4, <3>2, <3>3, <3>4 DEF Watched
  <2>9. Known(a.fate, reg, a.admissions, comp, {i})
    BY <1>4, <1>9, <2>7 DEF Known
  <2>10. PICK n : n = Cardinality(indexed) - (k + 1) + Cardinality(b.capacity)
    OBVIOUS
  <2>11. StartInSlot(s, i, n, a)
    BY <1>8, <1>12, <2>1, <2>10
  <2>12. n = Cardinality(x) + Cardinality(a.capacity)
    BY <1>9, <2>6, <2>10
  <2>13. /\ Reserved(a.pump, a.capacity) /\ Awaited(reg, a.admissions, comp)
         /\ \A j \in a.capacity \cup a.admissions \cup comp : slotOf[j] # s
    BY <1>9
  <2>14. /\ Watched(fate', x, capacity', {}) /\ Reserved(pump', capacity')
         /\ Known(fate', reg', admissions', comp, {}) /\ Awaited(reg', admissions', comp)
         /\ slots' \in [Slots -> SlotRecord] /\ slots'[s].phase = "admitting"
         /\ \A t \in Slots : t # s => slots'[t] = slots[t]
         /\ Serves(s, slots'[s], capacity', admissions', comp)
         /\ \A j \in Ids : j # i => /\ fate'[j] = a.fate[j] /\ reg'[j] = reg[j]
                                    /\ j \in capacity' <=> j \in a.capacity
                                    /\ j \in admissions' <=> j \in a.admissions
         /\ fate'[i] \in {"registry", "controller"}
         /\ reg[i] = "none" /\ reg'[i] \in {"none", "queued"} /\ gate = "open"
    <3>1. slots \in [Slots -> SlotRecord] /\ i \in Ids /\ s = slotOf[i]
      BY <1>1, <2>7
    <3>2. Started(s, i, a, x, comp)
      BY <2>8, <2>9, <2>11, <2>12, <2>13, <3>1, Starts
    <3> QED
      BY <3>2 DEF Started
  <2>15. PICK r : r = SubSeq(q, (k + 1) + 1, Len(q))
    OBVIOUS
  <2>16. /\ Lists(Ids, r, Queued(s, indexed) \ {q[j] : j \in 1..(k + 1)})
         /\ Len(r) = Len(q) - (k + 1)
         /\ \A j \in DOMAIN r : (k + 1) + j \in DOMAIN q /\ r[j] = q[(k + 1) + j]
    <3>1. PICK m : m = k + 1
      OBVIOUS
    <3>2. m \in 0..Len(q) /\ r = SubSeq(q, m + 1, Len(q))
      BY <2>2, <2>15, <3>1
    <3>3. PICK p, X : p = q /\ X = Queued(s, indexed)
      OBVIOUS
    <3>4. Lists(Ids, p, X) /\ m \in 0..Len(p) /\ r = SubSeq(p, m + 1, Len(p))
      BY <1>2, <3>2, <3>3
    <3>5. /\ Lists(Ids, r, X \ {p[j] : j \in 1..m}) /\ Len(r) = Len(p) - m
          /\ \A j \in DOMAIN r : m + j \in DOMAIN p /\ r[j] = p[m + j]
      BY <3>4, ListsRest
    <3> QED
      BY <3>1, <3>3, <3>5
  <2>17. Queued(s, x) = Queued(s, indexed) \ {q[j] : j \in 1..(k + 1)}
    <3>1. 1..(k + 1) = 1..k \cup {k + 1}
      BY <1>10
    <3>2. {q[j] : j \in 1..(k + 1)} = G \cup {i}
      BY <1>10, <2>1, <3>1
    <3> QED
      BY <2>4, <3>2 DEF Queued
  <2>18. r \in Seq(Ids) /\ DOMAIN r = 1..Len(r) /\ Len(r) \in Nat
    BY <2>16 DEF Lists
  <2>19. queue' \in [Slots -> Seq(Ids)] /\ queue'[s] = r
         /\ \A t \in Slots : t # s => queue'[t] = queue[t]
    <3>1. k + 2 = (k + 1) + 1
      BY <1>10
    <3>2. queue' = [queue EXCEPT ![s] = r]
      BY <1>12, <2>15, <3>1
    <3> QED
      BY <1>1, <2>18, <3>2
  <2>20. Lined(s, slots'[s].phase, queue'[s], indexed')
    <3>1. Lists(Ids, r, Queued(s, indexed'))
      BY <2>5, <2>16, <2>17
    <3>2. Len(q) <= MaxSlotQueue \/ Len(q) = 1
      BY <1>1 DEF Lined
    <3>3. Len(r) <= MaxSlotQueue
      <4>1. MaxSlotQueue \in Nat /\ Len(r) = Len(q) - (k + 1)
        BY <2>16, ControllerAssumption
      <4> HIDE DEF q
      <4> QED
        BY <1>2, <1>10, <4>1, <3>2
    <3>4. \A m \in DOMAIN r : policy[r[m]] # "Replace"
      <4>1. \A m \in DOMAIN q : policy[q[m]] = "Replace" => m = 1
        BY <1>1 DEF Lined
      <4>2. \A m \in DOMAIN r : (k + 1) + m # 1
        BY <1>10, <2>18
      <4> QED
        BY <2>16, <4>1, <4>2
    <3> QED
      BY <2>14, <2>19, <3>1, <3>3, <3>4 DEF Lined
  <2>21. \A j \in Ids : \/ fate'[j] = b.fate[j]
                        \/ b.fate[j] = "controller" /\ fate'[j] \in Kinds \cup {"registry"}
    BY <1>9, <2>7, <2>14 DEF Kinds
  <2>22. \A j \in Ids : slotOf[j] # s => /\ j \in indexed' <=> j \in indexed
                                         /\ j \in capacity' <=> j \in capacity
                                         /\ j \in admissions' <=> j \in admissions
    BY <1>9, <2>4, <2>5, <2>7, <2>14
  <2>23. \A j \in Ids : reg'[j] = reg[j] \/ (reg[j] = "none" /\ reg'[j] = "queued")
    BY <2>14
  <2>24. Present' \subseteq Present \cup {s}
    BY <2>14 DEF Present
  <2> QED
    BY <2>5, <2>14, <2>19, <2>20, <2>21, <2>22, <2>23, <2>24 DEF Handled
<1> QED
  BY <1>7, <1>11, <1>12

(***************************************************************************)
(* From one slot to the invariant.                                         *)
(***************************************************************************)

\* What callers were told stays so while verdicts and departures are final.
LEMMA ToldStays ==
  ASSUME Called(caller, fate), Told(caller, fate, reg), NEW g, NEW r,
         \A i \in Ids : fate[i] \in Kinds \cup {"registry"} => g[i] = fate[i],
         \A i \in Ids : fate[i] # "new" => g[i] # "new",
         \A i \in Ids : reg[i] \in Leaving => r[i] \in Leaving,
         \A i \in Ids : reg[i] = "rejected" => r[i] = "rejected"
  PROVE  Called(caller, g) /\ Told(caller, g, r)
<1>1. /\ caller \in [Callers -> CallStates] /\ target \in [Callers -> Ids \cup {NoId}]
      /\ \A c \in Callers : caller[c] # "idle" => target[c] \in Ids /\ fate[target[c]] # "new"
      /\ \A c \in Callers : caller[c] = "tracked" => fate[target[c]] \in Kinds \cup {"registry"}
  BY DEF Called
<1>2. "RemovedFromQueue" \in Kinds
  BY DEF Kinds
<1>3. Called(caller, g)
  BY <1>1 DEF Called
<1>4. /\ \A c \in Callers : Won(c, caller) =>
           fate[target[c]] = "RemovedFromQueue" \/ reg[target[c]] \in Leaving
      /\ \A c \in Callers : caller[c] = "false" =>
           fate[target[c]] \in Kinds \/ reg[target[c]] \in Leaving \cup {"rejected"}
      /\ \A c, d \in Callers :
           Won(c, caller) /\ Won(d, caller) /\ target[c] = target[d] => c = d
  BY DEF Told
<1>5. \A c \in Callers : Won(c, caller) => target[c] \in Ids
  BY <1>1 DEF Won
<1>6. \A c \in Callers : Won(c, caller) =>
        g[target[c]] = "RemovedFromQueue" \/ r[target[c]] \in Leaving
  BY <1>2, <1>4, <1>5
<1>7. \A c \in Callers : caller[c] = "false" =>
        g[target[c]] \in Kinds \/ r[target[c]] \in Leaving \cup {"rejected"}
  BY <1>1, <1>4
<1>8. Told(caller, g, r)
  BY <1>4, <1>6, <1>7 DEF Told
<1> QED
  BY <1>3, <1>8

\* A slot that waits for its owner and for nobody else, like all the others,
\* serves one task at a time.
LEMMA ServedAlone ==
  ASSUME NEW cap, NEW r, NEW adm, NEW comp, Inputs, Awaited(r, adm, comp),
         NEW e, \A s \in Slots : Serves(s, e[s], cap, adm, comp),
         NEW i \in Ids, NEW j \in Ids, slotOf[i] = slotOf[j],
         i \in cap \/ r[i] \in Active, j \in cap \/ r[j] \in Active
  PROVE  i = j
<1>1. i \in cap \cup adm \cup comp /\ j \in cap \cup adm \cup comp
  BY DEF Awaited
<1>2. slotOf[i] \in Slots
  BY DEF Inputs
<1>3. \A k \in cap \cup adm \cup comp : slotOf[k] = slotOf[i] => e[slotOf[i]].owner = k
  BY <1>2 DEF Serves
<1> QED
  BY <1>1, <1>3

\* A handler settled the watchers of f before it placed anything.
Settles(f) ==
    \A i \in Ids : \/ f[i] = fate[i]
                   \/ fate[i] \in {"command", "controller"} /\ f[i] \in Kinds \cup {"controller"}

\* What a handler may make of watchers and tasks: a verdict is kept, nothing
\* is made of what was not submitted, and what is with the registry stays.
Onwards(f) ==
    /\ \A i \in Ids : fate[i] \in Kinds \cup {"registry"} => fate'[i] = fate[i]
    /\ \A i \in Ids : fate[i] # "new" => fate'[i] # "new"
    /\ \A i \in Ids : reg[i] \in Leaving => reg'[i] \in Leaving
    /\ \A i \in Ids : reg[i] = "rejected" => reg'[i] = "rejected"
    /\ \A i \in Ids : fate'[i] = "command" <=> f[i] = "command"

\* A handler of one slot does no more than that.
LEMMA HandledOnwards ==
  ASSUME fate \in [Ids -> Fates], NEW s, NEW f, NEW comp, Settles(f), Handled(s, f, comp)
  PROVE  Onwards(f)
<1>1. /\ \A i \in Ids : \/ fate'[i] = f[i]
                        \/ f[i] = "controller" /\ fate'[i] \in Kinds \cup {"registry"}
      /\ \A i \in Ids : reg'[i] = reg[i] \/ (reg[i] = "none" /\ reg'[i] = "queued")
  BY DEF Handled
<1>2. /\ "command" \notin Kinds /\ "controller" \notin Kinds /\ "registry" \notin Kinds
      /\ "new" \notin Kinds /\ "none" \notin Leaving
  BY DEF Kinds, Leaving
<1>3. \A i \in Ids : fate[i] \in Kinds \cup {"registry"} => fate'[i] = fate[i]
  BY <1>1, <1>2 DEF Settles
<1>4. \A i \in Ids : fate[i] # "new" => fate'[i] # "new"
  BY <1>1, <1>2 DEF Settles
<1>5. \A i \in Ids : fate'[i] = "command" <=> f[i] = "command"
  BY <1>1, <1>2
<1> QED
  BY <1>1, <1>2, <1>3, <1>4, <1>5 DEF Onwards

\* What the clients see of a step, g and k being watchers and callers after it.
Clients(q, g, k, r, T) ==
    /\ Commanded(q, g, k) /\ Called(k, g) /\ Told(k, g, r) /\ Cardinality(T) <= IdentityCap

\* A handler of one slot keeps the invariant.
LEMMA HandledKeeps ==
  ASSUME ControllerInvariant, loop = "running", NEW s \in Slots, NEW f,
         UNCHANGED <<inputs, downVars, target>>,
         Settles(f), Handled(s, f, completions'),
         \A i \in Ids : slotOf[i] # s => (i \in completions' <=> i \in completions),
         removals' \subseteq Ids, Cardinality(Present') <= MaxSlots,
         Clients(cmds', fate', caller', reg', Tracked')
  PROVE  ControllerInvariant' /\ VerdictsKept
<1>1. /\ slotOf' = slotOf /\ policy' = policy /\ loop' = loop /\ gate' = gate
      /\ token' = token /\ target' = target
  BY DEF inputs, downVars
<1>2. /\ Inputs /\ Course /\ Watched(fate, indexed, capacity, {})
      /\ Known(fate, reg, admissions, completions, {}) /\ Lines /\ Running
  BY DEF ControllerInvariant
<1>3. /\ Watched(fate', indexed', capacity', {}) /\ Reserved(pump', capacity')
      /\ Known(fate', reg', admissions', completions', {})
      /\ Awaited(reg', admissions', completions')
      /\ slots' \in [Slots -> SlotRecord] /\ queue' \in [Slots -> Seq(Ids)]
      /\ \A t \in Slots : t # s => slots'[t] = slots[t] /\ queue'[t] = queue[t]
      /\ \A i \in Ids : slotOf[i] # s => /\ i \in indexed' <=> i \in indexed
                                         /\ i \in capacity' <=> i \in capacity
                                         /\ i \in admissions' <=> i \in admissions
      /\ Lined(s, slots'[s].phase, queue'[s], indexed')
      /\ Serves(s, slots'[s], capacity', admissions', completions')
  BY DEF Handled
<1>4. /\ indexed \subseteq Ids /\ indexed' \subseteq Ids
      /\ capacity \subseteq Ids /\ capacity' \subseteq Ids
      /\ admissions \subseteq Ids /\ admissions' \subseteq Ids
      /\ completions \subseteq Ids /\ completions' \subseteq Ids
  BY <1>2, <1>3 DEF Watched, Known
<1>5. Inputs'
  BY <1>1, <1>2 DEF Inputs
<1>6. Course'
  BY <1>1, <1>2 DEF Course
<1>7. ASSUME NEW t \in Slots, t # s PROVE Lined(t, slots'[t].phase, queue'[t], indexed')
  <2>1. Lined(t, slots[t].phase, queue[t], indexed)
    BY <1>2 DEF Lines
  <2>2. Queued(t, indexed') = Queued(t, indexed)
    BY <1>3, <1>4, <1>7 DEF Queued
  <2>3. slots'[t] = slots[t] /\ queue'[t] = queue[t]
    BY <1>3, <1>7
  <2> QED
    BY <2>1, <2>2, <2>3 DEF Lined
<1>8. Lines'
  <2>1. \A t \in Slots : Lined(t, slots'[t].phase, queue'[t], indexed')
    BY <1>3, <1>7
  <2>2. ASSUME NEW t \in Slots PROVE Lined(t, slots[t].phase, queue[t], indexed)'
    <3>1. Lined(t, slots'[t].phase, queue'[t], indexed')
      BY <2>1
    <3> QED
      BY <1>1, <3>1 DEF Lined, Queued
  <2> QED
    BY <1>3, <2>2 DEF Lines
<1>9. ASSUME NEW t \in Slots, t # s
      PROVE  Serves(t, slots'[t], capacity', admissions', completions')
  <2>1. Serves(t, slots[t], capacity, admissions, completions)
    BY <1>2 DEF Running
  <2>2. slots'[t] = slots[t]
    BY <1>3, <1>9
  <2>3. \A i \in Ids : slotOf[i] = t => /\ i \in capacity' <=> i \in capacity
                                        /\ i \in admissions' <=> i \in admissions
                                        /\ i \in completions' <=> i \in completions
    BY <1>3, <1>9
  <2> QED
    BY <1>4, <2>1, <2>2, <2>3 DEF Serves
<1>10. \A t \in Slots : Serves(t, slots'[t], capacity', admissions', completions')
  BY <1>3, <1>9
<1>11. Running'
  <2>1. ASSUME NEW t \in Slots
        PROVE  Serves(t, slots[t], capacity, admissions, completions)'
    <3>1. Serves(t, slots'[t], capacity', admissions', completions')
      BY <1>10
    <3> QED
      BY <1>1, <3>1 DEF Serves
  <2>2. Reserved(pump, capacity)' /\ Awaited(reg, admissions, completions)'
    BY <1>3 DEF Reserved, Awaited
  <2> QED
    BY <2>1, <2>2 DEF Running
<1>12. SlotExclusive'
  <2> SUFFICES ASSUME NEW i \in Ids, NEW j \in Ids, slotOf[i] = slotOf[j],
                      i \in capacity' \/ reg'[i] \in Active,
                      j \in capacity' \/ reg'[j] \in Active
               PROVE  i = j
    BY <1>1 DEF SlotExclusive, Active
  <2>1. PICK cap, r, adm, comp, e : /\ cap = capacity' /\ r = reg' /\ adm = admissions'
                                    /\ comp = completions' /\ e = slots'
    OBVIOUS
  <2>2. /\ Awaited(r, adm, comp) /\ \A t \in Slots : Serves(t, e[t], cap, adm, comp)
        /\ i \in cap \/ r[i] \in Active
        /\ j \in cap \/ r[j] \in Active
    BY <1>3, <1>10, <2>1
  <2> QED
    BY <1>2, <2>1, <2>2, ServedAlone
<1>13. VerdictsKept
  <2>1. Onwards(f)
    <3>1. fate \in [Ids -> Fates]
      BY <1>2 DEF Watched
    <3> QED
      BY <3>1, HandledOnwards
  <2> QED
    BY <2>1 DEF Onwards, VerdictsKept
<1>14. /\ Watched(fate, indexed, capacity, {})'
       /\ Known(fate, reg, admissions, completions, {})'
  BY <1>3 DEF Watched, Known
<1>15. Commanded(cmds, fate, caller)' /\ Called(caller, fate)' /\ Told(caller, fate, reg)'
  <2>1. /\ Commanded(cmds', fate', caller') /\ Called(caller', fate')
        /\ Told(caller', fate', reg')
    BY DEF Clients
  <2> QED
    BY <1>1, <2>1 DEF Commanded, Called, Told, Sent, Won
<1>16. Cardinality(Tracked)' <= IdentityCap
  BY DEF Clients
<1> QED
  BY <1>5, <1>6, <1>8, <1>11, <1>12, <1>13, <1>14, <1>15, <1>16 DEF ControllerInvariant

\* The loop takes the first command: the others keep their order.
LEMMA CommandTaken ==
  ASSUME NEW q, NEW f, NEW k, Commanded(q, f, k), q # <<>>,
         NEW g, NEW h, Sent(g, h) = Sent(f, k) \ {Head(q)}
  PROVE  Commanded(Tail(q), g, h) /\ Head(q) \in Sent(f, k)
<1>1. Lists(Commands, q, Sent(f, k)) /\ Len(q) <= CommandCap /\ q \in Seq(Commands)
  BY DEF Commanded, Lists
<1>2. PICK X : X = Sent(f, k)
  OBVIOUS
<1>3. Head(q) \in X /\ Lists(Commands, Tail(q), X \ {Head(q)})
  BY <1>1, <1>2, ListsTail
<1>4. /\ Tail(q) \in Seq(Commands) /\ Len(q) \in Nat /\ Len(Tail(q)) = Len(q) - 1
      /\ \A m \in DOMAIN Tail(q) : m + 1 \in DOMAIN q /\ Tail(q)[m] = q[m + 1] /\ m \in Nat
  BY <1>1
<1>5. Len(Tail(q)) <= CommandCap
  BY <1>1, <1>4, ControllerAssumption
<1>6. \A m, n \in DOMAIN q :
        q[m].op = "manage" /\ q[n] = [op |-> "submit", id |-> target[q[m].by]] => n < m
  BY DEF Commanded
<1>7. ASSUME NEW m \in DOMAIN Tail(q), NEW n \in DOMAIN Tail(q), Tail(q)[m].op = "manage",
             Tail(q)[n] = [op |-> "submit", id |-> target[Tail(q)[m].by]]
      PROVE  n < m
  <2>1. /\ m + 1 \in DOMAIN q /\ Tail(q)[m] = q[m + 1] /\ m \in Nat
        /\ n + 1 \in DOMAIN q /\ Tail(q)[n] = q[n + 1] /\ n \in Nat
    BY <1>4
  <2>2. n + 1 < m + 1
    BY <1>6, <1>7, <2>1
  <2> QED
    BY <2>1, <2>2
<1> QED
  BY <1>2, <1>3, <1>5, <1>7 DEF Commanded

\* Clients see nothing of a result, beyond the watchers it decides.
LEMMA ClientsUndisturbed ==
  ASSUME ControllerInvariant, NEW f, Onwards(f), UNCHANGED <<cmds, caller>>,
         \A i \in Ids : f[i] = "command" <=> fate[i] = "command"
  PROVE  Clients(cmds', fate', caller', reg', Tracked')
<1>1. /\ Commanded(cmds, fate, caller) /\ Called(caller, fate) /\ Told(caller, fate, reg)
      /\ Cardinality(Tracked) <= IdentityCap
  BY DEF ControllerInvariant
<1>2. Called(caller, fate') /\ Told(caller, fate', reg')
  <2>1. PICK g, r : g = fate' /\ r = reg'
    OBVIOUS
  <2>2. /\ \A i \in Ids : fate[i] \in Kinds \cup {"registry"} => g[i] = fate[i]
        /\ \A i \in Ids : fate[i] # "new" => g[i] # "new"
        /\ \A i \in Ids : reg[i] \in Leaving => r[i] \in Leaving
        /\ \A i \in Ids : reg[i] = "rejected" => r[i] = "rejected"
    BY <2>1 DEF Onwards
  <2>3. Called(caller, g) /\ Told(caller, g, r)
    BY <1>1, <2>2, ToldStays
  <2> QED
    BY <2>1, <2>3
<1>3. \A i \in Ids : fate'[i] = "command" <=> fate[i] = "command"
  BY DEF Onwards
<1>4. Sent(fate', caller) = Sent(fate, caller)
  BY <1>3 DEF Sent, Commands
<1>5. Commanded(cmds, fate', caller)
  BY <1>1, <1>4 DEF Commanded
<1>6. Tracked' = Tracked
  BY DEF Tracked
<1> QED
  BY <1>1, <1>2, <1>5, <1>6 DEF Clients

\* A submission leaves the channel, settled.
LEMMA ClientsServed ==
  ASSUME ControllerInvariant, NEW f, Onwards(f), UNCHANGED caller,
         cmds # <<>>, Head(cmds).op = "submit", cmds' = Tail(cmds),
         \A i \in Ids : f[i] = "command" <=> fate[i] = "command" /\ i # Head(cmds).id
  PROVE  Clients(cmds', fate', caller', reg', Tracked')
<1>1. /\ Commanded(cmds, fate, caller) /\ Called(caller, fate) /\ Told(caller, fate, reg)
      /\ Cardinality(Tracked) <= IdentityCap
  BY DEF ControllerInvariant
<1>2. Called(caller, fate') /\ Told(caller, fate', reg')
  <2>1. PICK g, r : g = fate' /\ r = reg'
    OBVIOUS
  <2>2. /\ \A i \in Ids : fate[i] \in Kinds \cup {"registry"} => g[i] = fate[i]
        /\ \A i \in Ids : fate[i] # "new" => g[i] # "new"
        /\ \A i \in Ids : reg[i] \in Leaving => r[i] \in Leaving
        /\ \A i \in Ids : reg[i] = "rejected" => r[i] = "rejected"
    BY <2>1 DEF Onwards
  <2>3. Called(caller, g) /\ Told(caller, g, r)
    BY <1>1, <2>2, ToldStays
  <2> QED
    BY <2>1, <2>3
<1>3. cmds # <<>> /\ Head(cmds).op = "submit" /\ cmds' = Tail(cmds)
  OBVIOUS
<1>4. Head(cmds) \in Sent(fate, caller)
  <2>1. PICK q, X : q = cmds /\ X = Sent(fate, caller)
    OBVIOUS
  <2>2. Lists(Commands, q, X) /\ q # <<>>
    BY <1>1, <1>3, <2>1 DEF Commanded
  <2> QED
    BY <2>1, <2>2, ListsTail
<1>5. Sent(fate', caller) = Sent(fate, caller) \ {Head(cmds)}
  <2>1. \A i \in Ids : fate'[i] = "command" <=> fate[i] = "command" /\ i # Head(cmds).id
    BY DEF Onwards
  <2>2. \A x \in Commands : x.op = "submit" => (x = Head(cmds) <=> x.id = Head(cmds).id)
    BY <1>3, <1>4 DEF Sent, Commands
  <2>3. \A x \in Commands : x.op = "manage" => x # Head(cmds)
    BY <1>3
  <2>4. \A x \in Commands : \/ x.op = "submit" /\ x.id \in Ids
                            \/ x.op = "manage" /\ x.by \in Callers
    BY DEF Commands
  <2> QED
    BY <2>1, <2>2, <2>3, <2>4 DEF Sent
<1>6. Commanded(cmds', fate', caller')
  <2>1. PICK q, f0, k, g, h : /\ q = cmds /\ f0 = fate /\ k = caller
                              /\ g = fate' /\ h = caller'
    OBVIOUS
  <2>2. Commanded(q, f0, k) /\ q # <<>> /\ Sent(g, h) = Sent(f0, k) \ {Head(q)}
    BY <1>1, <1>3, <1>5, <2>1
  <2>3. Commanded(Tail(q), g, h)
    BY <2>2, CommandTaken
  <2> QED
    BY <1>3, <2>1, <2>3
<1>7. Tracked' = Tracked
  BY DEF Tracked
<1> QED
  BY <1>1, <1>2, <1>6, <1>7 DEF Clients

(***************************************************************************)
(* The handlers.                                                           *)
(***************************************************************************)

\* The submissions of I are no longer in the channel.
Taken(f, I) == \A i \in Ids : f[i] = "command" <=> fate[i] = "command" /\ i \notin I

\* A handler worked on slot s and took the submissions of I from the channel.
Worked(s, I) ==
    /\ \E f : Settles(f) /\ Handled(s, f, completions') /\ Taken(f, I)
    /\ \A i \in Ids : slotOf[i] # s => (i \in completions' <=> i \in completions)
    /\ removals' \subseteq Ids /\ Cardinality(Present') <= MaxSlots

\* The result of an operation the loop tracks.
LEMMA ResultKeeps ==
  ASSUME ControllerInvariant, loop = "running", NEW s \in Slots, Worked(s, {}),
         UNCHANGED <<inputs, cmds, downVars, callVars>>
  PROVE  ControllerInvariant' /\ VerdictsKept
<1>1. PICK f : Settles(f) /\ Handled(s, f, completions') /\ Taken(f, {})
  BY DEF Worked
<1>2. fate \in [Ids -> Fates]
  BY DEF ControllerInvariant, Watched
<1>3. PICK comp : comp = completions'
  OBVIOUS
<1>4. Onwards(f)
  BY <1>1, <1>2, <1>3, HandledOnwards
<1>5. UNCHANGED <<cmds, caller>> /\ UNCHANGED <<inputs, downVars, target>>
  BY DEF callVars
<1>6. \A i \in Ids : f[i] = "command" <=> fate[i] = "command"
  BY <1>1 DEF Taken
<1>7. Clients(cmds', fate', caller', reg', Tracked')
  BY <1>4, <1>5, <1>6, ClientsUndisturbed
<1> QED
  BY <1>1, <1>5, <1>7, HandledKeeps DEF Worked

\* A submission that the loop took.
LEMMA SubmissionKeeps ==
  ASSUME ControllerInvariant, loop = "running", NEW s \in Slots, Taking("submit"),
         NEW i, i = Head(cmds).id, Worked(s, {i}),
         UNCHANGED <<inputs, downVars, callVars>>
  PROVE  ControllerInvariant' /\ VerdictsKept
<1>1. PICK f : Settles(f) /\ Handled(s, f, completions') /\ Taken(f, {i})
  BY DEF Worked
<1>2. fate \in [Ids -> Fates]
  BY DEF ControllerInvariant, Watched
<1>3. PICK comp : comp = completions'
  OBVIOUS
<1>4. Onwards(f)
  BY <1>1, <1>2, <1>3, HandledOnwards
<1>5. UNCHANGED caller /\ UNCHANGED <<inputs, downVars, target>>
  BY DEF callVars
<1>6. \A j \in Ids : f[j] = "command" <=> fate[j] = "command" /\ j # Head(cmds).id
  BY <1>1 DEF Taken
<1>7. Clients(cmds', fate', caller', reg', Tracked')
  BY <1>4, <1>5, <1>6, ClientsServed DEF Taking
<1> QED
  BY <1>1, <1>5, <1>7, HandledKeeps DEF Worked

\* The map holds no more slots than before, or there was room for one more.
LEMMA StillRoom ==
  ASSUME Cardinality(Present) <= MaxSlots, NEW s \in Slots, Present' \subseteq Present \cup {s},
         s \in Present \/ Cardinality(Present) < MaxSlots
  PROVE  Cardinality(Present') <= MaxSlots
<1>1. PICK P, Q : P = Present /\ Q = Present'
  OBVIOUS
<1>2. P \subseteq Slots /\ Q \subseteq P \cup {s}
  BY <1>1 DEF Present
<1>3. /\ IsFiniteSet(P) /\ Cardinality(P) \in Nat /\ IsFiniteSet(P \cup {s})
      /\ Cardinality(P \cup {s}) \in Nat /\ Cardinality(Q) \in Nat
  BY <1>2, SlotsFinite
<1>4. Cardinality(Q) <= Cardinality(P \cup {s})
  BY <1>2, <1>3, FS_Subset
<1>5. CASE s \in P
  <2>1. P \cup {s} = P
    BY <1>5
  <2> QED
    BY <1>1, <1>3, <1>4, <2>1, ControllerAssumption
<1>6. CASE s \notin P
  <2>1. Cardinality(P \cup {s}) = Cardinality(P) + 1
    BY <1>3, <1>6, FS_AddElement
  <2>2. Cardinality(P) < MaxSlots
    BY <1>1, <1>6
  <2> QED
    BY <1>1, <1>3, <1>4, <2>1, <2>2, ControllerAssumption
<1> QED
  BY <1>5, <1>6

\* What a handler finds while the loop runs.
LEMMA HandlerFinds ==
  ASSUME ControllerInvariant, loop = "running"
  PROVE  /\ Inputs /\ Lines /\ removals \subseteq Ids
         /\ Watched(fate, indexed, capacity, {}) /\ Reserved(pump, capacity)
         /\ Known(fate, reg, admissions, completions, {})
         /\ Awaited(reg, admissions, completions)
         /\ slots \in [Slots -> SlotRecord] /\ queue \in [Slots -> Seq(Ids)]
         /\ \A s \in Slots : /\ Lined(s, slots[s].phase, queue[s], indexed)
                             /\ Serves(s, slots[s], capacity, admissions, completions)
         /\ Cardinality(Present) <= MaxSlots
         /\ token => gate = "closed"
BY DEF ControllerInvariant, Lines, Running, Course

\* A submission in the channel is nowhere else.
LEMMA Incoming ==
  ASSUME ControllerInvariant, NEW i \in Ids, fate[i] = "command"
  PROVE  /\ i \notin indexed \cup capacity \cup admissions \cup completions
         /\ reg[i] = "none" /\ slotOf[i] \in Slots
<1>1. /\ \A j \in Ids \ {} : fate[j] = "controller" <=> j \in indexed \cup capacity
      /\ \A j \in Ids \ {} : fate[j] = "registry" <=> reg[j] # "none"
      /\ \A j \in admissions \cup completions : reg[j] # "none"
      /\ slotOf \in [Ids -> Slots]
  BY DEF ControllerInvariant, Watched, Known, Inputs
<1> QED
  BY <1>1

\* Only the sender of the submission changes.
LEMMA TurnsAway ==
  ASSUME ControllerInvariant, loop = "running", NEW i \in Ids, fate[i] = "command",
         NEW kind \in Kinds, TurnAway(i, kind), UNCHANGED completions
  PROVE  Worked(slotOf[i], {i})
<1>1. PICK s, f : s = slotOf[i] /\ f = [fate EXCEPT ![i] = kind]
  OBVIOUS
<1>2. /\ fate' = f /\ capacity' = capacity /\ pump' = pump /\ admissions' = admissions
      /\ reg' = reg /\ slots' = slots /\ queue' = queue /\ indexed' = indexed
      /\ removals' = removals /\ completions' = completions
  BY <1>1 DEF TurnAway, Leave, Base, slotVars
<1>3. /\ i \notin indexed \cup capacity \cup admissions \cup completions
      /\ reg[i] = "none" /\ s \in Slots
  BY <1>1, Incoming
<1>4. /\ fate \in [Ids -> Fates] /\ "controller" \notin Kinds /\ "command" \notin Kinds
      /\ "registry" \notin Kinds /\ Kinds \subseteq Fates
  BY HandlerFinds DEF Watched, Kinds, Fates
<1>5. f \in [Ids -> Fates] /\ f[i] = kind /\ \A j \in Ids : j # i => f[j] = fate[j]
  BY <1>1, <1>4
<1>6. Watched(f, indexed, capacity, {})
  BY <1>3, <1>4, <1>5, HandlerFinds DEF Watched
<1>7. Known(f, reg, admissions, completions, {})
  BY <1>3, <1>4, <1>5, HandlerFinds DEF Known
<1>8. Handled(s, f, completions')
  BY <1>2, <1>3, <1>6, <1>7, HandlerFinds DEF Handled
<1>9. Settles(f)
  BY <1>5 DEF Settles
<1>10. Taken(f, {i})
  BY <1>4, <1>5 DEF Taken
<1>11. removals' \subseteq Ids /\ Cardinality(Present') <= MaxSlots
  BY <1>2, HandlerFinds DEF Present
<1> QED
  BY <1>1, <1>2, <1>8, <1>9, <1>10, <1>11 DEF Worked

\* Nobody holds a vacant slot, and nobody waits for it while admission is open.
LEMMA VacantIsFree ==
  ASSUME ControllerInvariant, loop = "running", NEW s \in Slots, Vacant(s)
  PROVE  /\ \A j \in capacity \cup admissions \cup completions : slotOf[j] # s
         /\ gate = "closed" \/ queue[s] = <<>>
<1>1. /\ Serves(s, slots[s], capacity, admissions, completions)
      /\ Lined(s, slots[s].phase, queue[s], indexed)
      /\ capacity \subseteq Ids /\ admissions \subseteq Ids /\ completions \subseteq Ids
      /\ gate \in {"open", "closed"}
  BY HandlerFinds DEF Watched, Known, ControllerInvariant, Course
<1>2. slots[s].owner = NoId /\ NoId \notin Ids
  BY <1>1, ControllerAssumption DEF Vacant, Serves
<1>3. \A j \in capacity \cup admissions \cup completions : slotOf[j] # s
  BY <1>1, <1>2 DEF Serves
<1>4. gate = "closed" \/ queue[s] = <<>>
  BY <1>1 DEF Vacant, Lined
<1> QED
  BY <1>3, <1>4

\* The submission owns an idle slot, or is given back and leaves it idle.
LEMMA AdmitsIdle ==
  ASSUME ControllerInvariant, loop = "running", NEW i \in Ids, fate[i] = "command",
         AdmitIdle(i), UNCHANGED completions
  PROVE  Worked(slotOf[i], {i})
<1>1. PICK s, comp : s = slotOf[i] /\ comp = completions
  OBVIOUS
<1>2. /\ i \notin indexed \cup capacity \cup admissions \cup completions
      /\ reg[i] = "none" /\ s \in Slots
  BY <1>1, Incoming
<1>3. /\ Vacant(s) /\ removals' = removals
      /\ s \in Present \/ Cardinality(Present) < MaxSlots
  BY <1>1 DEF AdmitIdle
<1>4. /\ \A j \in capacity \cup admissions \cup comp : slotOf[j] # s
      /\ gate = "closed" \/ queue[s] = <<>>
  BY <1>1, <1>2, <1>3, VacantIsFree
<1>5. /\ fate \in [Ids -> Fates] /\ "controller" \notin Kinds /\ "command" \notin Kinds
      /\ "registry" \notin Kinds /\ Kinds \subseteq Fates /\ "HandoffFailed" \in Kinds
      /\ gate = "open" => gate # "closed"
  BY HandlerFinds DEF Watched, Kinds, Fates
<1>6. ASSUME NEW f, Settles(f), Handled(s, f, comp), Present' \subseteq Present \cup {s},
             Taken(f, {i})
      PROVE  Worked(slotOf[i], {i})
  <2>1. Cardinality(Present') <= MaxSlots
    BY <1>2, <1>3, <1>6, HandlerFinds, StillRoom
  <2>2. removals' \subseteq Ids
    BY <1>3, HandlerFinds
  <2> QED
    BY <1>1, <1>6, <2>1, <2>2 DEF Worked
<1>7. CASE StartInSlot(s, i, PendingLen, Base) /\ UNCHANGED <<queue, indexed>>
  <2>1. PICK b, n, x : b = Base /\ n = PendingLen /\ x = indexed
    OBVIOUS
  <2>2. /\ b.fate = fate /\ b.capacity = capacity /\ b.pump = pump
        /\ b.admissions = admissions
    BY <2>1 DEF Base
  <2>3. Watched(b.fate, x, b.capacity, {i})
    BY <1>2, <2>1, <2>2, HandlerFinds DEF Watched
  <2>4. Known(b.fate, reg, b.admissions, comp, {i})
    BY <1>1, <1>2, <2>2, HandlerFinds DEF Known
  <2>5. /\ Reserved(b.pump, b.capacity) /\ Awaited(reg, b.admissions, comp)
        /\ \A j \in b.capacity \cup b.admissions \cup comp : slotOf[j] # s
        /\ Inputs /\ slots \in [Slots -> SlotRecord]
        /\ queue \in [Slots -> Seq(Ids)] /\ Lined(s, slots[s].phase, queue[s], indexed)
    BY <1>1, <1>2, <1>4, <2>2, HandlerFinds
  <2>6. n = Cardinality(x) + Cardinality(b.capacity) /\ StartInSlot(s, i, n, b)
    BY <1>7, <2>1, <2>2 DEF PendingLen
  <2>7. Started(s, i, b, x, comp)
    BY <1>1, <2>3, <2>4, <2>5, <2>6, Starts
  <2>8. PICK f : f = [fate EXCEPT ![i] = "controller"]
    OBVIOUS
  <2>9. f[i] = "controller" /\ \A j \in Ids : j # i => f[j] = fate[j]
    BY <1>5, <2>8
  <2>10. queue' = queue /\ indexed' = indexed
    BY <1>7
  <2>11. queue[s] = <<>> /\ gate = "open"
    BY <1>4, <1>5, <2>7 DEF Started
  <2>12. Lined(s, slots'[s].phase, queue'[s], indexed')
    <3>1. Len(queue[s]) = 0 /\ DOMAIN queue[s] = {}
      BY <2>11
    <3> QED
      BY <2>5, <2>7, <2>10, <2>11, <3>1 DEF Started, Lined
  <2>13. \A j \in Ids : slotOf[j] # s => j # i
    BY <1>1
  <2>14. Handled(s, f, comp)
    BY <1>2, <2>1, <2>2, <2>5, <2>7, <2>9, <2>10, <2>12, <2>13 DEF Handled, Started
  <2>15. Settles(f)
    BY <2>9 DEF Settles
  <2>16. Taken(f, {i})
    BY <2>9 DEF Taken
  <2>17. Present' \subseteq Present \cup {s}
    BY <2>7 DEF Present, Started
  <2> QED
    BY <1>6, <2>14, <2>15, <2>16, <2>17
<1>8. CASE Vacate(s, [Base EXCEPT !.fate = [fate EXCEPT ![i] = "HandoffFailed"]])
  <2>1. PICK b : b = [Base EXCEPT !.fate = [fate EXCEPT ![i] = "HandoffFailed"]]
    OBVIOUS
  <2>2. /\ b.fate = [fate EXCEPT ![i] = "HandoffFailed"] /\ b.capacity = capacity
        /\ b.pump = pump /\ b.admissions = admissions
    BY <2>1 DEF Base
  <2>3. /\ b.fate \in [Ids -> Fates] /\ b.fate[i] = "HandoffFailed"
        /\ \A j \in Ids : j # i => b.fate[j] = fate[j]
    BY <1>5, <2>2
  <2>4. Watched(b.fate, indexed, b.capacity, {})
    BY <1>2, <1>5, <2>2, <2>3, HandlerFinds DEF Watched
  <2>5. Known(b.fate, reg, b.admissions, comp, {})
    BY <1>1, <1>2, <1>5, <2>2, <2>3, HandlerFinds DEF Known
  <2>6. /\ Reserved(b.pump, b.capacity) /\ Awaited(reg, b.admissions, comp)
        /\ \A j \in b.capacity \cup b.admissions \cup comp : slotOf[j] # s
        /\ \A j \in Ids : slotOf[j] # s => /\ j \in b.capacity <=> j \in capacity
                                           /\ j \in b.admissions <=> j \in admissions
        /\ Inputs /\ Lines
    BY <1>1, <1>2, <1>4, <2>2, HandlerFinds
  <2>7. Handled(s, b.fate, comp) /\ Present' \subseteq Present \cup {s}
    BY <1>2, <1>4, <1>8, <2>1, <2>4, <2>5, <2>6, Vacates
  <2>8. PICK f : f = b.fate
    OBVIOUS
  <2>9. Settles(f) /\ Taken(f, {i})
    BY <1>5, <2>3, <2>8 DEF Settles, Taken
  <2> QED
    BY <1>6, <2>7, <2>8, <2>9
<1> QED
  BY <1>1, <1>7, <1>8 DEF AdmitIdle

\* The submission joins the queue of an occupied slot.
LEMMA QueuesUp ==
  ASSUME ControllerInvariant, loop = "running", NEW i \in Ids, fate[i] = "command",
         ~Vacant(slotOf[i]), policy[i] = "Queue", ~QueueFull(slotOf[i]),
         PushQueued(i, slotOf[i]),
         Leave([Base EXCEPT !.fate = [fate EXCEPT ![i] = "controller"]]),
         UNCHANGED <<slots, removals, completions>>
  PROVE  Worked(slotOf[i], {i})
<1>1. PICK s, f, q : s = slotOf[i] /\ f = [fate EXCEPT ![i] = "controller"] /\ q = queue[s]
  OBVIOUS
<1>2. /\ fate' = f /\ capacity' = capacity /\ pump' = pump /\ admissions' = admissions
      /\ reg' = reg /\ slots' = slots /\ removals' = removals /\ completions' = completions
      /\ queue' = [queue EXCEPT ![s] = Append(q, i)] /\ indexed' = indexed \cup {i}
      /\ PendingLen < MaxPending
  BY <1>1 DEF Leave, Base, PushQueued
<1>3. /\ i \notin indexed \cup capacity \cup admissions \cup completions
      /\ reg[i] = "none" /\ s \in Slots
  BY <1>1, Incoming
<1>4. fate \in [Ids -> Fates] /\ "controller" \in Fates /\ queue \in [Slots -> Seq(Ids)]
  BY HandlerFinds DEF Watched, Fates
<1>5. f \in [Ids -> Fates] /\ f[i] = "controller" /\ \A j \in Ids : j # i => f[j] = fate[j]
  BY <1>1, <1>4
<1>6. Watched(f, indexed', capacity, {})
  <2>1. /\ indexed \subseteq Ids /\ capacity \subseteq Ids /\ indexed \cap capacity = {}
        /\ \A j \in Ids : fate[j] = "controller" <=> j \in indexed \cup capacity
    BY HandlerFinds DEF Watched
  <2>2. Cardinality(indexed') = Cardinality(indexed) + 1
    <3>1. PICK x : x = indexed
      OBVIOUS
    <3>2. x \subseteq Ids /\ i \notin x /\ indexed' = x \cup {i}
      BY <1>2, <1>3, <2>1, <3>1
    <3> QED
      BY <3>1, <3>2, OneMoreWaits
  <2>3. Cardinality(indexed) \in Nat /\ Cardinality(capacity) \in Nat /\ MaxPending \in Nat
    BY <2>1, SubmissionsFinite, ControllerAssumption
  <2>4. Cardinality(indexed) + Cardinality(capacity) < MaxPending
    BY <1>2 DEF PendingLen
  <2>5. Cardinality(indexed') + Cardinality(capacity) <= MaxPending
    BY <2>2, <2>3, <2>4
  <2> QED
    BY <1>2, <1>3, <1>5, <2>1, <2>5 DEF Watched
<1>7. Known(f, reg, admissions, completions, {})
  BY <1>3, <1>5, HandlerFinds DEF Known
<1>8. /\ Lined(s, slots[s].phase, q, indexed) /\ q \in Seq(Ids) /\ Len(q) \in Nat
      /\ Lists(Ids, q, Queued(s, indexed))
  BY <1>1, <1>3, <1>4, HandlerFinds DEF Lined
<1>9. PICK p, X : p = Append(q, i) /\ X = Queued(s, indexed)
  OBVIOUS
<1>10. Lists(Ids, p, X \cup {i}) /\ Len(p) = Len(q) + 1
  <2>1. i \notin X /\ Lists(Ids, q, X)
    BY <1>3, <1>8, <1>9 DEF Queued
  <2> QED
    BY <1>9, <2>1, ListsAppend
<1>11. Queued(s, indexed') = X \cup {i}
  BY <1>1, <1>2, <1>9 DEF Queued
<1>12. Len(p) <= MaxSlotQueue
  <2>1. ~(Len(q) >= MaxSlotQueue)
    BY <1>1 DEF QueueFull
  <2> QED
    BY <1>8, <1>10, <2>1, ControllerAssumption
<1>13. ASSUME NEW m \in DOMAIN p, policy[p[m]] = "Replace"
       PROVE  m = 1 /\ (slots[s].phase \in {"cancelPending", "terminating"} \/ gate = "closed")
  <2>1. CASE m = Len(q) + 1
    <3>1. p[m] = i
      BY <1>8, <1>9, <2>1
    <3> QED
      BY <1>13, <3>1
  <2>2. CASE m # Len(q) + 1
    <3>1. m \in DOMAIN q /\ p[m] = q[m]
      BY <1>8, <1>9, <2>2
    <3> QED
      BY <1>8, <1>13, <3>1 DEF Lined
  <2> QED
    BY <2>1, <2>2
<1>14. /\ queue' \in [Slots -> Seq(Ids)] /\ queue'[s] = p
       /\ \A t \in Slots : t # s => queue'[t] = queue[t]
  BY <1>2, <1>3, <1>4, <1>8, <1>9
<1>15. Lined(s, slots'[s].phase, queue'[s], indexed')
  <2>1. slots[s].phase # "idle" /\ slots[s].phase # "absent"
    BY <1>1 DEF Vacant
  <2> QED
    BY <1>2, <1>10, <1>11, <1>12, <1>13, <1>14, <2>1 DEF Lined
<1>16. Handled(s, f, completions')
  <2>1. \A j \in Ids : slotOf[j] # s => (j \in indexed' <=> j \in indexed)
    BY <1>1, <1>2
  <2> QED
    BY <1>2, <1>3, <1>6, <1>7, <1>14, <1>15, <2>1, HandlerFinds DEF Handled
<1>17. Settles(f) /\ Taken(f, {i})
  BY <1>5 DEF Settles, Taken
<1>18. removals' \subseteq Ids /\ Cardinality(Present') <= MaxSlots
  BY <1>2, HandlerFinds DEF Present
<1> QED
  BY <1>1, <1>2, <1>16, <1>17, <1>18 DEF Worked

\* request_replacement: the owner of an occupied slot is on its way out.
LEMMA Retires ==
  ASSUME ControllerInvariant, loop = "running", NEW s \in Slots, ~Vacant(s), Retire(s)
  PROVE  /\ slots' \in [Slots -> SlotRecord]
         /\ \A t \in Slots : t # s => slots'[t] = slots[t]
         /\ slots'[s].phase \in {"cancelPending", "terminating"}
         /\ Serves(s, slots'[s], capacity, admissions, completions)
         /\ removals' \subseteq Ids /\ Cardinality(Present') <= MaxSlots
<1>1. PICK e : e = slots[s]
  OBVIOUS
<1>2. /\ slots \in [Slots -> SlotRecord] /\ Serves(s, e, capacity, admissions, completions)
      /\ removals \subseteq Ids /\ completions \subseteq Ids
      /\ Cardinality(Present) <= MaxSlots
  BY <1>1, HandlerFinds DEF Known
<1>3. /\ e \in SlotRecord /\ e.owner \in Ids \cup {NoId}
      /\ e.phase \in {"admitting", "cancelPending", "running", "terminating"}
  BY <1>1, <1>2 DEF SlotRecord, Phases, Vacant
<1>4. ASSUME NEW ph \in {"cancelPending", "terminating"}, slots' = [slots EXCEPT ![s].phase = ph],
             e.phase \in {"admitting", "cancelPending"} <=> ph = "cancelPending"
      PROVE  /\ slots' \in [Slots -> SlotRecord]
             /\ \A t \in Slots : t # s => slots'[t] = slots[t]
             /\ slots'[s].phase \in {"cancelPending", "terminating"}
             /\ Serves(s, slots'[s], capacity, admissions, completions)
             /\ Cardinality(Present') <= MaxSlots
  <2>1. PICK d : d = [e EXCEPT !.phase = ph]
    OBVIOUS
  <2>2. d \in SlotRecord /\ d.phase = ph /\ d.owner = e.owner
    BY <1>3, <2>1 DEF SlotRecord, Phases
  <2>3. slots' = [slots EXCEPT ![s] = d]
    BY <1>1, <1>4, <2>1
  <2>4. /\ slots' \in [Slots -> SlotRecord] /\ slots'[s] = d
        /\ \A t \in Slots : t # s => slots'[t] = slots[t]
    BY <1>2, <2>2, <2>3
  <2>5. Serves(s, d, capacity, admissions, completions)
    BY <1>2, <1>3, <1>4, <2>2 DEF Serves
  <2>6. Present' = Present
    BY <1>1, <1>3, <1>4, <2>2, <2>4 DEF Present
  <2> QED
    BY <1>2, <2>2, <2>4, <2>5, <2>6
<1>5. CASE /\ e.phase = "running" /\ slots' = [slots EXCEPT ![s].phase = "terminating"]
           /\ removals' = removals \cup {e.owner}
  <2>1. e.owner \in Ids
    BY <1>2, <1>5 DEF Serves
  <2>2. PICK ph : ph = "terminating"
    OBVIOUS
  <2>3. /\ ph \in {"cancelPending", "terminating"} /\ slots' = [slots EXCEPT ![s].phase = ph]
        /\ e.phase \in {"admitting", "cancelPending"} <=> ph = "cancelPending"
    BY <1>5, <2>2
  <2> QED
    BY <1>2, <1>4, <1>5, <2>1, <2>3
<1>6. CASE /\ e.phase = "admitting" /\ slots' = [slots EXCEPT ![s].phase = "cancelPending"]
           /\ removals' = removals
  <2>1. PICK ph : ph = "cancelPending"
    OBVIOUS
  <2>2. /\ ph \in {"cancelPending", "terminating"} /\ slots' = [slots EXCEPT ![s].phase = ph]
        /\ e.phase \in {"admitting", "cancelPending"} <=> ph = "cancelPending"
    BY <1>6, <2>1
  <2> QED
    BY <1>2, <1>4, <1>6, <2>2
<1>7. CASE e.phase \notin {"running", "admitting"} /\ slots' = slots /\ removals' = removals
  <2>1. e.phase \in {"cancelPending", "terminating"}
    BY <1>3, <1>7
  <2>2. Present' = Present
    BY <1>7 DEF Present
  <2> QED
    BY <1>1, <1>2, <1>7, <2>1, <2>2
<1> QED
  BY <1>1, <1>5, <1>6, <1>7 DEF Retire

\* The submission takes the head of the queue and the place of whoever
\* waited there, or is the first to wait.
LEMMA Replaces ==
  ASSUME ControllerInvariant, loop = "running", NEW i \in Ids, fate[i] = "command",
         ~Vacant(slotOf[i]), ReplaceHead(i, slotOf[i]) \/ PushHead(i, slotOf[i]),
         Retire(slotOf[i]), UNCHANGED <<capacity, pump, admissions, reg, completions>>
  PROVE  Worked(slotOf[i], {i})
<1>1. PICK s, f, q, p, x : /\ s = slotOf[i] /\ f = fate' /\ q = queue[s] /\ p = queue'[s]
                           /\ x = indexed'
  OBVIOUS
<1>2. /\ i \notin indexed \cup capacity \cup admissions \cup completions
      /\ reg[i] = "none" /\ s \in Slots
  BY <1>1, Incoming
<1>3. /\ fate \in [Ids -> Fates] /\ "controller" \in Fates /\ queue \in [Slots -> Seq(Ids)]
      /\ "SupersededByReplace" \in Kinds /\ Kinds \subseteq Fates
      /\ {"controller", "command", "registry"} \cap Kinds = {}
      /\ indexed \subseteq Ids /\ capacity \subseteq Ids /\ indexed \cap capacity = {}
      /\ \A j \in Ids : fate[j] = "controller" <=> j \in indexed \cup capacity
      /\ Cardinality(indexed) + Cardinality(capacity) <= MaxPending
      /\ Cardinality(indexed) \in Nat /\ Cardinality(capacity) \in Nat /\ MaxPending \in Nat
  BY HandlerFinds, SubmissionsFinite, ControllerAssumption DEF Watched, Fates, Kinds
<1>4. /\ Lined(s, slots[s].phase, q, indexed) /\ q \in Seq(Ids) /\ Len(q) \in Nat
      /\ Lists(Ids, q, Queued(s, indexed)) /\ i \notin Queued(s, indexed)
      /\ Len(q) <= MaxSlotQueue \/ Len(q) = 1
      /\ \A m \in DOMAIN q : policy[q[m]] = "Replace" => m = 1
  <2>1. Lined(s, slots[s].phase, q, indexed) /\ q \in Seq(Ids)
    BY <1>1, <1>2, <1>3, HandlerFinds
  <2>2. Len(q) \in Nat
    BY <2>1
  <2>3. i \notin Queued(s, indexed)
    BY <1>2 DEF Queued
  <2> QED
    BY <2>1, <2>2, <2>3 DEF Lined
<1>5. /\ slots' \in [Slots -> SlotRecord]
      /\ \A t \in Slots : t # s => slots'[t] = slots[t]
      /\ slots'[s].phase \in {"cancelPending", "terminating"}
      /\ Serves(s, slots'[s], capacity, admissions, completions)
      /\ removals' \subseteq Ids /\ Cardinality(Present') <= MaxSlots
  BY <1>1, <1>2, Retires
<1>6. ASSUME Lists(Ids, p, Queued(s, x)), Len(p) <= MaxSlotQueue \/ Len(p) = 1,
             \A m \in DOMAIN p : policy[p[m]] = "Replace" => m = 1,
             queue' = [queue EXCEPT ![s] = p],
             Watched(f, x, capacity, {}), Settles(f), Taken(f, {i}),
             \A j \in Ids : f[j] = "registry" <=> fate[j] = "registry",
             \A j \in Ids : slotOf[j] # s => (j \in x <=> j \in indexed)
      PROVE  Worked(slotOf[i], {i})
  <2>1. p \in Seq(Ids)
    BY <1>6 DEF Lists
  <2>2. queue' \in [Slots -> Seq(Ids)] /\ \A t \in Slots : t # s => queue'[t] = queue[t]
    BY <1>3, <1>6, <2>1
  <2>3. Known(f, reg, admissions, completions, {})
    BY <1>6, HandlerFinds DEF Known
  <2>4. Lined(s, slots'[s].phase, p, x)
    BY <1>5, <1>6 DEF Lined
  <2>5. Handled(s, f, completions')
    BY <1>1, <1>5, <1>6, <2>2, <2>3, <2>4, HandlerFinds DEF Handled
  <2> QED
    BY <1>1, <1>5, <1>6, <2>5 DEF Worked
<1>7. CASE ReplaceHead(i, s)
  <2>1. PICK h : h = Head(q)
    OBVIOUS
  <2>2. /\ q # <<>> /\ queue' = [queue EXCEPT ![s][1] = i] /\ x = (indexed \ {h}) \cup {i}
        /\ f = [fate EXCEPT ![i] = "controller", ![h] = "SupersededByReplace"]
    BY <1>1, <1>7, <2>1 DEF ReplaceHead
  <2>3. PICK X, r : X = Queued(s, indexed) /\ r = [q EXCEPT ![1] = i]
    OBVIOUS
  <2>4. Lists(Ids, q, X) /\ i \notin X
    BY <1>4, <2>3
  <2>5. /\ Lists(Ids, r, (X \ {h}) \cup {i}) /\ Len(r) = Len(q) /\ h \in X
        /\ DOMAIN r = DOMAIN q /\ r[1] = i /\ \A m \in DOMAIN q : m # 1 => r[m] = q[m]
    <3>1. q # <<>>
      BY <2>2
    <3>2. LET e == [q EXCEPT ![1] = i]
          IN /\ Lists(Ids, e, (X \ {Head(q)}) \cup {i}) /\ Len(e) = Len(q) /\ Head(q) \in X
             /\ DOMAIN e = DOMAIN q /\ e[1] = i /\ \A m \in DOMAIN q : m # 1 => e[m] = q[m]
      BY <2>4, <3>1, ListsReplace
    <3> QED
      BY <2>1, <2>3, <3>2
  <2>6. queue' = [queue EXCEPT ![s] = r]
    BY <1>1, <2>2, <2>3
  <2>7. p = r
    BY <1>1, <1>2, <1>3, <2>6
  <2>8. h \in indexed /\ slotOf[h] = s /\ h # i /\ h \in Ids /\ fate[h] = "controller"
    BY <1>2, <1>3, <2>3, <2>5 DEF Queued
  <2>9. Queued(s, x) = (X \ {h}) \cup {i}
    BY <1>1, <2>2, <2>3 DEF Queued
  <2>10. /\ f \in [Ids -> Fates] /\ f[i] = "controller" /\ f[h] = "SupersededByReplace"
         /\ \A j \in Ids : j # i /\ j # h => f[j] = fate[j]
    BY <1>3, <2>2, <2>8
  <2>11. Cardinality(x) = Cardinality(indexed)
    <3>1. PICK y : y = indexed \ {h}
      OBVIOUS
    <3>2. IsFiniteSet(indexed) /\ y \subseteq Ids /\ i \notin y
      BY <1>2, <1>3, <3>1, SubmissionsFinite
    <3>3. Cardinality(y) = Cardinality(indexed) - 1
      BY <2>8, <3>1, <3>2, FS_RemoveElement
    <3>4. Cardinality(y \cup {i}) = Cardinality(y) + 1
      BY <3>2, OneMoreWaits
    <3> QED
      BY <1>3, <2>2, <3>1, <3>3, <3>4
  <2>12. Watched(f, x, capacity, {})
    BY <1>2, <1>3, <2>2, <2>8, <2>10, <2>11 DEF Watched
  <2>13. Settles(f) /\ Taken(f, {i})
    BY <1>3, <2>8, <2>10 DEF Settles, Taken
  <2>14. \A j \in Ids : f[j] = "registry" <=> fate[j] = "registry"
    BY <1>3, <2>8, <2>10
  <2>15. \A j \in Ids : slotOf[j] # s => (j \in x <=> j \in indexed)
    BY <1>1, <2>2, <2>8
  <2>16. \A m \in DOMAIN p : policy[p[m]] = "Replace" => m = 1
    BY <1>4, <2>5, <2>7
  <2> QED
    BY <1>4, <1>6, <2>5, <2>6, <2>7, <2>9, <2>12, <2>13, <2>14, <2>15, <2>16
<1>8. CASE PushHead(i, s)
  <2>1. /\ q = <<>> /\ queue' = [queue EXCEPT ![s] = <<i>>] /\ x = indexed \cup {i}
        /\ f = [fate EXCEPT ![i] = "controller"] /\ PendingLen < MaxPending
    BY <1>1, <1>8 DEF PushHead
  <2>2. p = <<i>>
    BY <1>1, <1>2, <1>3, <2>1
  <2>3. Queued(s, indexed) = {}
    <3>1. PICK X : X = Queued(s, indexed)
      OBVIOUS
    <3> QED
      BY <1>4, <2>1, <3>1, ListsNothing
  <2>4. Queued(s, x) = {i}
    BY <1>1, <2>1, <2>3 DEF Queued
  <2>5. Lists(Ids, p, {i})
    <3>1. p \in Seq(Ids) /\ Len(p) = 1 /\ p[1] = i /\ 1..Len(p) = {1}
      BY <2>2
    <3> QED
      BY <3>1, ListsByPlace
  <2>6. Len(p) = 1 /\ DOMAIN p = {1}
    BY <2>2
  <2>7. f \in [Ids -> Fates] /\ f[i] = "controller" /\ \A j \in Ids : j # i => f[j] = fate[j]
    BY <1>3, <2>1
  <2>8. Cardinality(x) = Cardinality(indexed) + 1
    <3>1. PICK y : y = indexed
      OBVIOUS
    <3>2. y \subseteq Ids /\ i \notin y /\ x = y \cup {i}
      BY <1>2, <1>3, <2>1, <3>1
    <3> QED
      BY <3>1, <3>2, OneMoreWaits
  <2>9. Cardinality(x) + Cardinality(capacity) <= MaxPending
    <3>1. Cardinality(indexed) + Cardinality(capacity) < MaxPending
      BY <2>1 DEF PendingLen
    <3> QED
      BY <1>3, <2>8, <3>1
  <2>10. Watched(f, x, capacity, {})
    BY <1>2, <1>3, <2>1, <2>7, <2>9 DEF Watched
  <2>11. Settles(f) /\ Taken(f, {i})
    BY <1>3, <2>7 DEF Settles, Taken
  <2>12. \A j \in Ids : f[j] = "registry" <=> fate[j] = "registry"
    BY <2>7
  <2>13. \A j \in Ids : slotOf[j] # s => (j \in x <=> j \in indexed)
    BY <1>1, <2>1
  <2> QED
    BY <1>6, <2>1, <2>2, <2>4, <2>5, <2>6, <2>10, <2>11, <2>12, <2>13
<1> QED
  BY <1>1, <1>7, <1>8

\* The command that the loop takes is one that was sent and not answered.
LEMMA HeadWasSent ==
  ASSUME ControllerInvariant, cmds # <<>>
  PROVE  /\ Head(cmds) \in Sent(fate, caller)
         /\ Head(cmds).op = "submit" => Head(cmds).id \in Ids /\ fate[Head(cmds).id] = "command"
         /\ Head(cmds).op = "manage" => Head(cmds).by \in Callers /\ caller[Head(cmds).by] = "sent"
<1>1. PICK q, X : q = cmds /\ X = Sent(fate, caller)
  OBVIOUS
<1>2. Lists(Commands, q, X) /\ q # <<>>
  BY <1>1 DEF ControllerInvariant, Commanded
<1>3. Head(cmds) \in Sent(fate, caller)
  BY <1>1, <1>2, ListsTail
<1> QED
  BY <1>3 DEF Sent, Commands

\* handle_submission, whichever way it goes.
LEMMA Submissions ==
  ASSUME ControllerInvariant, HandleSubmission
  PROVE  ControllerInvariant' /\ VerdictsKept
<1>1. PICK i : i = Head(cmds).id
  OBVIOUS
<1>2. /\ Taking("submit") /\ loop = "running" /\ cmds # <<>> /\ Head(cmds).op = "submit"
      /\ UNCHANGED <<inputs, downVars, callVars>> /\ UNCHANGED completions
      /\ RejectEarly(i) \/ AdmitIdle(i) \/ PlaceQueue(i) \/ PlaceReplace(i)
  BY <1>1 DEF HandleSubmission, Taking
<1>3. i \in Ids /\ fate[i] = "command" /\ slotOf[i] \in Slots
  BY <1>1, <1>2, HeadWasSent, Incoming
<1>4. {"ControllerShuttingDown", "ResourceLimit", "SlotBusy", "QueueFull"} \subseteq Kinds
  BY DEF Kinds
<1>5. CASE \E kind \in Kinds : TurnAway(i, kind)
  <2>1. Worked(slotOf[i], {i})
    BY <1>2, <1>3, <1>5, TurnsAway
  <2> QED
    BY <1>1, <1>2, <1>3, <2>1, SubmissionKeeps
<1>6. CASE RejectEarly(i)
  BY <1>4, <1>5, <1>6 DEF RejectEarly
<1>7. CASE AdmitIdle(i)
  <2>1. Worked(slotOf[i], {i})
    BY <1>2, <1>3, <1>7, AdmitsIdle
  <2> QED
    BY <1>1, <1>2, <1>3, <2>1, SubmissionKeeps
<1>8. CASE PlaceQueue(i)
  <2>1. CASE \E kind \in Kinds : TurnAway(i, kind)
    BY <1>5, <2>1
  <2>2. CASE /\ ~QueueFull(slotOf[i]) /\ PushQueued(i, slotOf[i])
             /\ Leave([Base EXCEPT !.fate = [fate EXCEPT ![i] = "controller"]])
             /\ UNCHANGED <<slots, removals>>
    <3>1. ~Vacant(slotOf[i]) /\ policy[i] = "Queue" /\ UNCHANGED <<slots, removals, completions>>
      BY <1>2, <1>8, <2>2 DEF PlaceQueue
    <3>2. Worked(slotOf[i], {i})
      BY <1>2, <1>3, <2>2, <3>1, QueuesUp
    <3> QED
      BY <1>1, <1>2, <1>3, <3>2, SubmissionKeeps
  <2> QED
    BY <1>4, <1>8, <2>1, <2>2 DEF PlaceQueue
<1>9. CASE PlaceReplace(i)
  <2>1. CASE \E kind \in Kinds : TurnAway(i, kind)
    BY <1>5, <2>1
  <2>2. CASE /\ ReplaceHead(i, slotOf[i]) \/ PushHead(i, slotOf[i])
             /\ Retire(slotOf[i]) /\ UNCHANGED <<capacity, pump, admissions, reg>>
    <3>1. ~Vacant(slotOf[i]) /\ UNCHANGED <<capacity, pump, admissions, reg, completions>>
      BY <1>2, <1>9, <2>2 DEF PlaceReplace
    <3>2. Worked(slotOf[i], {i})
      BY <1>2, <1>3, <2>2, <3>1, Replaces
    <3> QED
      BY <1>1, <1>2, <1>3, <3>2, SubmissionKeeps
  <2> QED
    BY <1>4, <1>9, <2>1, <2>2 DEF PlaceReplace
<1> QED
  BY <1>2, <1>6, <1>7, <1>8, <1>9

\* Whoever holds a slot holds it alone, in one way.
LEMMA HoldsAlone ==
  ASSUME ControllerInvariant, loop = "running",
         NEW i \in capacity \cup admissions \cup completions, NEW s, s = slotOf[i]
  PROVE  /\ i \in Ids /\ s \in Slots /\ s \in Present /\ slots[s].owner = i
         /\ \A j \in capacity \cup admissions \cup completions : slotOf[j] = s => j = i
         /\ i \in capacity => i \notin admissions \cup completions
         /\ i \in admissions => i \notin completions
         /\ i \in capacity \cup admissions => slots[s].phase \in {"admitting", "cancelPending"}
         /\ i \in completions => slots[s].phase \in {"running", "terminating"}
<1>1. /\ capacity \subseteq Ids /\ admissions \subseteq Ids /\ completions \subseteq Ids
      /\ \A j \in Ids : fate[j] = "controller" <=> j \in indexed \cup capacity
      /\ \A j \in Ids : fate[j] = "registry" <=> reg[j] # "none"
      /\ \A j \in admissions \cup completions : reg[j] # "none"
  BY HandlerFinds DEF Watched, Known
<1>2. i \in Ids /\ s \in Slots
  BY <1>1, HandlerFinds DEF Inputs
<1>3. PICK e : e = slots[s]
  OBVIOUS
<1>4. Serves(s, e, capacity, admissions, completions) /\ e \in SlotRecord
  BY <1>2, <1>3, HandlerFinds
<1>5. e.owner = i /\ \A j \in capacity \cup admissions \cup completions : slotOf[j] = s => j = i
  BY <1>4 DEF Serves
<1>6. e.phase \in Phases /\ NoId \notin Ids
  BY <1>4, ControllerAssumption DEF SlotRecord
<1>7. e.phase \in {"admitting", "cancelPending", "running", "terminating"}
  BY <1>2, <1>4, <1>5, <1>6 DEF Serves, Phases
<1>8. /\ e.phase \in {"admitting", "cancelPending"} => i \in capacity \cup admissions /\ i \notin completions
      /\ e.phase \in {"running", "terminating"} => i \in completions /\ i \notin capacity \cup admissions
  BY <1>4, <1>5 DEF Serves
<1>9. i \in capacity => i \notin admissions
  BY <1>1, <1>2
<1>10. s \in Present
  BY <1>2, <1>3, <1>7 DEF Present
<1> QED
  BY <1>2, <1>3, <1>5, <1>7, <1>8, <1>9, <1>10

\* The owner of the slot is gone, and the next in the queue takes over unless
\* shutdown was seen.
LEMMA Releases ==
  ASSUME ControllerInvariant, loop = "running", NEW s \in Slots, s \in Present, NEW b, NEW comp,
         b = [fate |-> b.fate, capacity |-> b.capacity, pump |-> b.pump,
              admissions |-> b.admissions],
         Watched(b.fate, indexed, b.capacity, {}), Reserved(b.pump, b.capacity),
         Known(b.fate, reg, b.admissions, comp, {}), Awaited(reg, b.admissions, comp),
         \A j \in b.capacity \cup b.admissions \cup comp : slotOf[j] # s,
         \A j \in Ids : slotOf[j] # s => /\ j \in b.capacity <=> j \in capacity
                                         /\ j \in b.admissions <=> j \in admissions,
         (Vacate(s, b) /\ gate = "closed") \/ StartNext(s, b)
  PROVE  Handled(s, b.fate, comp) /\ Cardinality(Present') <= MaxSlots
<1>1. Inputs /\ Lines /\ Cardinality(Present) <= MaxSlots
  BY HandlerFinds
<1>2. Handled(s, b.fate, comp) /\ Present' \subseteq Present \cup {s}
  <2>1. CASE Vacate(s, b) /\ gate = "closed"
    BY <1>1, <2>1, Vacates
  <2>2. CASE StartNext(s, b)
    BY <1>1, <2>2, Advances
  <2> QED
    BY <2>1, <2>2
<1> QED
  BY <1>1, <1>2, StillRoom

\* handle_registry_decision for a rejected submission.
LEMMA RejectionWorked ==
  ASSUME ControllerInvariant, loop = "running", NEW i \in admissions, AdmissionRejected(i)
  PROVE  Worked(slotOf[i], {}) /\ slotOf[i] \in Slots
<1>1. PICK s, b, comp : /\ s = slotOf[i] /\ comp = completions
                        /\ b = [Base EXCEPT !.admissions = admissions \ {i}]
  OBVIOUS
<1>2. /\ b = [fate |-> fate, capacity |-> capacity, pump |-> pump,
              admissions |-> admissions \ {i}]
      /\ b.fate = fate /\ b.capacity = capacity /\ b.pump = pump
      /\ b.admissions = admissions \ {i}
  BY <1>1 DEF Base
<1>3. /\ reg[i] = "rejected" /\ Release(s, b) /\ completions' = completions
      /\ removals' = removals
  BY <1>1 DEF AdmissionRejected, trackVars
<1>4. /\ i \in Ids /\ s \in Slots /\ s \in Present /\ i \notin capacity /\ i \notin comp
      /\ \A j \in capacity \cup admissions \cup comp : slotOf[j] = s => j = i
  BY <1>1, HoldsAlone
<1>5. Watched(b.fate, indexed, b.capacity, {}) /\ Reserved(b.pump, b.capacity)
  BY <1>2, HandlerFinds
<1>6. Known(b.fate, reg, b.admissions, comp, {})
  BY <1>1, <1>2, HandlerFinds DEF Known
<1>7. Awaited(reg, b.admissions, comp)
  BY <1>1, <1>2, <1>3, HandlerFinds DEF Awaited, Active
<1>8. /\ \A j \in b.capacity \cup b.admissions \cup comp : slotOf[j] # s
      /\ \A j \in Ids : slotOf[j] # s => /\ j \in b.capacity <=> j \in capacity
                                         /\ j \in b.admissions <=> j \in admissions
  BY <1>1, <1>2, <1>4
<1>9. (Vacate(s, b) /\ gate = "closed") \/ StartNext(s, b)
  BY <1>3, HandlerFinds DEF Release
<1>10. Handled(s, b.fate, comp) /\ Cardinality(Present') <= MaxSlots
  <2>1. b = [fate |-> b.fate, capacity |-> b.capacity, pump |-> b.pump,
             admissions |-> b.admissions]
    BY <1>2
  <2> QED
    BY <1>4, <1>5, <1>6, <1>7, <1>8, <1>9, <2>1, Releases
<1>11. PICK f : f = fate
  OBVIOUS
<1>12. Settles(f) /\ Taken(f, {})
  BY <1>11 DEF Settles, Taken
<1> QED
  BY <1>1, <1>2, <1>3, <1>4, <1>10, <1>11, <1>12, HandlerFinds DEF Worked

\* handle_completion_result.
LEMMA CompletionWorked ==
  ASSUME ControllerInvariant, NEW i \in Ids, CompletionResult(i)
  PROVE  Worked(slotOf[i], {}) /\ slotOf[i] \in Slots
<1>1. PICK s, b, comp : s = slotOf[i] /\ comp = completions \ {i} /\ b = Base
  OBVIOUS
<1>2. /\ b = [fate |-> fate, capacity |-> capacity, pump |-> pump, admissions |-> admissions]
      /\ b.fate = fate /\ b.capacity = capacity /\ b.pump = pump
      /\ b.admissions = admissions
  BY <1>1 DEF Base
<1>3. /\ loop = "running" /\ i \in completions /\ reg[i] = "gone" /\ Release(s, b)
      /\ completions' = comp /\ removals' = removals
  BY <1>1 DEF CompletionResult, PhysicallyReleased
<1>4. /\ s \in Slots /\ s \in Present /\ i \notin capacity /\ i \notin admissions
      /\ \A j \in capacity \cup admissions \cup completions : slotOf[j] = s => j = i
  BY <1>1, <1>3, HoldsAlone
<1>5. Watched(b.fate, indexed, b.capacity, {}) /\ Reserved(b.pump, b.capacity)
  BY <1>2, <1>3, HandlerFinds
<1>6. Known(b.fate, reg, b.admissions, comp, {})
  BY <1>1, <1>2, <1>3, HandlerFinds DEF Known
<1>7. Awaited(reg, b.admissions, comp)
  BY <1>1, <1>2, <1>3, HandlerFinds DEF Awaited, Active
<1>8. /\ \A j \in b.capacity \cup b.admissions \cup comp : slotOf[j] # s
      /\ \A j \in Ids : slotOf[j] # s => /\ j \in b.capacity <=> j \in capacity
                                         /\ j \in b.admissions <=> j \in admissions
  BY <1>1, <1>2, <1>4
<1>9. (Vacate(s, b) /\ gate = "closed") \/ StartNext(s, b)
  BY <1>3, HandlerFinds DEF Release
<1>10. Handled(s, b.fate, comp) /\ Cardinality(Present') <= MaxSlots
  <2>1. b = [fate |-> b.fate, capacity |-> b.capacity, pump |-> b.pump,
             admissions |-> b.admissions]
    BY <1>2
  <2> QED
    BY <1>3, <1>4, <1>5, <1>6, <1>7, <1>8, <1>9, <2>1, Releases
<1>11. PICK f : f = fate
  OBVIOUS
<1>12. Settles(f) /\ Taken(f, {})
  BY <1>11 DEF Settles, Taken
<1>13. \A j \in Ids : slotOf[j] # s => (j \in completions' <=> j \in completions)
  BY <1>1, <1>3
<1> QED
  BY <1>1, <1>2, <1>3, <1>4, <1>10, <1>11, <1>12, <1>13, HandlerFinds DEF Worked

\* handle_registry_decision for an accepted submission.
LEMMA ConfirmationWorked ==
  ASSUME ControllerInvariant, loop = "running", NEW i \in admissions, reg[i] # "none",
         ConfirmAdmission(i), admissions' = admissions \ {i},
         UNCHANGED <<fate, queue, indexed, waitVars, reg>>
  PROVE  Worked(slotOf[i], {}) /\ slotOf[i] \in Slots
<1>1. PICK s, e : s = slotOf[i] /\ e = slots[s]
  OBVIOUS
<1>2. /\ i \in Ids /\ s \in Slots /\ s \in Present /\ e.owner = i
      /\ i \notin capacity /\ i \notin completions
      /\ \A j \in capacity \cup admissions \cup completions : slotOf[j] = s => j = i
      /\ e.phase \in {"admitting", "cancelPending"}
  BY <1>1, HoldsAlone
<1>3. PICK ph : /\ \/ e.phase = "admitting" /\ ph = "running"
                   \/ e.phase = "cancelPending" /\ ph = "terminating"
                /\ slots' = [slots EXCEPT ![s].phase = ph]
  <2>1. \/ e.phase = "admitting" /\ slots' = [slots EXCEPT ![s].phase = "running"]
        \/ e.phase = "cancelPending" /\ slots' = [slots EXCEPT ![s].phase = "terminating"]
    BY <1>1 DEF ConfirmAdmission
  <2> QED
    BY <2>1, Zenon
<1>4. /\ completions' = completions \cup {i} /\ removals' \subseteq removals \cup {i}
      /\ fate' = fate /\ queue' = queue /\ indexed' = indexed /\ capacity' = capacity
      /\ pump' = pump /\ reg' = reg
  BY DEF ConfirmAdmission, waitVars
<1>5. /\ slots \in [Slots -> SlotRecord] /\ queue \in [Slots -> Seq(Ids)] /\ e \in SlotRecord
      /\ Lined(s, e.phase, queue[s], indexed)
      /\ capacity \subseteq Ids /\ admissions \subseteq Ids /\ completions \subseteq Ids
  BY <1>1, <1>2, HandlerFinds DEF Watched, Known
<1>6. PICK d : d = [e EXCEPT !.phase = ph]
  OBVIOUS
<1>7. d \in SlotRecord /\ d.phase = ph /\ d.owner = i
  BY <1>2, <1>3, <1>5, <1>6 DEF SlotRecord, Phases
<1>8. /\ slots' \in [Slots -> SlotRecord] /\ slots'[s] = d
      /\ \A t \in Slots : t # s => slots'[t] = slots[t]
  <2>1. slots' = [slots EXCEPT ![s] = d]
    BY <1>1, <1>3, <1>6
  <2> QED
    BY <1>2, <1>5, <1>7, <2>1
<1>9. Serves(s, slots'[s], capacity', admissions', completions')
  <2>1. d.phase \in {"running", "terminating"}
    BY <1>3, <1>7
  <2> QED
    BY <1>1, <1>2, <1>4, <1>7, <1>8, <2>1 DEF Serves
<1>10. Lined(s, slots'[s].phase, queue'[s], indexed')
  BY <1>3, <1>4, <1>5, <1>7, <1>8 DEF Lined
<1>11. Known(fate', reg', admissions', completions', {})
  BY <1>2, <1>4, HandlerFinds DEF Known
<1>12. Awaited(reg', admissions', completions')
  BY <1>2, <1>4, HandlerFinds DEF Awaited
<1>13. PICK f : f = fate
  OBVIOUS
<1>14. Settles(f) /\ Taken(f, {})
  BY <1>13 DEF Settles, Taken
<1>15. Handled(s, f, completions')
  BY <1>1, <1>4, <1>5, <1>8, <1>9, <1>10, <1>11, <1>12, <1>13, HandlerFinds DEF Handled
<1>16. Cardinality(Present') <= MaxSlots
  <2>1. Present' \subseteq Present \cup {s}
    BY <1>8 DEF Present
  <2> QED
    BY <1>2, <2>1, HandlerFinds, StillRoom
<1>17. removals' \subseteq Ids /\ \A j \in Ids : slotOf[j] # s => (j \in completions' <=> j \in completions)
  BY <1>1, <1>2, <1>4, HandlerFinds
<1> QED
  BY <1>1, <1>2, <1>14, <1>15, <1>16, <1>17 DEF Worked

\* handle_registry_capacity_result: the reservation of the first waiter.
LEMMA CapacityWorked ==
  ASSUME ControllerInvariant, CapacityResult
  PROVE  Worked(slotOf[Head(pump)], {}) /\ slotOf[Head(pump)] \in Slots
<1>1. PICK i, s, comp : i = Head(pump) /\ s = slotOf[i] /\ comp = completions
  OBVIOUS
<1>2. /\ loop = "running" /\ pump # <<>> /\ i \in capacity
      /\ completions' = completions /\ removals' = removals
  BY <1>1 DEF CapacityResult, trackVars
<1>3. /\ i \in Ids /\ s \in Slots /\ s \in Present /\ slots[s].owner = i
      /\ i \notin admissions /\ i \notin comp
      /\ \A j \in capacity \cup admissions \cup comp : slotOf[j] = s => j = i
      /\ slots[s].phase \in {"admitting", "cancelPending"}
  BY <1>1, <1>2, HoldsAlone
<1>4. /\ fate \in [Ids -> Fates] /\ indexed \subseteq Ids /\ capacity \subseteq Ids
      /\ indexed \cap capacity = {}
      /\ \A j \in Ids : fate[j] = "controller" <=> j \in indexed \cup capacity
      /\ Cardinality(indexed) + Cardinality(capacity) <= MaxPending
  BY <1>2, HandlerFinds DEF Watched
<1>5. /\ reg \in [Ids -> RegStates] /\ admissions \subseteq Ids /\ comp \subseteq Ids
      /\ \A j \in Ids : fate[j] = "registry" <=> reg[j] # "none"
      /\ \A j \in admissions \cup comp : reg[j] # "none"
  BY <1>1, <1>2, HandlerFinds DEF Known
<1>6. fate[i] = "controller" /\ reg[i] = "none"
  BY <1>2, <1>3, <1>4, <1>5
<1>7. PICK cap, p : cap = capacity \ {i} /\ p = Tail(pump)
  OBVIOUS
<1>8. Reserved(p, cap)
  <2>1. PICK u, X : u = pump /\ X = capacity
    OBVIOUS
  <2>2. Lists(Ids, u, X) /\ u # <<>> /\ Len(u) <= AdmissionCap
    BY <1>2, <2>1, HandlerFinds DEF Reserved
  <2>3. Lists(Ids, Tail(u), X \ {Head(u)}) /\ u \in Seq(Ids)
    BY <2>2, ListsTail DEF Lists
  <2>4. Len(Tail(u)) <= AdmissionCap
    BY <2>2, <2>3, ControllerAssumption
  <2> QED
    BY <1>1, <1>7, <2>1, <2>3, <2>4 DEF Reserved
<1>9. Cardinality(indexed) + Cardinality(cap) <= MaxPending
  <2>1. IsFiniteSet(capacity) /\ cap \subseteq capacity
    BY <1>4, <1>7, SubmissionsFinite
  <2>2. Cardinality(cap) <= Cardinality(capacity)
    BY <2>1, FS_Subset
  <2>3. /\ Cardinality(indexed) \in Nat /\ Cardinality(capacity) \in Nat
        /\ Cardinality(cap) \in Nat /\ MaxPending \in Nat
    BY <1>4, <1>7, SubmissionsFinite, ControllerAssumption
  <2> QED
    BY <1>4, <2>2, <2>3
<1>10. \A j \in Ids : slotOf[j] # s => (j \in cap <=> j \in capacity)
  BY <1>1, <1>7
<1>11. /\ "ControllerShuttingDown" \in Kinds /\ Kinds \subseteq Fates
       /\ {"controller", "command", "registry"} \cap Kinds = {}
       /\ {"controller", "command", "registry"} \subseteq Fates
  BY DEF Kinds, Fates
<1>12. CASE /\ fate' = [fate EXCEPT ![i] = "registry"] /\ reg' = [reg EXCEPT ![i] = "queued"]
            /\ admissions' = admissions \cup {i} /\ capacity' = cap /\ pump' = p
            /\ UNCHANGED slotVars
  <2>1. slots' = slots /\ queue' = queue /\ indexed' = indexed
    BY <1>12 DEF slotVars
  <2>2. /\ fate' \in [Ids -> Fates] /\ fate'[i] = "registry"
        /\ \A j \in Ids : j # i => fate'[j] = fate[j]
    BY <1>3, <1>4, <1>11, <1>12
  <2>3. /\ reg' \in [Ids -> RegStates] /\ reg'[i] = "queued"
        /\ \A j \in Ids : j # i => reg'[j] = reg[j]
    BY <1>3, <1>5, <1>12 DEF RegStates
  <2>4. Watched(fate', indexed', capacity', {})
    <3>1. Cardinality(indexed') + Cardinality(capacity') <= MaxPending
      BY <1>9, <1>12, <2>1
    <3>2. \A j \in Ids : fate'[j] = "controller" <=> j \in indexed' \cup capacity'
      BY <1>2, <1>4, <1>7, <1>12, <2>1, <2>2
    <3> QED
      BY <1>4, <1>7, <1>12, <2>1, <2>2, <3>1, <3>2 DEF Watched
  <2>5. Known(fate', reg', admissions', comp, {})
    BY <1>3, <1>5, <1>12, <2>2, <2>3 DEF Known
  <2>6. Awaited(reg', admissions', comp)
    BY <1>1, <1>2, <1>12, <2>3, HandlerFinds DEF Awaited
  <2>7. Serves(s, slots'[s], capacity', admissions', comp)
    BY <1>1, <1>3, <1>7, <1>12, <2>1 DEF Serves
  <2>8. /\ Lined(s, slots'[s].phase, queue'[s], indexed')
        /\ slots' \in [Slots -> SlotRecord] /\ queue' \in [Slots -> Seq(Ids)]
    BY <1>2, <1>3, <2>1, HandlerFinds
  <2>9. PICK f : f = fate
    OBVIOUS
  <2>10. Settles(f) /\ Taken(f, {})
    BY <2>9 DEF Settles, Taken
  <2>11. \A j \in Ids : slotOf[j] # s => (j \in admissions' <=> j \in admissions)
    BY <1>1, <1>12
  <2>12. \A j \in Ids : \/ fate'[j] = f[j]
                        \/ f[j] = "controller" /\ fate'[j] \in Kinds \cup {"registry"}
    BY <1>6, <2>2, <2>9
  <2>13. \A j \in Ids : reg'[j] = reg[j] \/ (reg[j] = "none" /\ reg'[j] = "queued")
    BY <1>6, <2>3
  <2>14. Handled(s, f, comp)
    BY <1>8, <1>10, <1>12, <2>1, <2>4, <2>5, <2>6, <2>7, <2>8, <2>11, <2>12, <2>13 DEF Handled
  <2>15. Cardinality(Present') <= MaxSlots /\ removals' \subseteq Ids
    BY <1>2, <2>1, HandlerFinds DEF Present
  <2> QED
    BY <1>1, <1>2, <1>3, <2>10, <2>14, <2>15 DEF Worked
<1>13. CASE /\ gate = "closed"
            /\ Vacate(s, [fate |-> [fate EXCEPT ![i] = "ControllerShuttingDown"],
                          capacity |-> cap, pump |-> p, admissions |-> admissions])
  <2>1. PICK b : b = [fate |-> [fate EXCEPT ![i] = "ControllerShuttingDown"],
                      capacity |-> cap, pump |-> p, admissions |-> admissions]
    OBVIOUS
  <2>2. /\ b.fate = [fate EXCEPT ![i] = "ControllerShuttingDown"] /\ b.capacity = cap
        /\ b.pump = p /\ b.admissions = admissions
        /\ b = [fate |-> b.fate, capacity |-> b.capacity, pump |-> b.pump,
                admissions |-> b.admissions]
    BY <2>1
  <2>3. /\ b.fate \in [Ids -> Fates] /\ b.fate[i] = "ControllerShuttingDown"
        /\ \A j \in Ids : j # i => b.fate[j] = fate[j]
    BY <1>3, <1>4, <1>11, <2>2
  <2>4. Watched(b.fate, indexed, b.capacity, {})
    <3>1. \A j \in Ids : b.fate[j] = "controller" <=> j \in indexed \cup b.capacity
      BY <1>2, <1>4, <1>7, <1>11, <2>2, <2>3
    <3> QED
      BY <1>4, <1>7, <1>9, <2>2, <2>3, <3>1 DEF Watched
  <2>5. Known(b.fate, reg, b.admissions, comp, {})
    BY <1>5, <1>6, <1>11, <2>2, <2>3 DEF Known
  <2>6. Awaited(reg, b.admissions, comp) /\ Reserved(b.pump, b.capacity)
    BY <1>1, <1>2, <1>8, <2>2, HandlerFinds
  <2>7. /\ \A j \in b.capacity \cup b.admissions \cup comp : slotOf[j] # s
        /\ \A j \in Ids : slotOf[j] # s => /\ j \in b.capacity <=> j \in capacity
                                           /\ j \in b.admissions <=> j \in admissions
    BY <1>3, <1>7, <1>10, <2>2
  <2>8. (Vacate(s, b) /\ gate = "closed") \/ StartNext(s, b)
    BY <1>13, <2>1
  <2>9. Handled(s, b.fate, comp) /\ Cardinality(Present') <= MaxSlots
    BY <1>2, <1>3, <2>2, <2>4, <2>5, <2>6, <2>7, <2>8, Releases
  <2>10. PICK f : f = b.fate
    OBVIOUS
  <2>11. Settles(f) /\ Taken(f, {})
    BY <1>6, <1>11, <2>3, <2>10 DEF Settles, Taken
  <2> QED
    BY <1>1, <1>2, <1>3, <2>9, <2>10, <2>11, HandlerFinds DEF Worked
<1> QED
  BY <1>1, <1>7, <1>12, <1>13 DEF CapacityResult, TrackAdmission, PumpNext

\* An entry that is looked up by its position and taken out is gone, and the
\* others move up by one place at most.
LEMMA ListsWithout ==
  ASSUME NEW q, NEW X, Lists(Ids, q, X), NEW i \in X
  PROVE  /\ Lists(Ids, Without(q, i), X \ {i}) /\ Len(Without(q, i)) = Len(q) - 1
         /\ \A m \in DOMAIN Without(q, i) :
              m \in Nat /\ m >= 1 /\ \E n \in DOMAIN q : n >= m /\ Without(q, i)[m] = q[n]
<1>1. /\ q \in Seq(Ids) /\ Len(q) \in Nat /\ ToSet(q) = X /\ DOMAIN q = 1..Len(q)
      /\ \E k \in DOMAIN q : q[k] = i
  <2>1. q \in Seq(Ids) /\ ToSet(q) = X
    BY DEF Lists
  <2>2. Len(q) \in Nat /\ DOMAIN q = 1..Len(q)
    BY <2>1
  <2>3. \E k \in DOMAIN q : q[k] = i
    BY <2>1, <2>2, ListsByPlace
  <2> QED
    BY <2>1, <2>2, <2>3
<1>2. PICK k : k = CHOOSE m \in DOMAIN q : q[m] = i
  OBVIOUS
<1>3. k \in DOMAIN q /\ q[k] = i
  BY <1>1, <1>2
<1>4. PICK r : r = RemoveAt(q, k)
  OBVIOUS
<1>5. Without(q, i) = r
  BY <1>1, <1>2, <1>4 DEF Without
<1>6. Lists(Ids, r, X \ {i})
  BY <1>3, <1>4, ListsRemoveAt
<1>7. /\ r \in Seq(Ids) /\ Len(r) = Len(q) - 1
      /\ \A j \in 1..(Len(q) - 1) : r[j] = IF j < k THEN q[j] ELSE q[j + 1]
  BY <1>1, <1>3, <1>4, RemoveAtProperties
<1>8. ASSUME NEW m \in DOMAIN r
      PROVE  m \in Nat /\ m >= 1 /\ \E n \in DOMAIN q : n >= m /\ r[m] = q[n]
  <2>1. m \in 1..(Len(q) - 1)
    BY <1>7
  <2>2. /\ m \in DOMAIN q /\ m + 1 \in DOMAIN q /\ m + 1 >= m /\ m >= m
        /\ m \in Nat /\ m >= 1
    BY <1>1, <2>1
  <2>3. r[m] = q[m] \/ r[m] = q[m + 1]
    BY <1>7, <2>1
  <2> QED
    BY <2>2, <2>3
<1> QED
  BY <1>5, <1>6, <1>7, <1>8

\* A claimed capacity waiter gives its slot to the next in the queue.
LEMMA CapacityClaimed ==
  ASSUME ControllerInvariant, loop = "running", NEW i \in Ids, ClaimCapacity(i),
         UNCHANGED trackVars
  PROVE  /\ Worked(slotOf[i], {}) /\ slotOf[i] \in Slots
         /\ fate[i] = "controller" /\ fate'[i] = "RemovedFromQueue"
<1>1. PICK s, comp, cap, p : /\ s = slotOf[i] /\ comp = completions /\ cap = capacity \ {i}
                             /\ p = Without(pump, i)
  OBVIOUS
<1>2. /\ i \in capacity /\ completions' = completions /\ removals' = removals
      /\ StartNext(s, [fate |-> [fate EXCEPT ![i] = "RemovedFromQueue"],
                       capacity |-> cap, pump |-> p, admissions |-> admissions])
  BY <1>1 DEF ClaimCapacity, PumpCancel, trackVars
<1>3. /\ s \in Slots /\ s \in Present /\ i \notin admissions /\ i \notin comp
      /\ \A j \in capacity \cup admissions \cup comp : slotOf[j] = s => j = i
  BY <1>1, <1>2, HoldsAlone
<1>4. /\ fate \in [Ids -> Fates] /\ indexed \subseteq Ids /\ capacity \subseteq Ids
      /\ indexed \cap capacity = {}
      /\ \A j \in Ids : fate[j] = "controller" <=> j \in indexed \cup capacity
      /\ Cardinality(indexed) + Cardinality(capacity) <= MaxPending
  BY HandlerFinds DEF Watched
<1>5. /\ reg \in [Ids -> RegStates] /\ admissions \subseteq Ids /\ comp \subseteq Ids
      /\ \A j \in Ids : fate[j] = "registry" <=> reg[j] # "none"
      /\ \A j \in admissions \cup comp : reg[j] # "none"
  BY <1>1, HandlerFinds DEF Known
<1>6. fate[i] = "controller" /\ reg[i] = "none"
  BY <1>2, <1>4, <1>5
<1>7. Reserved(p, cap)
  <2>1. PICK u, X : u = pump /\ X = capacity
    OBVIOUS
  <2>2. Lists(Ids, u, X) /\ i \in X /\ Len(u) <= AdmissionCap
    BY <1>2, <2>1, HandlerFinds DEF Reserved
  <2>3. Lists(Ids, Without(u, i), X \ {i}) /\ Len(Without(u, i)) = Len(u) - 1
    BY <2>2, ListsWithout
  <2>4. Len(u) \in Nat
    BY <2>2 DEF Lists
  <2>5. Len(Without(u, i)) <= AdmissionCap
    BY <2>2, <2>3, <2>4, ControllerAssumption
  <2> QED
    BY <1>1, <2>1, <2>3, <2>5 DEF Reserved
<1>8. Cardinality(indexed) + Cardinality(cap) <= MaxPending
  <2>1. IsFiniteSet(capacity) /\ cap \subseteq capacity
    BY <1>1, <1>4, SubmissionsFinite
  <2>2. Cardinality(cap) <= Cardinality(capacity)
    BY <2>1, FS_Subset
  <2>3. /\ Cardinality(indexed) \in Nat /\ Cardinality(capacity) \in Nat
        /\ Cardinality(cap) \in Nat /\ MaxPending \in Nat
    BY <1>1, <1>4, SubmissionsFinite, ControllerAssumption
  <2> QED
    BY <1>4, <2>2, <2>3
<1>9. /\ "RemovedFromQueue" \in Kinds /\ Kinds \subseteq Fates
      /\ {"controller", "command", "registry"} \cap Kinds = {}
  BY DEF Kinds, Fates
<1>10. PICK b : b = [fate |-> [fate EXCEPT ![i] = "RemovedFromQueue"],
                     capacity |-> cap, pump |-> p, admissions |-> admissions]
  OBVIOUS
<1>11. /\ b.fate = [fate EXCEPT ![i] = "RemovedFromQueue"] /\ b.capacity = cap
       /\ b.pump = p /\ b.admissions = admissions
       /\ b = [fate |-> b.fate, capacity |-> b.capacity, pump |-> b.pump,
               admissions |-> b.admissions]
  BY <1>10
<1>12. /\ b.fate \in [Ids -> Fates] /\ b.fate[i] = "RemovedFromQueue"
       /\ \A j \in Ids : j # i => b.fate[j] = fate[j]
  BY <1>4, <1>9, <1>11
<1>13. Watched(b.fate, indexed, b.capacity, {})
  <2>1. \A j \in Ids : b.fate[j] = "controller" <=> j \in indexed \cup b.capacity
    BY <1>1, <1>2, <1>4, <1>9, <1>11, <1>12
  <2> QED
    BY <1>1, <1>4, <1>8, <1>11, <1>12, <2>1 DEF Watched
<1>14. Known(b.fate, reg, b.admissions, comp, {})
  BY <1>5, <1>6, <1>9, <1>11, <1>12 DEF Known
<1>15. Awaited(reg, b.admissions, comp) /\ Reserved(b.pump, b.capacity)
  BY <1>1, <1>7, <1>11, HandlerFinds
<1>16. /\ \A j \in b.capacity \cup b.admissions \cup comp : slotOf[j] # s
       /\ \A j \in Ids : slotOf[j] # s => /\ j \in b.capacity <=> j \in capacity
                                          /\ j \in b.admissions <=> j \in admissions
  BY <1>1, <1>3, <1>11
<1>17. (Vacate(s, b) /\ gate = "closed") \/ StartNext(s, b)
  BY <1>2, <1>10
<1>18. Handled(s, b.fate, comp) /\ Cardinality(Present') <= MaxSlots
  BY <1>3, <1>11, <1>13, <1>14, <1>15, <1>16, <1>17, Releases
<1>19. PICK f : f = b.fate
  OBVIOUS
<1>20. Settles(f) /\ Taken(f, {})
  BY <1>6, <1>9, <1>12, <1>19 DEF Settles, Taken
<1>21. fate'[i] = "RemovedFromQueue"
  BY <1>12, <1>18 DEF Handled
<1> QED
  BY <1>1, <1>2, <1>3, <1>6, <1>18, <1>19, <1>20, <1>21, HandlerFinds DEF Worked

\* A claimed queue entry leaves its queue, and a slot that nobody uses is
\* collected.
LEMMA QueuedClaimed ==
  ASSUME ControllerInvariant, loop = "running", NEW i \in Ids, ClaimQueued(i),
         UNCHANGED trackVars
  PROVE  /\ Worked(slotOf[i], {}) /\ slotOf[i] \in Slots
         /\ fate[i] = "controller" /\ fate'[i] = "RemovedFromQueue"
<1>1. PICK s, f, q, r, e : /\ s = slotOf[i] /\ f = [fate EXCEPT ![i] = "RemovedFromQueue"]
                           /\ q = queue[s] /\ r = Without(q, i) /\ e = slots[s]
  OBVIOUS
<1>2. /\ i \in indexed /\ queue' = [queue EXCEPT ![s] = r] /\ indexed' = indexed \ {i}
      /\ fate' = f /\ capacity' = capacity /\ pump' = pump /\ admissions' = admissions
      /\ reg' = reg /\ completions' = completions /\ removals' = removals
      /\ slots' = IF Vacant(s) /\ r = <<>> THEN [slots EXCEPT ![s] = Absent] ELSE slots
  BY <1>1 DEF ClaimQueued, Leave, Base, trackVars
<1>3. /\ fate \in [Ids -> Fates] /\ indexed \subseteq Ids /\ capacity \subseteq Ids
      /\ indexed \cap capacity = {}
      /\ \A j \in Ids : fate[j] = "controller" <=> j \in indexed \cup capacity
      /\ Cardinality(indexed) + Cardinality(capacity) <= MaxPending
  BY HandlerFinds DEF Watched
<1>4. /\ slots \in [Slots -> SlotRecord] /\ queue \in [Slots -> Seq(Ids)] /\ s \in Slots
      /\ e \in SlotRecord /\ Lined(s, e.phase, q, indexed)
      /\ Serves(s, e, capacity, admissions, completions)
  <2>1. s \in Slots
    BY <1>1, HandlerFinds DEF Inputs
  <2> QED
    BY <1>1, <2>1, HandlerFinds
<1>5. fate[i] = "controller" /\ reg[i] = "none"
  <2>1. fate[i] = "controller"
    BY <1>2, <1>3
  <2>2. \A j \in Ids : fate[j] = "registry" <=> reg[j] # "none"
    BY HandlerFinds DEF Known
  <2> QED
    BY <2>1, <2>2
<1>6. /\ "RemovedFromQueue" \in Kinds /\ Kinds \subseteq Fates
      /\ {"controller", "command", "registry"} \cap Kinds = {}
  BY DEF Kinds, Fates
<1>7. f \in [Ids -> Fates] /\ f[i] = "RemovedFromQueue" /\ \A j \in Ids : j # i => f[j] = fate[j]
  BY <1>1, <1>3, <1>6
<1>8. Watched(f, indexed', capacity, {})
  <2>1. Cardinality(indexed') <= Cardinality(indexed)
    <3>1. IsFiniteSet(indexed)
      BY <1>3, SubmissionsFinite
    <3> QED
      BY <1>2, <3>1, FS_Subset
  <2>2. /\ Cardinality(indexed) \in Nat /\ Cardinality(capacity) \in Nat
        /\ Cardinality(indexed') \in Nat /\ MaxPending \in Nat
    BY <1>2, <1>3, SubmissionsFinite, ControllerAssumption
  <2>3. Cardinality(indexed') + Cardinality(capacity) <= MaxPending
    BY <1>3, <2>1, <2>2
  <2>4. \A j \in Ids : f[j] = "controller" <=> j \in indexed' \cup capacity
    BY <1>2, <1>3, <1>6, <1>7
  <2> QED
    BY <1>2, <1>3, <1>7, <2>3, <2>4 DEF Watched
<1>9. Known(f, reg, admissions, completions, {})
  BY <1>5, <1>6, <1>7, HandlerFinds DEF Known
<1>10. PICK X : X = Queued(s, indexed)
  OBVIOUS
<1>11. Lists(Ids, q, X) /\ i \in X
  <2>1. Lists(Ids, q, X)
    BY <1>4, <1>10 DEF Lined
  <2>2. i \in X
    BY <1>1, <1>2, <1>10 DEF Queued
  <2> QED
    BY <2>1, <2>2
<1>12. /\ Lists(Ids, r, X \ {i}) /\ Len(r) = Len(q) - 1
       /\ \A m \in DOMAIN r : m \in Nat /\ m >= 1 /\ \E n \in DOMAIN q : n >= m /\ r[m] = q[n]
  <2>1. PICK w : w = Without(q, i)
    OBVIOUS
  <2>2. /\ Lists(Ids, w, X \ {i}) /\ Len(w) = Len(q) - 1
        /\ \A m \in DOMAIN w : m \in Nat /\ m >= 1 /\ \E n \in DOMAIN q : n >= m /\ w[m] = q[n]
    BY <1>11, <2>1, ListsWithout
  <2> QED
    BY <1>1, <2>1, <2>2
<1>13. Queued(s, indexed') = X \ {i}
  BY <1>2, <1>10 DEF Queued
<1>14. q # <<>>
  BY <1>11, ListsNothing
<1>15. gate = "open" => ~Vacant(s)
  BY <1>1, <1>4, <1>14 DEF Lined, Vacant
<1>16. /\ slots' \in [Slots -> SlotRecord] /\ \A t \in Slots : t # s => slots'[t] = slots[t]
       /\ slots'[s] = e \/ (Vacant(s) /\ slots'[s] = Absent)
  <2>1. Absent \in SlotRecord
    BY DEF Absent, SlotRecord, Phases
  <2>2. CASE Vacant(s) /\ r = <<>>
    BY <1>1, <1>2, <1>4, <2>1, <2>2
  <2>3. CASE ~(Vacant(s) /\ r = <<>>)
    BY <1>1, <1>2, <1>4, <2>3
  <2> QED
    BY <2>2, <2>3
<1>17. Serves(s, slots'[s], capacity, admissions, completions)
  <2>1. CASE slots'[s] = e
    BY <1>4, <2>1
  <2>2. CASE Vacant(s) /\ slots'[s] = Absent
    <3>1. \A j \in capacity \cup admissions \cup completions : slotOf[j] # s
      BY <1>4, <2>2, VacantIsFree
    <3>2. slots'[s].phase = "absent" /\ slots'[s].owner = NoId
      BY <2>2 DEF Absent
    <3> QED
      BY <3>1, <3>2 DEF Serves
  <2> QED
    BY <1>16, <2>1, <2>2
<1>18. Lined(s, slots'[s].phase, r, indexed')
  <2>1. Len(r) <= MaxSlotQueue
    <3>1. Len(q) <= MaxSlotQueue \/ Len(q) = 1
      BY <1>4 DEF Lined
    <3>2. Len(q) \in Nat
      BY <1>11 DEF Lists
    <3> QED
      BY <1>12, <3>1, <3>2, ControllerAssumption
  <2>2. gate = "open" => slots'[s] = e
    BY <1>15, <1>16
  <2>3. gate \in {"open", "closed"}
    BY DEF ControllerInvariant, Course
  <2>4. gate = "open" => e.phase # "idle" /\ e.phase # "absent"
    BY <1>4, <1>14 DEF Lined
  <2>5. ASSUME NEW m \in DOMAIN r, policy[r[m]] = "Replace"
        PROVE  m = 1 /\ (slots'[s].phase \in {"cancelPending", "terminating"} \/ gate = "closed")
    <3>1. PICK n \in DOMAIN q : n >= m /\ r[m] = q[n] /\ m \in Nat /\ m >= 1
      BY <1>12
    <3>2. n = 1 /\ (e.phase \in {"cancelPending", "terminating"} \/ gate = "closed")
      BY <1>4, <2>5, <3>1 DEF Lined
    <3>3. m = 1
      BY <3>1, <3>2
    <3> QED
      BY <2>2, <2>3, <3>2, <3>3
  <2> QED
    BY <1>12, <1>13, <2>1, <2>2, <2>4, <2>5 DEF Lined
<1>19. /\ queue' \in [Slots -> Seq(Ids)] /\ queue'[s] = r
       /\ \A t \in Slots : t # s => queue'[t] = queue[t]
  <2>1. r \in Seq(Ids)
    BY <1>12 DEF Lists
  <2> QED
    BY <1>2, <1>4, <2>1
<1>20. Handled(s, f, completions')
  <2>1. \A j \in Ids : slotOf[j] # s => (j \in indexed' <=> j \in indexed)
    BY <1>1, <1>2
  <2> QED
    BY <1>2, <1>8, <1>9, <1>16, <1>17, <1>18, <1>19, <2>1, HandlerFinds DEF Handled
<1>21. Settles(f) /\ Taken(f, {})
  BY <1>5, <1>6, <1>7 DEF Settles, Taken
<1>22. Cardinality(Present') <= MaxSlots
  <2>1. Present' \subseteq Present
    BY <1>1, <1>16 DEF Present, Absent
  <2>2. PICK P, Q : P = Present /\ Q = Present'
    OBVIOUS
  <2>3. IsFiniteSet(P) /\ Cardinality(P) \in Nat /\ Cardinality(Q) \in Nat /\ Q \subseteq P
    BY <2>1, <2>2, SlotsFinite DEF Present
  <2>4. Cardinality(Q) <= Cardinality(P)
    BY <2>3, FS_Subset
  <2> QED
    BY <2>2, <2>3, <2>4, HandlerFinds, ControllerAssumption
<1> QED
  BY <1>1, <1>2, <1>4, <1>5, <1>7, <1>20, <1>21, <1>22, HandlerFinds DEF Worked

(***************************************************************************)
(* Steps that move no submission between its places.                       *)
(***************************************************************************)

\* Places and clients: the two halves of the invariant.
Places ==
    /\ Inputs /\ Watched(fate, indexed, capacity, {})
    /\ Known(fate, reg, admissions, completions, {}) /\ removals \subseteq Ids
    /\ Lines /\ Running /\ SlotExclusive

Clientele ==
    /\ Commanded(cmds, fate, caller) /\ Called(caller, fate) /\ Told(caller, fate, reg)
    /\ Cardinality(Tracked) <= IdentityCap

\* They make it up, with the course of the shutdown.
LEMMA Halves == ControllerInvariant <=> Course /\ Places /\ Clientele
BY DEF ControllerInvariant, Places, Clientele

\* Nothing moves: the gate may close, a submission enter the channel, and
\* tasks the registry knows come to be decided or leave.
LEMMA Still ==
  ASSUME Places, UNCHANGED <<inputs, slotVars, waitVars, admissions, completions>>,
         loop' = loop, gate' = gate \/ gate' = "closed", gate \in {"open", "closed"},
         removals' \subseteq Ids,
         fate' \in [Ids -> Fates],
         \A i \in Ids : fate'[i] = "controller" <=> fate[i] = "controller",
         \A i \in Ids : fate'[i] = "registry" <=> fate[i] = "registry",
         reg' \in [Ids -> RegStates],
         \A i \in Ids : reg'[i] = "none" <=> reg[i] = "none",
         \A i \in Ids : reg'[i] \in Active => reg[i] \in Active
  PROVE  Places'
<1>1. /\ slotOf' = slotOf /\ policy' = policy /\ slots' = slots /\ queue' = queue
      /\ indexed' = indexed /\ capacity' = capacity /\ pump' = pump
      /\ admissions' = admissions /\ completions' = completions
  BY DEF inputs, slotVars, waitVars
<1>2. /\ Inputs /\ Watched(fate, indexed, capacity, {})
      /\ Known(fate, reg, admissions, completions, {})
      /\ Lines /\ Running /\ SlotExclusive
  BY DEF Places
<1>3. Inputs'
  BY <1>1, <1>2 DEF Inputs
<1>4. Watched(fate, indexed, capacity, {})'
  BY <1>1, <1>2 DEF Watched
<1>5. Known(fate, reg, admissions, completions, {})'
  <2>1. admissions \subseteq Ids /\ completions \subseteq Ids
    BY <1>2 DEF Known
  <2> QED
    BY <1>1, <1>2, <2>1 DEF Known
<1>6. Lines'
  <2>1. ASSUME NEW s \in Slots PROVE Lined(s, slots[s].phase, queue[s], indexed)'
    <3>1. Lined(s, slots[s].phase, queue[s], indexed)
      BY <1>2 DEF Lines
    <3>2. gate' = "open" => gate = "open"
      OBVIOUS
    <3>3. gate = "closed" => gate' = "closed"
      OBVIOUS
    <3>4. Queued(s, indexed)' = Queued(s, indexed)
      BY <1>1 DEF Queued
    <3>5. \A m \in DOMAIN queue[s] : policy[queue[s][m]] = "Replace" =>
            m = 1 /\ (slots[s].phase \in {"cancelPending", "terminating"} \/ gate' = "closed")
      BY <3>1, <3>3 DEF Lined
    <3> QED
      BY <1>1, <3>1, <3>2, <3>4, <3>5 DEF Lined
  <2>2. Present' = Present
    BY <1>1 DEF Present
  <2> QED
    BY <1>1, <1>2, <2>1, <2>2 DEF Lines
<1>7. Running'
  <2>1. Awaited(reg, admissions, completions) => Awaited(reg, admissions, completions)'
    BY <1>1 DEF Awaited
  <2>2. Reserved(pump, capacity) => Reserved(pump, capacity)'
    BY <1>1 DEF Reserved
  <2>3. ASSUME NEW s \in Slots, Serves(s, slots[s], capacity, admissions, completions)
        PROVE  Serves(s, slots[s], capacity, admissions, completions)'
    BY <1>1, <2>3 DEF Serves
  <2> QED
    BY <1>2, <2>1, <2>2, <2>3 DEF Running
<1>8. SlotExclusive'
  BY <1>1, <1>2 DEF SlotExclusive, Active
<1> QED
  BY <1>3, <1>4, <1>5, <1>6, <1>7, <1>8 DEF Places

\* An identity operation leaves the channel, answered or tracked.
LEMMA ClientsAnswered ==
  ASSUME ControllerInvariant, NEW f, Onwards(f), Taken(f, {}),
         cmds # <<>>, Head(cmds).op = "manage", cmds' = Tail(cmds),
         NEW c, c = Head(cmds).by, NEW a \in {"true", "tracked", "error"}, Answer(c, a),
         a = "true" => fate[target[c]] = "controller" /\ fate'[target[c]] = "RemovedFromQueue",
         a = "tracked" => /\ fate'[target[c]] \in Kinds \cup {"registry"}
                          /\ Cardinality(Tracked) < IdentityCap
  PROVE  Clients(cmds', fate', caller', reg', Tracked')
<1>1. /\ Commanded(cmds, fate, caller) /\ Called(caller, fate) /\ Told(caller, fate, reg)
      /\ Cardinality(Tracked) <= IdentityCap
      /\ \A i \in Ids : fate[i] = "registry" <=> reg[i] # "none"
  BY DEF ControllerInvariant, Known
<1>2. cmds # <<>> /\ Head(cmds).op = "manage" /\ cmds' = Tail(cmds)
  OBVIOUS
<1>3. c \in Callers /\ caller[c] = "sent" /\ Head(cmds) \in Sent(fate, caller)
  BY <1>2, HeadWasSent
<1>4. /\ caller \in [Callers -> CallStates] /\ target \in [Callers -> Ids \cup {NoId}]
      /\ caller' = [caller EXCEPT ![c] = a]
      /\ target[c] \in Ids /\ fate[target[c]] # "new"
  BY <1>1, <1>3 DEF Called, Answer
<1>5. /\ caller' \in [Callers -> CallStates] /\ caller'[c] = a
      /\ \A d \in Callers : d # c => caller'[d] = caller[d]
  BY <1>3, <1>4 DEF CallStates
<1>6. Called(caller, fate') /\ Told(caller, fate', reg')
  <2>1. PICK g, r : g = fate' /\ r = reg'
    OBVIOUS
  <2>2. /\ \A i \in Ids : fate[i] \in Kinds \cup {"registry"} => g[i] = fate[i]
        /\ \A i \in Ids : fate[i] # "new" => g[i] # "new"
        /\ \A i \in Ids : reg[i] \in Leaving => r[i] \in Leaving
        /\ \A i \in Ids : reg[i] = "rejected" => r[i] = "rejected"
    BY <2>1 DEF Onwards
  <2>3. Called(caller, g) /\ Told(caller, g, r)
    BY <1>1, <2>2, ToldStays
  <2> QED
    BY <2>1, <2>3
<1>7. Called(caller', fate')
  <2>1. \A d \in Callers : caller'[d] # "idle" => caller[d] # "idle"
    BY <1>3, <1>5
  <2>2. \A d \in Callers : caller'[d] = "tracked" => fate'[target[d]] \in Kinds \cup {"registry"}
    BY <1>5, <1>6 DEF Called
  <2> QED
    BY <1>5, <1>6, <2>1, <2>2 DEF Called
<1>8. Told(caller', fate', reg')
  <2>1. /\ \A d \in Callers : Won(d, caller) =>
             fate'[target[d]] = "RemovedFromQueue" \/ reg'[target[d]] \in Leaving
        /\ \A d, e \in Callers :
             Won(d, caller) /\ Won(e, caller) /\ target[d] = target[e] => d = e
        /\ \A d \in Callers : caller[d] = "false" =>
             fate'[target[d]] \in Kinds \/ reg'[target[d]] \in Leaving \cup {"rejected"}
    BY <1>6 DEF Told
  <2>2. Won(c, caller') => a = "true"
    BY <1>5 DEF Won
  <2>3. \A d \in Callers : d # c => (Won(d, caller') <=> Won(d, caller))
    BY <1>5 DEF Won
  <2>4. a = "true" => \A d \in Callers : Won(d, caller) => target[d] # target[c]
    <3>1. \A d \in Callers : Won(d, caller) =>
            fate[target[d]] = "RemovedFromQueue" \/ reg[target[d]] \in Leaving
      BY <1>1 DEF Told
    <3>2. a = "true" => reg[target[c]] = "none" /\ fate[target[c]] # "RemovedFromQueue"
      BY <1>1, <1>4
    <3>3. "none" \notin Leaving
      BY DEF Leaving
    <3> QED
      BY <3>1, <3>2, <3>3
  <2>5. \A d, e \in Callers :
          Won(d, caller') /\ Won(e, caller') /\ target[d] = target[e] => d = e
    BY <1>3, <2>1, <2>2, <2>3, <2>4
  <2>6. \A d \in Callers : Won(d, caller') =>
          fate'[target[d]] = "RemovedFromQueue" \/ reg'[target[d]] \in Leaving
    BY <2>1, <2>2, <2>3
  <2>7. \A d \in Callers : caller'[d] = "false" =>
          fate'[target[d]] \in Kinds \/ reg'[target[d]] \in Leaving \cup {"rejected"}
    BY <1>5, <2>1
  <2> QED
    BY <2>5, <2>6, <2>7 DEF Told
<1>9. Sent(fate', caller') = Sent(fate, caller) \ {Head(cmds)}
  <2>1. \A i \in Ids : fate'[i] = "command" <=> fate[i] = "command"
    BY DEF Onwards, Taken
  <2>2. \A x \in Commands : x.op = "manage" => (x = Head(cmds) <=> x.by = c)
    BY <1>2, <1>3 DEF Sent, Commands
  <2>3. \A x \in Commands : x.op = "submit" => x # Head(cmds)
    BY <1>2
  <2>4. \A x \in Commands : \/ x.op = "submit" /\ x.id \in Ids
                            \/ x.op = "manage" /\ x.by \in Callers
    BY DEF Commands
  <2>5. \A d \in Callers : caller'[d] = "sent" <=> caller[d] = "sent" /\ d # c
    BY <1>5
  <2> QED
    BY <2>1, <2>2, <2>3, <2>4, <2>5 DEF Sent
<1>10. Commanded(cmds', fate', caller')
  <2>1. PICK q, f0, k, g, h : /\ q = cmds /\ f0 = fate /\ k = caller
                              /\ g = fate' /\ h = caller'
    OBVIOUS
  <2>2. Commanded(q, f0, k) /\ q # <<>> /\ Sent(g, h) = Sent(f0, k) \ {Head(q)}
    BY <1>1, <1>2, <1>9, <2>1
  <2>3. Commanded(Tail(q), g, h)
    BY <2>2, CommandTaken
  <2> QED
    BY <1>2, <2>1, <2>3
<1>11. Cardinality(Tracked') <= IdentityCap
  <2>1. PICK T : T = Tracked
    OBVIOUS
  <2>2. IsFiniteSet(T) /\ Cardinality(T) \in Nat /\ IdentityCap \in Nat
    <3>1. T \subseteq Callers
      BY <2>1 DEF Tracked
    <3>2. IsFiniteSet(T)
      BY <3>1, ControllerAssumption, FS_Subset
    <3> QED
      BY <3>2, ControllerAssumption, FS_CardinalityType
  <2>3. CASE a = "tracked"
    <3>1. Tracked' = T \cup {c} /\ c \notin T
      BY <1>3, <1>5, <2>1, <2>3 DEF Tracked
    <3>2. Cardinality(T \cup {c}) = Cardinality(T) + 1
      BY <2>2, <3>1, FS_AddElement
    <3> QED
      BY <2>1, <2>2, <2>3, <3>1, <3>2
  <2>4. CASE a # "tracked"
    <3>1. Tracked' = T
      BY <1>3, <1>5, <2>1, <2>4 DEF Tracked
    <3> QED
      BY <1>1, <2>1, <3>1
  <2> QED
    BY <2>3, <2>4
<1> QED
  BY <1>7, <1>8, <1>10, <1>11 DEF Clients

\* An operation that overtook nothing: its submission is out of the channel.
LEMMA SubmittedBefore ==
  ASSUME ControllerInvariant, cmds # <<>>, Head(cmds).op = "manage",
         NEW i, i = target[Head(cmds).by]
  PROVE  i \in Ids /\ fate[i] \notin {"new", "command"}
<1>1. PICK q, c : q = cmds /\ c = Head(cmds).by
  OBVIOUS
<1>2. /\ Lists(Commands, q, Sent(fate, caller)) /\ q \in Seq(Commands)
      /\ \A m, n \in DOMAIN q :
           q[m].op = "manage" /\ q[n] = [op |-> "submit", id |-> target[q[m].by]] => n < m
  BY <1>1 DEF ControllerInvariant, Commanded, Lists
<1>3. c \in Callers /\ caller[c] = "sent"
  BY <1>1, HeadWasSent
<1>4. i \in Ids /\ fate[i] # "new"
  BY <1>1, <1>3 DEF ControllerInvariant, Called
<1>5. ASSUME fate[i] = "command" PROVE FALSE
  <2>1. PICK x : x = [op |-> "submit", id |-> i]
    OBVIOUS
  <2>2. x \in Commands /\ x.op = "submit" /\ x.id = i
    BY <1>4, <2>1 DEF Commands
  <2>3. x \in Sent(fate, caller)
    BY <1>5, <2>2 DEF Sent
  <2>4. PICK X : X = Sent(fate, caller)
    OBVIOUS
  <2>5. PICK n \in 1..Len(q) : q[n] = x
    BY <1>2, <2>3, <2>4, ListsByPlace
  <2>6. /\ 1 \in DOMAIN q /\ n \in DOMAIN q /\ q[1] = Head(q) /\ n \in Nat /\ n >= 1
    BY <1>1, <1>2, <2>5
  <2>7. n < 1
    BY <1>1, <1>2, <2>1, <2>5, <2>6
  <2> QED
    BY <2>6, <2>7
<1> QED
  BY <1>4, <1>5

\* handle_identity_operation, whichever way it goes.
LEMMA Identities ==
  ASSUME ControllerInvariant, HandleIdentity
  PROVE  ControllerInvariant' /\ VerdictsKept
<1>1. PICK c, i : c = Head(cmds).by /\ i = target[c]
  OBVIOUS
<1>2. /\ Taking("manage") /\ loop = "running" /\ cmds # <<>> /\ Head(cmds).op = "manage"
      /\ UNCHANGED <<inputs, downVars, target>> /\ UNCHANGED trackVars
      /\ completions' = completions /\ removals' = removals /\ cmds' = Tail(cmds)
  BY DEF HandleIdentity, Taking, trackVars
<1>3. i \in Ids /\ fate[i] \notin {"new", "command"}
  BY <1>1, <1>2, SubmittedBefore
<1>4. /\ fate \in [Ids -> Fates] /\ reg \in [Ids -> RegStates] /\ removals \subseteq Ids
      /\ \A j \in Ids : fate[j] = "controller" <=> j \in indexed \cup capacity
      /\ Course /\ Places
  BY Halves DEF ControllerInvariant, Watched, Known
<1>5. CASE \E a \in {"tracked", "error"} :
             /\ Answer(c, a) /\ UNCHANGED <<fate, slotVars, waitVars, admissions, reg>>
             /\ a = "tracked" => ~Waiting(i) /\ Cardinality(Tracked) < IdentityCap
  <2>1. PICK a \in {"tracked", "error"} :
             /\ Answer(c, a) /\ UNCHANGED <<fate, slotVars, waitVars, admissions, reg>>
             /\ a = "tracked" => ~Waiting(i) /\ Cardinality(Tracked) < IdentityCap
    BY <1>5
  <2>2. PICK f : f = fate
    OBVIOUS
  <2>3. Onwards(f) /\ Taken(f, {})
    BY <2>1, <2>2 DEF Onwards, Taken
  <2>4. a = "tracked" => /\ fate'[target[c]] \in Kinds \cup {"registry"}
                         /\ Cardinality(Tracked) < IdentityCap
    <3>1. a = "tracked" => fate[i] # "controller"
      BY <1>3, <1>4, <2>1 DEF Waiting
    <3> QED
      BY <1>1, <1>3, <1>4, <2>1, <3>1 DEF Fates
  <2>5. Clients(cmds', fate', caller', reg', Tracked')
    BY <1>1, <1>2, <2>1, <2>3, <2>4, ClientsAnswered
  <2>6. Clientele'
    <3>1. /\ Commanded(cmds', fate', caller') /\ Called(caller', fate')
          /\ Told(caller', fate', reg') /\ Cardinality(Tracked') <= IdentityCap
      BY <2>5 DEF Clients
    <3> QED
      BY <1>2, <3>1 DEF Clientele, Commanded, Called, Told, Sent, Won
  <2>7. Course'
    BY <1>2, <1>4, <2>1 DEF Course, downVars, waitVars
  <2>8. Places'
    <3>1. UNCHANGED <<inputs, slotVars, waitVars, admissions, completions>>
      BY <1>2, <2>1
    <3>2. loop' = loop /\ gate' = gate /\ gate \in {"open", "closed"}
      BY <1>2, <1>4 DEF downVars, Course
    <3> QED
      BY <1>2, <1>4, <2>1, <3>1, <3>2, Still
  <2>9. ControllerInvariant'
    BY <2>6, <2>7, <2>8 DEF Clientele, Places, ControllerInvariant
  <2> QED
    BY <2>1, <2>9 DEF VerdictsKept
<1>6. CASE Answer(c, "true") /\ (ClaimCapacity(i) \/ ClaimQueued(i))
  <2>1. /\ Worked(slotOf[i], {}) /\ slotOf[i] \in Slots
        /\ fate[i] = "controller" /\ fate'[i] = "RemovedFromQueue"
    BY <1>2, <1>3, <1>6, CapacityClaimed, QueuedClaimed
  <2>2. PICK s : s = slotOf[i]
    OBVIOUS
  <2>3. PICK f : Settles(f) /\ Handled(s, f, completions') /\ Taken(f, {})
    BY <2>1, <2>2 DEF Worked
  <2>4. PICK comp : comp = completions'
    OBVIOUS
  <2>5. Onwards(f)
    BY <1>4, <2>3, <2>4, HandledOnwards
  <2>6. PICK a : a = "true"
    OBVIOUS
  <2>7. Clients(cmds', fate', caller', reg', Tracked')
    <3>1. /\ a \in {"true", "tracked", "error"} /\ Answer(c, a) /\ a # "tracked"
          /\ fate[target[c]] = "controller" /\ fate'[target[c]] = "RemovedFromQueue"
      BY <1>1, <1>6, <2>1, <2>6
    <3> QED
      BY <1>1, <1>2, <2>3, <2>5, <3>1, ClientsAnswered
  <2> QED
    BY <1>2, <2>1, <2>2, <2>3, <2>7, HandledKeeps DEF Worked
<1> QED
  <2>1. CASE token /\ Answer(c, "error") /\ UNCHANGED <<fate, slotVars, waitVars, admissions, reg>>
    BY <1>5, <2>1
  <2>2. CASE /\ ~Waiting(i)
             /\ Answer(c, IF Cardinality(Tracked) < IdentityCap THEN "tracked" ELSE "error")
             /\ UNCHANGED <<fate, slotVars, waitVars, admissions, reg>>
    BY <1>5, <2>2
  <2> QED
    BY <1>1, <1>6, <2>1, <2>2 DEF HandleIdentity

\* What the registry may do to tasks it knows.
RegistryMoves ==
    /\ reg' \in [Ids -> RegStates]
    /\ \A i \in Ids :
         \/ reg'[i] = reg[i]
         \/ reg[i] = "queued" /\ reg'[i] \in {"live", "rejected"}
         \/ reg[i] = "live" /\ reg'[i] = "removing"
         \/ reg[i] \in {"removing", "released"} /\ reg'[i] \in {"released", "gone"}

\* Tasks do not come back.
LEMMA RegistryMovesOn ==
  ASSUME RegistryMoves
  PROVE  /\ \A i \in Ids : reg'[i] = "none" <=> reg[i] = "none"
         /\ \A i \in Ids : reg'[i] \in Active => reg[i] \in Active
         /\ \A i \in Ids : reg[i] \in Leaving => reg'[i] \in Leaving
         /\ \A i \in Ids : reg[i] = "rejected" => reg'[i] = "rejected"
BY DEF RegistryMoves, Active, Leaving

\* A caller's operation is decided, or returns.
LEMMA ClientsTold ==
  ASSUME ControllerInvariant, RegistryMoves, UNCHANGED <<cmds, fate>>, NEW c \in Callers,
         caller[c] \in {"tracked", "joined", "claimed"},
         NEW a \in {"joined", "claimed", "true", "false", "error"}, Answer(c, a),
         a \in {"true", "claimed"} => /\ reg'[target[c]] \in Leaving
                                      /\ caller[c] = "claimed" \/ reg[target[c]] = "live",
         a = "false" => \/ fate[target[c]] \in Kinds
                        \/ reg'[target[c]] \in Leaving \cup {"rejected"}
  PROVE  Clients(cmds', fate', caller', reg', Tracked')
<1>1. /\ Commanded(cmds, fate, caller) /\ Called(caller, fate) /\ Told(caller, fate, reg)
      /\ Cardinality(Tracked) <= IdentityCap
      /\ \A i \in Ids : fate[i] = "registry" <=> reg[i] # "none"
  BY DEF ControllerInvariant, Known
<1>2. /\ caller \in [Callers -> CallStates] /\ caller' = [caller EXCEPT ![c] = a]
      /\ target[c] \in Ids
  BY <1>1 DEF Called, Answer
<1>3. /\ caller' \in [Callers -> CallStates] /\ caller'[c] = a
      /\ \A d \in Callers : d # c => caller'[d] = caller[d]
  BY <1>2 DEF CallStates
<1>4. Called(caller, fate) /\ Told(caller, fate, reg')
  <2>1. PICK g, r : g = fate /\ r = reg'
    OBVIOUS
  <2>2. /\ \A i \in Ids : fate[i] \in Kinds \cup {"registry"} => g[i] = fate[i]
        /\ \A i \in Ids : fate[i] # "new" => g[i] # "new"
        /\ \A i \in Ids : reg[i] \in Leaving => r[i] \in Leaving
        /\ \A i \in Ids : reg[i] = "rejected" => r[i] = "rejected"
    BY <2>1, RegistryMovesOn
  <2>3. Called(caller, g) /\ Told(caller, g, r)
    BY <1>1, <2>2, ToldStays
  <2> QED
    BY <2>1, <2>3
<1>5. Called(caller', fate')
  BY <1>3, <1>4 DEF Called
<1>6. Told(caller', fate', reg')
  <2>1. /\ \A d \in Callers : Won(d, caller) =>
             fate[target[d]] = "RemovedFromQueue" \/ reg'[target[d]] \in Leaving
        /\ \A d, e \in Callers :
             Won(d, caller) /\ Won(e, caller) /\ target[d] = target[e] => d = e
        /\ \A d \in Callers : caller[d] = "false" =>
             fate[target[d]] \in Kinds \/ reg'[target[d]] \in Leaving \cup {"rejected"}
    BY <1>4 DEF Told
  <2>2. Won(c, caller') => a \in {"true", "claimed"}
    BY <1>3 DEF Won
  <2>3. \A d \in Callers : d # c => (Won(d, caller') <=> Won(d, caller))
    BY <1>3 DEF Won
  <2>4. Won(c, caller') => \A d \in Callers : Won(d, caller) /\ d # c => target[d] # target[c]
    <3>1. CASE caller[c] = "claimed"
      <4>1. Won(c, caller)
        BY <3>1 DEF Won
      <4> QED
        BY <2>1, <4>1
    <3>2. CASE reg[target[c]] = "live"
      <4>1. \A d \in Callers : Won(d, caller) =>
              fate[target[d]] = "RemovedFromQueue" \/ reg[target[d]] \in Leaving
        BY <1>1 DEF Told
      <4>2. fate[target[c]] = "registry" /\ "live" \notin Leaving
        BY <1>1, <1>2, <3>2 DEF Leaving
      <4> QED
        BY <3>2, <4>1, <4>2
    <3> QED
      BY <2>2, <3>1, <3>2
  <2>5. \A d, e \in Callers :
          Won(d, caller') /\ Won(e, caller') /\ target[d] = target[e] => d = e
    BY <2>1, <2>3, <2>4
  <2>6. \A d \in Callers : Won(d, caller') =>
          fate'[target[d]] = "RemovedFromQueue" \/ reg'[target[d]] \in Leaving
    BY <2>1, <2>2, <2>3
  <2>7. \A d \in Callers : caller'[d] = "false" =>
          fate'[target[d]] \in Kinds \/ reg'[target[d]] \in Leaving \cup {"rejected"}
    BY <1>3, <2>1
  <2> QED
    BY <2>5, <2>6, <2>7 DEF Told
<1>7. Commanded(cmds', fate', caller')
  <2>1. \A d \in Callers : caller'[d] = "sent" <=> caller[d] = "sent"
    BY <1>3
  <2>2. Sent(fate, caller') = Sent(fate, caller)
    BY <2>1 DEF Sent, Commands
  <2> QED
    BY <1>1, <2>2 DEF Commanded
<1>8. Cardinality(Tracked') <= IdentityCap
  <2>1. PICK T, U : T = Tracked /\ U = Tracked'
    OBVIOUS
  <2>2. U \subseteq T /\ T \subseteq Callers
    BY <1>3, <2>1 DEF Tracked
  <2>3. IsFiniteSet(T) /\ IsFiniteSet(U)
    BY <2>2, ControllerAssumption, FS_Subset
  <2>4. Cardinality(U) <= Cardinality(T) /\ Cardinality(T) \in Nat /\ Cardinality(U) \in Nat
    BY <2>2, <2>3, FS_Subset, FS_CardinalityType
  <2> QED
    BY <1>1, <2>1, <2>4, ControllerAssumption
<1> QED
  BY <1>5, <1>6, <1>7, <1>8 DEF Clients

\* A step that leaves the loop, the submissions and their places alone.
LEMMA OnlyCallers ==
  ASSUME ControllerInvariant, RegistryMoves, removals' \subseteq removals,
         UNCHANGED <<inputs, downVars, fate, slotVars, waitVars, admissions, completions, target>>,
         Clients(cmds', fate', caller', reg', Tracked')
  PROVE  ControllerInvariant' /\ VerdictsKept
<1>1. Course /\ Places /\ fate \in [Ids -> Fates] /\ removals \subseteq Ids
  BY Halves DEF ControllerInvariant, Watched
<1>2. /\ loop' = loop /\ gate' = gate /\ token' = token /\ pump' = pump
      /\ gate \in {"open", "closed"}
  BY <1>1 DEF downVars, waitVars, Course
<1>3. Course'
  BY <1>1, <1>2 DEF Course
<1>4. Places'
  <2>1. UNCHANGED <<inputs, slotVars, waitVars, admissions, completions>> /\ fate' = fate
    OBVIOUS
  <2>2. /\ reg' \in [Ids -> RegStates] /\ removals' \subseteq Ids
        /\ \A i \in Ids : reg'[i] = "none" <=> reg[i] = "none"
        /\ \A i \in Ids : reg'[i] \in Active => reg[i] \in Active
    BY <1>1, RegistryMovesOn DEF RegistryMoves
  <2> QED
    BY <1>1, <1>2, <2>1, <2>2, Still
<1>5. Clientele'
  <2>1. /\ Commanded(cmds', fate', caller') /\ Called(caller', fate')
        /\ Told(caller', fate', reg') /\ Cardinality(Tracked') <= IdentityCap
    BY DEF Clients
  <2> QED
    BY <2>1 DEF Clientele, Commanded, Called, Told, Sent, Won
<1>6. ControllerInvariant'
  BY <1>3, <1>4, <1>5 DEF Clientele, Places, ControllerInvariant
<1> QED
  BY <1>6 DEF VerdictsKept

\* The registry moves on, and no client sees it.
LEMMA OnlyRegistry ==
  ASSUME ControllerInvariant, RegistryMoves, removals' \subseteq removals,
         UNCHANGED <<inputs, cmds, downVars, fate, slotVars, waitVars, admissions, completions,
                     callVars>>
  PROVE  ControllerInvariant' /\ VerdictsKept
<1>1. PICK f : f = fate
  OBVIOUS
<1>2. Onwards(f) /\ \A i \in Ids : f[i] = "command" <=> fate[i] = "command"
  BY <1>1, RegistryMovesOn DEF Onwards
<1>3. UNCHANGED <<cmds, caller>> /\ UNCHANGED target
  BY DEF callVars
<1>4. Clients(cmds', fate', caller', reg', Tracked')
  BY <1>2, <1>3, ClientsUndisturbed
<1> QED
  BY <1>3, <1>4, OnlyCallers

\* One task moves on.
LEMMA OneTaskMoves ==
  ASSUME reg \in [Ids -> RegStates], NEW i \in Ids, NEW to, reg' = [reg EXCEPT ![i] = to],
         \/ to = reg[i]
         \/ reg[i] = "queued" /\ to \in {"live", "rejected"}
         \/ reg[i] = "live" /\ to = "removing"
         \/ reg[i] \in {"removing", "released"} /\ to \in {"released", "gone"}
  PROVE  RegistryMoves
<1>1. to \in RegStates
  BY DEF RegStates
<1>2. /\ reg' \in [Ids -> RegStates] /\ reg'[i] = to
      /\ \A j \in Ids : j # i => reg'[j] = reg[j]
  BY <1>1
<1> QED
  BY <1>2 DEF RegistryMoves

\* The registry's own steps, and the removal of a displaced owner.
LEMMA RegistrySteps ==
  ASSUME ControllerInvariant, NEW i \in Ids,
         RegistryDecides(i) \/ RegistryClaims(i) \/ RegistryCleansUp(i) \/ RemovalResult(i)
  PROVE  ControllerInvariant' /\ VerdictsKept
<1>1. reg \in [Ids -> RegStates]
  BY DEF ControllerInvariant, Known
<1>2. ASSUME NEW from, NEW to, RegistryStep(i, from, to),
             \/ from = {"queued"} /\ to \in {"live", "rejected"}
             \/ from = {"live"} /\ to = "removing"
             \/ from \subseteq {"removing", "released"} /\ to \in {"released", "gone"}
      PROVE  ControllerInvariant' /\ VerdictsKept
  <2>1. /\ reg[i] \in from /\ reg' = [reg EXCEPT ![i] = to]
        /\ UNCHANGED <<inputs, cmds, downVars, fate, slotVars, waitVars, admissions, trackVars,
                       callVars>>
    BY <1>2 DEF RegistryStep
  <2>2. RegistryMoves
    BY <1>1, <1>2, <2>1, OneTaskMoves
  <2>3. completions' = completions /\ removals' = removals
    BY <2>1 DEF trackVars
  <2> QED
    BY <2>1, <2>2, <2>3, OnlyRegistry
<1>3. CASE RegistryDecides(i)
  BY <1>2, <1>3 DEF RegistryDecides
<1>4. CASE RegistryClaims(i)
  BY <1>2, <1>4 DEF RegistryClaims
<1>5. CASE RegistryCleansUp(i)
  <2>1. CASE RegistryStep(i, {"removing"}, "released")
    BY <1>2, <2>1
  <2>2. CASE RegistryStep(i, {"removing", "released"}, "gone")
    BY <1>2, <2>2
  <2> QED
    BY <1>5, <2>1, <2>2 DEF RegistryCleansUp
<1>6. CASE RemovalResult(i)
  <2>1. /\ removals' = removals \ {i}
        /\ reg' = [reg EXCEPT ![i] = IF @ = "live" THEN "removing" ELSE @] \/ reg' = reg
        /\ UNCHANGED <<inputs, cmds, downVars, fate, slotVars, waitVars, admissions,
                       completions, callVars>>
    BY <1>6 DEF RemovalResult
  <2>2. RegistryMoves
    <3>1. CASE reg' = [reg EXCEPT ![i] = IF @ = "live" THEN "removing" ELSE @]
      <4>1. PICK to : to = IF reg[i] = "live" THEN "removing" ELSE reg[i]
        OBVIOUS
      <4>2. reg' = [reg EXCEPT ![i] = to]
        BY <3>1, <4>1
      <4>3. to = reg[i] \/ (reg[i] = "live" /\ to = "removing")
        BY <4>1
      <4> QED
        BY <1>1, <4>2, <4>3, OneTaskMoves
    <3>2. CASE reg' = reg
      BY <1>1, <3>2 DEF RegistryMoves
    <3> QED
      BY <2>1, <3>1, <3>2
  <2> QED
    BY <2>1, <2>2, OnlyRegistry
<1> QED
  BY <1>3, <1>4, <1>5, <1>6

\* The registry decides a tracked operation.
LEMMA Decisions ==
  ASSUME ControllerInvariant, NEW c \in Callers, IdentityDecided(c)
  PROVE  ControllerInvariant' /\ VerdictsKept
<1>1. PICK i : i = target[c]
  OBVIOUS
<1>2. /\ caller[c] = "tracked" /\ reg[i] # "queued"
      /\ UNCHANGED <<inputs, cmds, downVars, fate, slotVars, waitVars, admissions, trackVars, target>>
      /\ \/ /\ reg[i] = "live" /\ reg' = [reg EXCEPT ![i] = "removing"]
            /\ Answer(c, "true") \/ Answer(c, "claimed")
         \/ Answer(c, "joined") /\ reg' = reg
         \/ reg[i] # "live" /\ Answer(c, "false") /\ reg' = reg
         \/ Answer(c, "error") /\ reg' = reg
  BY <1>1 DEF IdentityDecided
<1>3. completions' = completions /\ removals' = removals
  BY <1>2 DEF trackVars
<1>4. /\ reg \in [Ids -> RegStates] /\ i \in Ids /\ fate[i] \in Kinds \cup {"registry"}
      /\ \A j \in Ids : fate[j] = "registry" <=> reg[j] # "none"
  BY <1>1, <1>2 DEF ControllerInvariant, Known, Called
<1>5. ASSUME RegistryMoves, NEW a \in {"joined", "claimed", "true", "false", "error"}, Answer(c, a),
             a \in {"true", "claimed"} => reg'[i] \in Leaving /\ reg[i] = "live",
             a = "false" => fate[i] \in Kinds \/ reg'[i] \in Leaving \cup {"rejected"}
      PROVE  ControllerInvariant' /\ VerdictsKept
  <2>1. Clients(cmds', fate', caller', reg', Tracked')
    BY <1>1, <1>2, <1>5, ClientsTold
  <2> QED
    BY <1>2, <1>3, <1>5, <2>1, OnlyCallers
<1>6. CASE /\ reg[i] = "live" /\ reg' = [reg EXCEPT ![i] = "removing"]
           /\ Answer(c, "true") \/ Answer(c, "claimed")
  <2>1. RegistryMoves
    BY <1>4, <1>6, OneTaskMoves
  <2>2. reg'[i] \in Leaving
    BY <1>4, <1>6 DEF Leaving
  <2> QED
    BY <1>5, <1>6, <2>1, <2>2
<1>7. CASE reg' = reg /\ (Answer(c, "joined") \/ Answer(c, "error"))
  <2>1. RegistryMoves
    BY <1>4, <1>7 DEF RegistryMoves
  <2> QED
    BY <1>5, <1>7, <2>1
<1>8. CASE reg[i] # "live" /\ Answer(c, "false") /\ reg' = reg
  <2>1. RegistryMoves
    BY <1>4, <1>8 DEF RegistryMoves
  <2>2. fate[i] \in Kinds \/ reg'[i] \in Leaving \cup {"rejected"}
    BY <1>2, <1>4, <1>8 DEF RegStates, Leaving
  <2> QED
    BY <1>5, <1>8, <2>1, <2>2
<1> QED
  BY <1>2, <1>6, <1>7, <1>8

\* A cancel returns.
LEMMA Returns ==
  ASSUME ControllerInvariant, NEW c \in Callers, CancelReturned(c)
  PROVE  ControllerInvariant' /\ VerdictsKept
<1>1. PICK i, a : /\ i = target[c]
                  /\ a = IF caller'[c] = "error" THEN "error"
                         ELSE IF caller[c] = "claimed" THEN "true" ELSE "false"
  OBVIOUS
<1>2. /\ caller[c] \in {"claimed", "joined"} /\ reg' = reg
      /\ UNCHANGED <<inputs, cmds, downVars, fate, slotVars, waitVars, admissions, trackVars, target>>
  BY DEF CancelReturned
<1>3. /\ reg \in [Ids -> RegStates] /\ caller \in [Callers -> CallStates]
  BY DEF ControllerInvariant, Known, Called
<1>4. Answer(c, a) /\ a \in {"true", "false", "error"} /\ (a # "error" => reg[i] \in Leaving)
  <2>1. CASE Answer(c, "error")
    BY <1>1, <1>3, <2>1 DEF Answer
  <2>2. CASE /\ reg[i] \in {"released", "gone"}
             /\ Answer(c, IF caller[c] = "claimed" THEN "true" ELSE "false")
    BY <1>1, <1>3, <2>2 DEF Answer, Leaving
  <2> QED
    BY <1>1, <2>1, <2>2 DEF CancelReturned
<1>5. a = "true" => caller[c] = "claimed"
  BY <1>1
<1>6. RegistryMoves
  BY <1>2, <1>3 DEF RegistryMoves
<1>7. completions' = completions /\ removals' = removals
  BY <1>2 DEF trackVars
<1>8. Clients(cmds', fate', caller', reg', Tracked')
  BY <1>1, <1>2, <1>4, <1>5, <1>6, ClientsTold
<1> QED
  BY <1>2, <1>6, <1>7, <1>8, OnlyCallers

\* A command enters the channel behind the others; t are the targets then.
LEMMA CommandSent ==
  ASSUME NEW q, NEW f, NEW k, Commanded(q, f, k), Len(q) < CommandCap,
         NEW x \in Commands, x \notin Sent(f, k), NEW t,
         \A m \in DOMAIN q : q[m].op = "manage" =>
           t[q[m].by] = target[q[m].by] /\ (x.op = "submit" => target[q[m].by] # x.id)
  PROVE  LET p == Append(q, x)
         IN /\ Lists(Commands, p, Sent(f, k) \cup {x}) /\ Len(p) <= CommandCap
            /\ \A m, n \in DOMAIN p :
                 p[m].op = "manage" /\ p[n] = [op |-> "submit", id |-> t[p[m].by]] => n < m
<1>1. Lists(Commands, q, Sent(f, k)) /\ q \in Seq(Commands)
  BY DEF Commanded, Lists
<1>2. PICK p, X, L : p = Append(q, x) /\ X = Sent(f, k) /\ L = Len(q)
  OBVIOUS
<1>3. Lists(Commands, p, X \cup {x}) /\ Len(p) = Len(q) + 1
  BY <1>1, <1>2, ListsAppend
<1>4. /\ L \in Nat /\ DOMAIN q = 1..L /\ DOMAIN p = 1..(L + 1) /\ p[L + 1] = x
      /\ \A m \in 1..L : p[m] = q[m]
  BY <1>1, <1>2
<1>5. Len(p) <= CommandCap
  BY <1>2, <1>3, <1>4, ControllerAssumption
<1>6. ASSUME NEW m \in DOMAIN p, NEW n \in DOMAIN p, p[m].op = "manage",
             p[n] = [op |-> "submit", id |-> t[p[m].by]]
      PROVE  n < m
  <2>1. p[n].op = "submit" /\ p[n].id = t[p[m].by]
    BY <1>6
  <2>2. CASE m = L + 1
    <3>1. n # L + 1
      BY <1>4, <1>6, <2>1, <2>2
    <3> QED
      BY <1>4, <2>2, <3>1
  <2>3. CASE m # L + 1
    <3>1. m \in 1..L /\ m \in DOMAIN q /\ p[m] = q[m]
      BY <1>4, <2>3
    <3>2. t[p[m].by] = target[q[m].by] /\ (x.op = "submit" => target[q[m].by] # x.id)
      BY <1>6, <3>1
    <3>3. n # L + 1
      BY <1>4, <2>1, <3>2
    <3>4. n \in 1..L /\ n \in DOMAIN q /\ p[n] = q[n]
      BY <1>4, <3>3
    <3> QED
      BY <1>6, <3>1, <3>2, <3>4 DEF Commanded
  <2> QED
    BY <2>2, <2>3
<1> QED
  BY <1>2, <1>3, <1>5, <1>6

\* A submission enters the channel.
LEMMA Submits ==
  ASSUME ControllerInvariant, NEW i \in Ids, Submit(i)
  PROVE  ControllerInvariant' /\ VerdictsKept
<1>1. PICK x, g, k : /\ x = [op |-> "submit", id |-> i] /\ g = [fate EXCEPT ![i] = "command"]
                     /\ k = caller
  OBVIOUS
<1>2. /\ loop = "running" /\ fate[i] = "new" /\ Len(cmds) < CommandCap
      /\ cmds' = Append(cmds, x) /\ fate' = g
      /\ UNCHANGED <<inputs, downVars, slotVars, waitVars, admissions, trackVars, reg, callVars>>
  BY <1>1 DEF Submit, Send
<1>3. /\ Course /\ Places /\ Clientele /\ fate \in [Ids -> Fates]
      /\ removals \subseteq Ids /\ reg \in [Ids -> RegStates]
  BY Halves DEF ControllerInvariant, Watched, Known
<1>4. /\ g \in [Ids -> Fates] /\ g[i] = "command" /\ \A j \in Ids : j # i => g[j] = fate[j]
  BY <1>1, <1>3 DEF Fates
<1>5. /\ loop' = loop /\ gate' = gate /\ token' = token /\ pump' = pump
      /\ admissions' = admissions /\ completions' = completions /\ removals' = removals
      /\ caller' = caller /\ target' = target /\ reg' = reg
  BY <1>2 DEF downVars, waitVars, trackVars, callVars
<1>6. Course'
  BY <1>3, <1>5 DEF Course
<1>7. Places'
  <2>1. UNCHANGED <<inputs, slotVars, waitVars, admissions, completions>>
    BY <1>2, <1>5
  <2>2. gate \in {"open", "closed"}
    BY <1>3 DEF Course
  <2>3. /\ \A j \in Ids : fate'[j] = "controller" <=> fate[j] = "controller"
        /\ \A j \in Ids : fate'[j] = "registry" <=> fate[j] = "registry"
    BY <1>2, <1>4
  <2> QED
    BY <1>2, <1>3, <1>4, <1>5, <2>1, <2>2, <2>3, Still
<1>8. Called(caller, g) /\ Told(caller, g, reg)
  <2>1. PICK r : r = reg
    OBVIOUS
  <2>2. /\ \A j \in Ids : fate[j] \in Kinds \cup {"registry"} => g[j] = fate[j]
        /\ \A j \in Ids : fate[j] # "new" => g[j] # "new"
    <3>1. "new" \notin Kinds
      BY DEF Kinds
    <3> QED
      BY <1>2, <1>4, <3>1
  <2>3. Called(caller, g) /\ Told(caller, g, r)
    BY <1>3, <2>1, <2>2, ToldStays DEF Clientele
  <2> QED
    BY <2>1, <2>3
<1>9. Commanded(cmds', fate', caller')
  <2>1. PICK q, f, t : q = cmds /\ f = fate /\ t = target
    OBVIOUS
  <2>2. x \in Commands /\ x.op = "submit" /\ x.id = i
    BY <1>1 DEF Commands
  <2>3. x \notin Sent(f, k)
    BY <1>2, <2>1, <2>2 DEF Sent
  <2>4. Commanded(q, f, k) /\ Len(q) < CommandCap
    BY <1>1, <1>2, <1>3, <2>1 DEF Clientele
  <2>5. \A m \in DOMAIN q : q[m].op = "manage" => t[q[m].by] # i
    <3>1. \A m \in DOMAIN q : q[m] \in Sent(f, k)
      <4>1. q \in Seq(Commands) /\ Lists(Commands, q, Sent(f, k))
        BY <2>4 DEF Commanded, Lists
      <4>2. DOMAIN q = 1..Len(q)
        BY <4>1
      <4> QED
        BY <4>1, <4>2, ListsByPlace
    <3>2. \A m \in DOMAIN q : q[m].op = "manage" => q[m].by \in Callers /\ k[q[m].by] = "sent"
      BY <3>1 DEF Sent, Commands
    <3>3. \A c \in Callers : k[c] = "sent" => f[t[c]] # "new"
      BY <1>1, <1>3, <2>1 DEF Clientele, Called
    <3> QED
      BY <1>2, <2>1, <3>2, <3>3
  <2>6. LET p == Append(q, x)
        IN /\ Lists(Commands, p, Sent(f, k) \cup {x}) /\ Len(p) <= CommandCap
           /\ \A m, n \in DOMAIN p :
                p[m].op = "manage" /\ p[n] = [op |-> "submit", id |-> t[p[m].by]] => n < m
    BY <2>1, <2>2, <2>3, <2>4, <2>5, CommandSent
  <2>7. Sent(g, k) = Sent(f, k) \cup {x}
    <3>1. \A y \in Commands : \/ y.op = "submit" /\ y.id \in Ids /\ (y.id = i <=> y = x)
                              \/ y.op = "manage" /\ y # x
      BY <1>1 DEF Commands
    <3> QED
      BY <1>2, <1>4, <2>1, <2>2, <3>1 DEF Sent
  <2> QED
    BY <1>1, <1>2, <1>5, <2>1, <2>6, <2>7 DEF Commanded
<1>10. Clientele'
  <2>1. Tracked' = Tracked
    BY <1>5 DEF Tracked
  <2>2. Called(caller, fate)' /\ Told(caller, fate, reg)'
    BY <1>2, <1>5, <1>8 DEF Called, Told, Won
  <2>3. Commanded(cmds, fate, caller)'
    BY <1>5, <1>9 DEF Commanded, Sent
  <2> QED
    BY <1>3, <2>1, <2>2, <2>3 DEF Clientele
<1>11. VerdictsKept
  <2>1. "new" \notin Kinds
    BY DEF Kinds
  <2> QED
    BY <1>2, <1>4, <2>1 DEF VerdictsKept
<1> QED
  BY <1>6, <1>7, <1>10, <1>11 DEF Clientele, Places, ControllerInvariant

\* A remove or cancel enters the channel.
LEMMA Manages ==
  ASSUME ControllerInvariant, NEW c \in Callers, NEW i \in Ids, Manage(c, i)
  PROVE  ControllerInvariant' /\ VerdictsKept
<1>1. PICK x, k, t : /\ x = [op |-> "manage", by |-> c] /\ k = [caller EXCEPT ![c] = "sent"]
                     /\ t = [target EXCEPT ![c] = i]
  OBVIOUS
<1>2. /\ loop = "running" /\ caller[c] = "idle" /\ fate[i] # "new" /\ Len(cmds) < CommandCap
      /\ cmds' = Append(cmds, x) /\ caller' = k /\ target' = t
      /\ UNCHANGED <<inputs, downVars, fate, slotVars, waitVars, admissions, trackVars, reg>>
  BY <1>1 DEF Manage, Send
<1>3. /\ Course /\ Places /\ Clientele /\ fate \in [Ids -> Fates]
      /\ removals \subseteq Ids /\ reg \in [Ids -> RegStates]
      /\ caller \in [Callers -> CallStates] /\ target \in [Callers -> Ids \cup {NoId}]
  BY Halves DEF ControllerInvariant, Watched, Known, Called
<1>4. /\ k \in [Callers -> CallStates] /\ k[c] = "sent"
      /\ \A d \in Callers : d # c => k[d] = caller[d]
      /\ t \in [Callers -> Ids \cup {NoId}] /\ t[c] = i
      /\ \A d \in Callers : d # c => t[d] = target[d]
  BY <1>1, <1>3 DEF CallStates
<1>5. /\ loop' = loop /\ gate' = gate /\ token' = token /\ pump' = pump
      /\ admissions' = admissions /\ completions' = completions /\ removals' = removals
      /\ fate' = fate /\ reg' = reg
  BY <1>2 DEF downVars, waitVars, trackVars
<1>6. Course'
  BY <1>3, <1>5 DEF Course
<1>7. Places'
  <2>1. UNCHANGED <<inputs, slotVars, waitVars, admissions, completions>>
    BY <1>2, <1>5
  <2>2. gate \in {"open", "closed"}
    BY <1>3 DEF Course
  <2> QED
    BY <1>3, <1>5, <2>1, <2>2, Still
<1>8. Called(caller, fate)'
  BY <1>2, <1>3, <1>4, <1>5 DEF Clientele, Called
<1>9. Told(caller, fate, reg)'
  <2>1. Told(caller, fate, reg)
    BY <1>3 DEF Clientele
  <2>2. \A d \in Callers : Won(d, k) => d # c /\ Won(d, caller) /\ t[d] = target[d]
    BY <1>2, <1>4 DEF Won
  <2>3. \A d \in Callers : k[d] = "false" => d # c /\ caller[d] = "false" /\ t[d] = target[d]
    BY <1>4
  <2>4. \A d \in Callers : Won(d, caller)' <=> Won(d, k)
    BY <1>2 DEF Won
  <2> QED
    BY <1>2, <1>5, <2>1, <2>2, <2>3, <2>4 DEF Told
<1>10. Commanded(cmds, fate, caller)'
  <2>1. PICK q, f, h : q = cmds /\ f = fate /\ h = caller
    OBVIOUS
  <2>2. x \in Commands /\ x.op = "manage" /\ x.by = c
    BY <1>1 DEF Commands
  <2>3. x \notin Sent(f, h)
    BY <1>2, <2>1, <2>2 DEF Sent
  <2>4. Commanded(q, f, h) /\ Len(q) < CommandCap
    BY <1>2, <1>3, <2>1 DEF Clientele
  <2>5. \A m \in DOMAIN q : q[m].op = "manage" => t[q[m].by] = target[q[m].by]
    <3>1. \A m \in DOMAIN q : q[m] \in Sent(f, h)
      <4>1. q \in Seq(Commands) /\ Lists(Commands, q, Sent(f, h))
        BY <2>4 DEF Commanded, Lists
      <4>2. DOMAIN q = 1..Len(q)
        BY <4>1
      <4> QED
        BY <4>1, <4>2, ListsByPlace
    <3>2. \A m \in DOMAIN q : q[m].op = "manage" => q[m].by \in Callers /\ h[q[m].by] = "sent"
      BY <3>1 DEF Sent, Commands
    <3> QED
      BY <1>2, <1>4, <2>1, <3>2
  <2>6. LET p == Append(q, x)
        IN /\ Lists(Commands, p, Sent(f, h) \cup {x}) /\ Len(p) <= CommandCap
           /\ \A m, n \in DOMAIN p :
                p[m].op = "manage" /\ p[n] = [op |-> "submit", id |-> t[p[m].by]] => n < m
    BY <2>2, <2>3, <2>4, <2>5, CommandSent
  <2>7. Sent(f, k) = Sent(f, h) \cup {x}
    <3>1. \A y \in Commands : \/ y.op = "manage" /\ y.by \in Callers /\ (y.by = c <=> y = x)
                              \/ y.op = "submit" /\ y # x
      BY <1>1 DEF Commands
    <3> QED
      BY <1>2, <1>4, <2>1, <2>2, <3>1 DEF Sent
  <2>8. Sent(fate, caller)' = Sent(f, k)
    BY <1>2, <1>5, <2>1 DEF Sent
  <2> QED
    BY <1>2, <2>1, <2>6, <2>7, <2>8 DEF Commanded
<1>11. Clientele'
  <2>1. Tracked' = Tracked
    BY <1>2, <1>4 DEF Tracked
  <2> QED
    BY <1>3, <1>8, <1>9, <1>10, <2>1 DEF Clientele
<1> QED
  BY <1>5, <1>6, <1>7, <1>11 DEF Clientele, Places, ControllerInvariant, VerdictsKept

(***************************************************************************)
(* Shutdown.                                                               *)
(***************************************************************************)

\* begin_shutdown: the gate closes, then the token is cancelled.
LEMMA Shutdowns ==
  ASSUME ControllerInvariant, CloseGate \/ CancelStarted
  PROVE  ControllerInvariant' /\ VerdictsKept
<1>1. /\ Course /\ Places /\ Clientele /\ fate \in [Ids -> Fates]
      /\ removals \subseteq Ids /\ reg \in [Ids -> RegStates] /\ gate \in {"open", "closed"}
  BY Halves DEF ControllerInvariant, Watched, Known, Course
<1>2. /\ UNCHANGED <<inputs, slotVars, waitVars, admissions, completions>>
      /\ UNCHANGED <<cmds, fate, reg, caller, target, removals, pump>>
      /\ loop' = loop /\ gate' = "closed" /\ token' \in BOOLEAN /\ (token => token')
  BY <1>1 DEF CloseGate, CancelStarted, trackVars, callVars, waitVars, Course
<1>3. Course'
  BY <1>1, <1>2 DEF Course
<1>4. Places'
  BY <1>1, <1>2, Still
<1>5. Clientele'
  BY <1>1, <1>2 DEF Clientele, Commanded, Called, Told, Sent, Won, Tracked
<1> QED
  BY <1>2, <1>3, <1>4, <1>5 DEF Clientele, Places, ControllerInvariant, VerdictsKept

\* The loop breaks and drops what it tracked.
LEMMA LoopExits ==
  ASSUME ControllerInvariant, LoopExit
  PROVE  ControllerInvariant' /\ VerdictsKept
<1>1. Course /\ Places /\ Clientele
  BY Halves
<1>2. /\ token /\ loop' = "draining" /\ pump' = <<>>
      /\ admissions' = {} /\ completions' = {} /\ removals' = {}
      /\ caller' = [c \in Callers |-> IF c \in Tracked THEN "error" ELSE caller[c]]
      /\ slotOf' = slotOf /\ policy' = policy /\ cmds' = cmds /\ gate' = gate /\ token' = token
      /\ fate' = fate /\ slots' = slots /\ queue' = queue /\ indexed' = indexed
      /\ capacity' = capacity /\ reg' = reg /\ target' = target
  BY DEF LoopExit, inputs, slotVars
<1>3. Course'
  BY <1>1, <1>2 DEF Course
<1>4. Places'
  <2>1. Inputs' /\ Watched(fate, indexed, capacity, {})'
    BY <1>1, <1>2 DEF Places, Inputs, Watched
  <2>2. Known(fate, reg, admissions, completions, {})' /\ removals' \subseteq Ids
    BY <1>1, <1>2 DEF Places, Known
  <2>3. Lines'
    BY <1>1, <1>2 DEF Places, Lines, Lined, Queued, Present
  <2>4. Running'
    BY <1>2 DEF Running
  <2>5. SlotExclusive'
    BY <1>1, <1>2 DEF Places, SlotExclusive
  <2> QED
    BY <2>1, <2>2, <2>3, <2>4, <2>5 DEF Places
<1>5. caller \in [Callers -> CallStates] /\ "error" \in CallStates
  BY <1>1 DEF Clientele, Called, CallStates
<1>6. /\ caller' \in [Callers -> CallStates]
      /\ \A c \in Callers : \/ caller'[c] = caller[c] /\ c \notin Tracked
                            \/ caller'[c] = "error" /\ c \in Tracked
  BY <1>2, <1>5
<1>7. \A c \in Callers : c \in Tracked <=> caller[c] \in {"tracked", "joined", "claimed"}
  BY DEF Tracked
<1>8. Called(caller, fate)'
  BY <1>1, <1>2, <1>6, <1>7 DEF Clientele, Called
<1>9. Told(caller, fate, reg)'
  <2>1. Told(caller, fate, reg)
    BY <1>1 DEF Clientele
  <2>2. \A c \in Callers : Won(c, caller)' => Won(c, caller)
    BY <1>6 DEF Won
  <2>3. \A c \in Callers : caller'[c] = "false" => caller[c] = "false"
    BY <1>6
  <2> QED
    BY <1>2, <2>1, <2>2, <2>3 DEF Told
<1>10. Commanded(cmds, fate, caller)'
  <2>1. Commanded(cmds, fate, caller)
    BY <1>1 DEF Clientele
  <2>2. \A c \in Callers : caller'[c] = "sent" <=> caller[c] = "sent"
    BY <1>6, <1>7
  <2>3. Sent(fate, caller)' = Sent(fate, caller)
    BY <1>2, <2>2 DEF Sent, Commands
  <2> QED
    BY <1>2, <2>1, <2>3 DEF Commanded
<1>11. Cardinality(Tracked)' <= IdentityCap
  <2>1. Tracked' = {}
    BY <1>6, <1>7 DEF Tracked
  <2>2. Cardinality({}) = 0
    BY FS_EmptySet
  <2> QED
    BY <2>1, <2>2, ControllerAssumption
<1>12. Clientele'
  BY <1>8, <1>9, <1>10, <1>11 DEF Clientele
<1> QED
  BY <1>2, <1>3, <1>4, <1>12 DEF Clientele, Places, ControllerInvariant, VerdictsKept

\* drain_pending_on_shutdown.
LEMMA Drains ==
  ASSUME ControllerInvariant, DrainCommand
  PROVE  ControllerInvariant' /\ VerdictsKept
<1>1. /\ Course /\ Places /\ Clientele /\ fate \in [Ids -> Fates]
      /\ removals \subseteq Ids /\ reg \in [Ids -> RegStates] /\ gate \in {"open", "closed"}
  BY Halves DEF ControllerInvariant, Watched, Known, Course
<1>2. /\ cmds # <<>> /\ cmds' = Tail(cmds)
      /\ UNCHANGED <<inputs, downVars, slotVars, waitVars, admissions, trackVars, reg, target>>
  BY DEF DrainCommand
<1>3. /\ loop' = loop /\ gate' = gate /\ token' = token /\ pump' = pump /\ reg' = reg
      /\ completions' = completions /\ removals' = removals /\ admissions' = admissions
      /\ target' = target
  BY <1>2 DEF downVars, waitVars, trackVars
<1>4. Course'
  BY <1>1, <1>3 DEF Course
<1>5. /\ "ControllerShuttingDown" \in Kinds /\ Kinds \subseteq Fates /\ "new" \notin Kinds
      /\ {"controller", "command", "registry"} \cap Kinds = {}
  BY DEF Kinds, Fates
<1>6. ASSUME Clients(cmds', fate', caller', reg', Tracked'), fate' \in [Ids -> Fates],
             \A j \in Ids : fate'[j] = "controller" <=> fate[j] = "controller",
             \A j \in Ids : fate'[j] = "registry" <=> fate[j] = "registry"
      PROVE  ControllerInvariant'
  <2>1. Places'
    <3>1. UNCHANGED <<inputs, slotVars, waitVars, admissions, completions>>
      BY <1>2, <1>3
    <3> QED
      BY <1>1, <1>3, <1>6, <3>1, Still
  <2>2. Clientele'
    <3>1. /\ Commanded(cmds', fate', caller') /\ Called(caller', fate')
          /\ Told(caller', fate', reg') /\ Cardinality(Tracked') <= IdentityCap
      BY <1>6 DEF Clients
    <3> QED
      BY <1>3, <3>1 DEF Clientele, Commanded, Called, Told, Sent, Won
  <2> QED
    BY <1>4, <2>1, <2>2 DEF Clientele, Places, ControllerInvariant
<1>7. CASE /\ Head(cmds).op = "submit" /\ caller' = caller
           /\ fate' = [fate EXCEPT ![Head(cmds).id] = "ControllerShuttingDown"]
  <2>1. PICK i, f : i = Head(cmds).id /\ f = [fate EXCEPT ![i] = "ControllerShuttingDown"]
    OBVIOUS
  <2>2. i \in Ids /\ fate[i] = "command"
    BY <1>2, <1>7, <2>1, HeadWasSent
  <2>3. /\ f \in [Ids -> Fates] /\ f[i] = "ControllerShuttingDown" /\ fate' = f
        /\ \A j \in Ids : j # i => f[j] = fate[j]
    BY <1>1, <1>5, <1>7, <2>1, <2>2
  <2>4. /\ \A j \in Ids : fate'[j] = "controller" <=> fate[j] = "controller"
        /\ \A j \in Ids : fate'[j] = "registry" <=> fate[j] = "registry"
        /\ \A j \in Ids : f[j] = "command" <=> fate[j] = "command" /\ j # Head(cmds).id
        /\ \A j \in Ids : fate[j] \in Kinds \cup {"registry"} => fate'[j] = fate[j]
        /\ \A j \in Ids : fate[j] # "new" => fate'[j] # "new"
    BY <1>5, <2>1, <2>2, <2>3
  <2>5. Onwards(f)
    BY <1>3, <2>3, <2>4 DEF Onwards
  <2>6. Clients(cmds', fate', caller', reg', Tracked')
    BY <1>2, <1>7, <2>4, <2>5, ClientsServed
  <2> QED
    BY <1>6, <2>3, <2>4, <2>6 DEF VerdictsKept
<1>8. CASE Head(cmds).op = "manage" /\ Answer(Head(cmds).by, "error") /\ fate' = fate
  <2>1. PICK c, f, a : c = Head(cmds).by /\ f = fate /\ a = "error"
    OBVIOUS
  <2>2. Onwards(f) /\ Taken(f, {})
    BY <1>3, <1>8, <2>1 DEF Onwards, Taken
  <2>3. a \in {"true", "tracked", "error"} /\ a # "true" /\ a # "tracked" /\ Answer(c, a)
    BY <1>8, <2>1
  <2>4. Clients(cmds', fate', caller', reg', Tracked')
    BY <1>2, <1>8, <2>1, <2>2, <2>3, ClientsAnswered
  <2> QED
    BY <1>1, <1>6, <1>8, <2>4 DEF VerdictsKept
<1> QED
  BY <1>7, <1>8 DEF DrainCommand

\* finalize_slot_state_on_shutdown: whoever still waited is told.
LEMMA Finalizes ==
  ASSUME ControllerInvariant, FinalizeSlotState
  PROVE  ControllerInvariant' /\ VerdictsKept
<1>1. Course /\ Places /\ Clientele
  BY Halves
<1>2. /\ loop = "draining" /\ loop' = "done"
      /\ fate' = Rejecting(fate, {i \in Ids : fate[i] = "controller"}, "ControllerShuttingDown")
      /\ slots' = [s \in Slots |-> Absent] /\ queue' = [s \in Slots |-> <<>>]
      /\ indexed' = {} /\ capacity' = {}
      /\ slotOf' = slotOf /\ policy' = policy /\ cmds' = cmds /\ gate' = gate
      /\ token' = token /\ pump' = pump /\ admissions' = admissions
      /\ completions' = completions /\ removals' = removals /\ reg' = reg
      /\ caller' = caller /\ target' = target
  BY DEF FinalizeSlotState, inputs, trackVars, callVars
<1>3. Course' /\ admissions = {} /\ completions = {} /\ removals = {}
  BY <1>1, <1>2 DEF Course
<1>4. /\ fate \in [Ids -> Fates] /\ reg \in [Ids -> RegStates]
      /\ \A i \in Ids : fate[i] = "registry" <=> reg[i] # "none"
  BY <1>1 DEF Places, Watched, Known
<1>5. /\ "ControllerShuttingDown" \in Kinds /\ Kinds \subseteq Fates /\ "new" \notin Kinds
      /\ {"controller", "command", "registry"} \cap Kinds = {}
  BY DEF Kinds, Fates
<1>6. /\ fate' \in [Ids -> Fates]
      /\ \A i \in Ids : \/ fate[i] = "controller" /\ fate'[i] = "ControllerShuttingDown"
                        \/ fate[i] # "controller" /\ fate'[i] = fate[i]
  BY <1>2, <1>4, <1>5 DEF Rejecting
<1>7. Cardinality({}) = 0
  BY FS_EmptySet
<1>8. Inputs' /\ Watched(fate, indexed, capacity, {})'
  <2>1. Inputs'
    BY <1>1, <1>2 DEF Places, Inputs
  <2>2. Cardinality(indexed') + Cardinality(capacity') <= MaxPending
    BY <1>2, <1>7, ControllerAssumption
  <2> QED
    BY <1>2, <1>5, <1>6, <2>1, <2>2 DEF Watched
<1>9. Known(fate, reg, admissions, completions, {})' /\ removals' \subseteq Ids
  BY <1>2, <1>3, <1>4, <1>5, <1>6 DEF Known
<1>10. Lines'
  <2>1. Absent \in SlotRecord /\ <<>> \in Seq(Ids) /\ Absent.phase = "absent"
    BY DEF Absent, SlotRecord, Phases
  <2>2. /\ slots' \in [Slots -> SlotRecord] /\ queue' \in [Slots -> Seq(Ids)]
        /\ \A s \in Slots : slots'[s] = Absent /\ queue'[s] = <<>>
    BY <1>2, <2>1
  <2>3. Present' = {}
    BY <2>1, <2>2 DEF Present
  <2>4. ASSUME NEW s \in Slots PROVE Lined(s, slots[s].phase, queue[s], indexed)'
    <3>1. Queued(s, indexed)' = {}
      BY <1>2 DEF Queued
    <3>2. Lists(Ids, <<>>, {})
      BY ListsNothing
    <3>3. Len(<<>>) = 0 /\ DOMAIN <<>> = {} /\ 0 <= MaxSlotQueue
      BY ControllerAssumption
    <3> QED
      BY <2>1, <2>2, <3>1, <3>2, <3>3 DEF Lined
  <2> QED
    BY <1>7, <2>2, <2>3, <2>4, ControllerAssumption DEF Lines
<1>11. Running' /\ SlotExclusive'
  BY <1>1, <1>2 DEF Running, Places, SlotExclusive
<1>12. Clientele'
  <2>1. PICK f : f = fate'
    OBVIOUS
  <2>2. Onwards(f)
    BY <1>2, <1>5, <1>6, <2>1 DEF Onwards
  <2>3. Clients(cmds', fate', caller', reg', Tracked')
    <3>1. \A i \in Ids : f[i] = "command" <=> fate[i] = "command"
      BY <1>5, <1>6, <2>1
    <3> QED
      BY <1>2, <2>2, <3>1, ClientsUndisturbed
  <2>4. /\ Commanded(cmds', fate', caller') /\ Called(caller', fate')
        /\ Told(caller', fate', reg') /\ Cardinality(Tracked') <= IdentityCap
    BY <2>3 DEF Clients
  <2> QED
    BY <1>2, <2>4 DEF Clientele, Commanded, Called, Told, Sent, Won
<1>13. VerdictsKept
  BY <1>5, <1>6 DEF VerdictsKept
<1> QED
  BY <1>3, <1>8, <1>9, <1>10, <1>11, <1>12, <1>13 DEF Clientele, Places, ControllerInvariant

(***************************************************************************)
(* The theorems.                                                           *)
(***************************************************************************)

\* Before anything is submitted.
LEMMA ControllerStarts == ControllerInit => ControllerInvariant
<1> SUFFICES ASSUME ControllerInit PROVE ControllerInvariant
  OBVIOUS
<1>1. /\ slotOf \in [Ids -> Slots] /\ policy \in [Ids -> Policies]
      /\ cmds = <<>> /\ loop = "running" /\ gate = "open" /\ token = FALSE
      /\ fate = [i \in Ids |-> "new"]
      /\ slots = [s \in Slots |-> Absent] /\ queue = [s \in Slots |-> <<>>]
      /\ indexed = {} /\ capacity = {} /\ pump = <<>>
      /\ admissions = {} /\ completions = {} /\ removals = {}
      /\ reg = [i \in Ids |-> "none"]
      /\ caller = [c \in Callers |-> "idle"] /\ target = [c \in Callers |-> NoId]
  BY DEF ControllerInit
<1>2. /\ fate \in [Ids -> Fates] /\ \A i \in Ids : fate[i] = "new"
      /\ reg \in [Ids -> RegStates] /\ \A i \in Ids : reg[i] = "none"
      /\ caller \in [Callers -> CallStates] /\ \A c \in Callers : caller[c] = "idle"
      /\ target \in [Callers -> Ids \cup {NoId}]
  BY <1>1 DEF Fates, RegStates, CallStates
<1>3. Cardinality({}) = 0
  BY FS_EmptySet
<1>4. Inputs /\ Course
  BY <1>1 DEF Inputs, Course
<1>5. Len(<<>>) = 0 /\ DOMAIN <<>> = {}
  OBVIOUS
<1>6. Commanded(cmds, fate, caller)
  <2>1. Sent(fate, caller) = {}
    BY <1>2 DEF Sent, Commands
  <2>2. Lists(Commands, <<>>, {})
    BY ListsNothing
  <2>3. Lists(Commands, cmds, Sent(fate, caller))
    BY <1>1, <2>1, <2>2
  <2>4. Len(cmds) <= CommandCap
    <3>1. Len(cmds) = 0
      BY <1>1, <1>5
    <3>2. CommandCap \in Nat
      BY ControllerAssumption
    <3> QED
      BY <3>1, <3>2
  <2>5. DOMAIN cmds = {}
    BY <1>1, <1>5
  <2> QED
    BY <2>3, <2>4, <2>5 DEF Commanded
<1>7. Watched(fate, indexed, capacity, {})
  <2>1. Cardinality(indexed) + Cardinality(capacity) <= MaxPending
    BY <1>1, <1>3, ControllerAssumption
  <2> QED
    BY <1>1, <1>2, <2>1 DEF Watched
<1>8. Known(fate, reg, admissions, completions, {}) /\ removals \subseteq Ids
  BY <1>1, <1>2 DEF Known
<1>9. /\ slots \in [Slots -> SlotRecord] /\ queue \in [Slots -> Seq(Ids)]
      /\ \A s \in Slots : slots[s] = Absent /\ queue[s] = <<>>
      /\ Absent.phase = "absent" /\ Absent.owner = NoId
  BY <1>1 DEF Absent, SlotRecord, Phases
<1>10. Lines
  <2>1. Present = {}
    BY <1>9 DEF Present
  <2>2. ASSUME NEW s \in Slots PROVE Lined(s, slots[s].phase, queue[s], indexed)
    <3>1. Queued(s, indexed) = {} /\ Lists(Ids, <<>>, {})
      BY <1>1, ListsNothing DEF Queued
    <3> QED
      BY <1>5, <1>9, <3>1, ControllerAssumption DEF Lined
  <2> QED
    BY <1>3, <1>9, <2>1, <2>2, ControllerAssumption DEF Lines
<1>11. Running
  <2>1. Reserved(pump, capacity)
    <3>1. Lists(Ids, <<>>, {})
      BY ListsNothing
    <3> QED
      BY <1>1, <1>5, <3>1, ControllerAssumption DEF Reserved
  <2>2. Awaited(reg, admissions, completions)
    BY <1>2 DEF Awaited, Active
  <2>3. \A s \in Slots : Serves(s, slots[s], capacity, admissions, completions)
    BY <1>1, <1>9 DEF Serves
  <2> QED
    BY <2>1, <2>2, <2>3 DEF Running
<1>12. Called(caller, fate) /\ Told(caller, fate, reg)
  BY <1>2 DEF Called, Told, Won
<1>13. Cardinality(Tracked) <= IdentityCap
  <2>1. Tracked = {}
    BY <1>2 DEF Tracked
  <2> QED
    BY <1>3, <2>1, ControllerAssumption
<1>14. SlotExclusive
  BY <1>1, <1>2 DEF SlotExclusive
<1> QED
  BY <1>4, <1>6, <1>7, <1>8, <1>10, <1>11, <1>12, <1>13, <1>14 DEF ControllerInvariant

\* Every step keeps the invariant and every verdict.
LEMMA ControllerSteps ==
  ASSUME ControllerInvariant, [ControllerNext]_vars
  PROVE  ControllerInvariant' /\ VerdictsKept
<1>1. CASE HandleSubmission
  BY <1>1, Submissions
<1>2. CASE HandleIdentity
  BY <1>2, Identities
<1>3. CASE CapacityResult
  <2>1. Worked(slotOf[Head(pump)], {}) /\ slotOf[Head(pump)] \in Slots
    BY <1>3, CapacityWorked
  <2>2. loop = "running" /\ UNCHANGED <<inputs, cmds, downVars, callVars>>
    BY <1>3 DEF CapacityResult
  <2>3. PICK s : s = slotOf[Head(pump)]
    OBVIOUS
  <2> QED
    BY <2>1, <2>2, <2>3, ResultKeeps
<1>4. ASSUME NEW i \in Ids, AdmissionResult(i) PROVE ControllerInvariant' /\ VerdictsKept
  <2>1. /\ loop = "running" /\ i \in admissions
        /\ UNCHANGED <<inputs, cmds, downVars, callVars>>
    BY <1>4 DEF AdmissionResult
  <2>2. Worked(slotOf[i], {}) /\ slotOf[i] \in Slots
    <3>1. CASE AdmissionRejected(i)
      BY <2>1, <3>1, RejectionWorked
    <3>2. CASE /\ reg[i] \in {"live", "removing", "released", "gone"} /\ ConfirmAdmission(i)
               /\ admissions' = admissions \ {i}
               /\ UNCHANGED <<fate, queue, indexed, waitVars, reg>>
      <4>1. reg[i] # "none"
        BY <3>2
      <4> QED
        BY <2>1, <3>2, <4>1, ConfirmationWorked
    <3> QED
      BY <1>4, <3>1, <3>2 DEF AdmissionResult
  <2>3. PICK s : s = slotOf[i]
    OBVIOUS
  <2> QED
    BY <2>1, <2>2, <2>3, ResultKeeps
<1>5. ASSUME NEW i \in Ids, CompletionResult(i) PROVE ControllerInvariant' /\ VerdictsKept
  <2>1. Worked(slotOf[i], {}) /\ slotOf[i] \in Slots
    BY <1>5, CompletionWorked
  <2>2. loop = "running" /\ UNCHANGED <<inputs, cmds, downVars, callVars>>
    BY <1>5 DEF CompletionResult
  <2>3. PICK s : s = slotOf[i]
    OBVIOUS
  <2> QED
    BY <2>1, <2>2, <2>3, ResultKeeps
<1>6. ASSUME NEW i \in Ids,
             RegistryDecides(i) \/ RegistryClaims(i) \/ RegistryCleansUp(i) \/ RemovalResult(i)
      PROVE  ControllerInvariant' /\ VerdictsKept
  BY <1>6, RegistrySteps
<1>7. ASSUME NEW c \in Callers, IdentityDecided(c) \/ CancelReturned(c)
      PROVE  ControllerInvariant' /\ VerdictsKept
  BY <1>7, Decisions, Returns
<1>8. CASE LoopExit \/ DrainCommand \/ FinalizeSlotState \/ CloseGate \/ CancelStarted
  BY <1>8, LoopExits, Drains, Finalizes, Shutdowns
<1>9. ASSUME NEW i \in Ids, Submit(i) PROVE ControllerInvariant' /\ VerdictsKept
  BY <1>9, Submits
<1>10. ASSUME NEW c \in Callers, NEW i \in Ids, Manage(c, i)
       PROVE  ControllerInvariant' /\ VerdictsKept
  BY <1>10, Manages
<1>11. CASE UNCHANGED vars
  <2>1. reg \in [Ids -> RegStates]
    BY DEF ControllerInvariant, Known
  <2>2. /\ UNCHANGED <<inputs, cmds, downVars, fate, slotVars, waitVars, admissions, completions,
                       callVars>>
        /\ reg' = reg /\ removals' = removals
    BY <1>11 DEF vars, trackVars
  <2>3. RegistryMoves
    BY <2>1, <2>2 DEF RegistryMoves
  <2> QED
    BY <2>2, <2>3, OnlyRegistry
<1> QED
  BY <1>1, <1>2, <1>3, <1>4, <1>5, <1>6, <1>7, <1>8, <1>9, <1>10, <1>11
     DEF ControllerNext, ControllerStep, Environment, Terminated

\* The inductive invariant of the slot controller.
THEOREM ControllerInvariance == ControllerSpec => []ControllerInvariant
BY ControllerStarts, ControllerSteps, PTL DEF ControllerSpec

\* A submission is rejected by the controller or handed to the registry, once
\* (the outcome sender in submission.rs, placement.rs and handoff.rs).
THEOREM VerdictsAreFinal == ControllerSpec => VerdictIsFinal
<1>1. ControllerInvariant /\ [ControllerNext]_vars => [VerdictsKept]_vars
  BY ControllerSteps
<1> QED
  BY <1>1, ControllerInvariance, PTL DEF ControllerSpec, VerdictIsFinal

\* A slot serves one task at a time, whatever the mix of policies, limits,
\* refusals and departures (start_in_slot, handle_completion_result).
THEOREM SlotsAreExclusive == ControllerSpec => []SlotExclusive
<1>1. ControllerInvariant => SlotExclusive
  BY DEF ControllerInvariant
<1> QED
  BY <1>1, ControllerInvariance, PTL

\* Every submission the controller took is in exactly one place, and watcher
\* and indexes agree on which (queue.rs, capacity.rs).
THEOREM NothingIsLost == ControllerSpec => []NothingLost
<1>1. ASSUME ControllerInvariant PROVE NothingLost
  <2>1. /\ indexed \subseteq Ids /\ capacity \subseteq Ids /\ indexed \cap capacity = {}
        /\ \A i \in Ids : fate[i] = "controller" <=> i \in indexed \cup capacity
        /\ slotOf \in [Ids -> Slots] /\ queue \in [Slots -> Seq(Ids)]
    BY <1>1 DEF ControllerInvariant, Watched, Inputs, Lines
  <2>2. ASSUME NEW s \in Slots
        PROVE  /\ ToSet(queue[s]) = {i \in indexed : slotOf[i] = s}
               /\ \A m, n \in DOMAIN queue[s] :
                    /\ slotOf[queue[s][m]] = s
                    /\ queue[s][m] = queue[s][n] => m = n
    <3>1. PICK q, X : q = queue[s] /\ X = {i \in indexed : slotOf[i] = s}
      OBVIOUS
    <3>2. Lists(Ids, q, X)
      BY <1>1, <3>1 DEF ControllerInvariant, Lines, Lined, Queued
    <3>3. ToSet(q) = X /\ q \in Seq(Ids)
      BY <3>2 DEF Lists
    <3>4. DOMAIN q = 1..Len(q)
      BY <3>3
    <3>5. \A m, n \in DOMAIN q : q[m] \in X /\ (q[m] = q[n] => m = n)
      BY <3>2, <3>3, <3>4, ListsByPlace
    <3> QED
      BY <3>1, <3>3, <3>5
  <2>3. indexed = UNION {ToSet(queue[s]) : s \in Slots}
    <3>1. \A i \in indexed : slotOf[i] \in Slots /\ i \in ToSet(queue[slotOf[i]])
      BY <2>1, <2>2
    <3>2. \A s \in Slots : ToSet(queue[s]) \subseteq indexed
      BY <2>2
    <3> QED
      BY <3>1, <3>2
  <2>4. {i \in Ids : fate[i] = "controller"} = indexed \cup capacity
    BY <2>1
  <2>5. {i \in Ids : fate[i] = "command"} =
          {i \in Ids : [op |-> "submit", id |-> i] \in ToSet(cmds)}
    <3>1. ToSet(cmds) = Sent(fate, caller)
      BY <1>1 DEF ControllerInvariant, Commanded, Lists
    <3>2. \A i \in Ids : [op |-> "submit", id |-> i] \in Sent(fate, caller) <=> fate[i] = "command"
      BY DEF Sent, Commands
    <3> QED
      BY <3>1, <3>2
  <2>6. loop = "running" => ToSet(pump) = capacity /\ Len(pump) = Cardinality(capacity)
    <3>1. PICK q, X : q = pump /\ X = capacity
      OBVIOUS
    <3>2. loop = "running" => Lists(Ids, q, X)
      BY <1>1, <3>1 DEF ControllerInvariant, Running, Reserved
    <3>3. Lists(Ids, q, X) => Len(q) = Cardinality(X)
      BY ListsCount
    <3>4. Lists(Ids, q, X) => ToSet(q) = X
      BY DEF Lists
    <3> QED
      BY <3>1, <3>2, <3>3, <3>4
  <2> QED
    BY <2>1, <2>2, <2>3, <2>4, <2>5, <2>6 DEF NothingLost
<1> QED
  BY <1>1, ControllerInvariance, PTL

\* The state is well typed and every configured budget holds (try_push_queued,
\* start_in_slot, handle_submission, handle_identity_operation).
THEOREM BudgetsAreKept == ControllerSpec => []WithinBudgets
<1>1. ASSUME ControllerInvariant PROVE WithinBudgets
  <2>1. /\ slotOf \in [Ids -> Slots] /\ policy \in [Ids -> Policies]
        /\ loop \in {"running", "draining", "done"} /\ gate \in {"open", "closed"}
        /\ token \in BOOLEAN
    BY <1>1 DEF ControllerInvariant, Inputs, Course
  <2>2. cmds \in Seq(Commands) /\ Len(cmds) <= CommandCap
    BY <1>1 DEF ControllerInvariant, Commanded, Lists
  <2>3. /\ fate \in [Ids -> {"new", "command", "controller", "registry"} \cup Kinds]
        /\ indexed \subseteq Ids /\ capacity \subseteq Ids
        /\ Cardinality(indexed) + Cardinality(capacity) <= MaxPending
    BY <1>1 DEF ControllerInvariant, Watched, Fates
  <2>4. /\ slots \in [Slots -> [phase : Phases, owner : Ids \cup {NoId}]]
        /\ queue \in [Slots -> Seq(Ids)] /\ Cardinality(Present) <= MaxSlots
        /\ \A s \in Slots : Len(queue[s]) <= MaxSlotQueue \/ Len(queue[s]) = 1
    BY <1>1 DEF ControllerInvariant, Lines, Lined, SlotRecord
  <2>5. /\ reg \in [Ids -> RegStates] /\ admissions \subseteq Ids /\ completions \subseteq Ids
        /\ removals \subseteq Ids
    BY <1>1 DEF ControllerInvariant, Known
  <2>6. /\ caller \in [Callers -> CallStates] /\ target \in [Callers -> Ids \cup {NoId}]
        /\ Cardinality(Tracked) <= IdentityCap
    BY <1>1 DEF ControllerInvariant, Called
  <2>7. pump \in Seq(Ids) /\ Len(pump) <= AdmissionCap
    <3>1. CASE loop = "running"
      BY <1>1, <3>1 DEF ControllerInvariant, Running, Reserved, Lists
    <3>2. CASE loop # "running"
      <4>1. pump = <<>>
        BY <1>1, <3>2 DEF ControllerInvariant, Course
      <4>2. <<>> \in Seq(Ids) /\ Len(<<>>) = 0 /\ 0 <= AdmissionCap
        BY ControllerAssumption
      <4> QED
        BY <4>1, <4>2
    <3> QED
      BY <3>1, <3>2
  <2> QED
    BY <2>1, <2>2, <2>3, <2>4, <2>5, <2>6, <2>7 DEF WithinBudgets, ControllerTypeOK
<1> QED
  BY <1>1, ControllerInvariance, PTL

\* No slot waits for nothing: an occupied one has one result on its way, a
\* queue has an owner in front of it, and a replacement waits for an owner
\* that is on its way out (placement.rs, advance.rs, handoff.rs).
THEOREM SlotsDoMoveOn == ControllerSpec => []SlotsMoveOn
<1>1. ASSUME ControllerInvariant PROVE SlotsMoveOn
  <2>1. ASSUME loop = "running", NEW s \in Slots
        PROVE  LET o == slots[s].owner
               IN /\ slots[s].phase \in {"admitting", "cancelPending"} =>
                        /\ slotOf[o] = s /\ o \notin completions
                        /\ (o \in capacity) # (o \in admissions)
                  /\ slots[s].phase \in {"running", "terminating"} =>
                        /\ slotOf[o] = s /\ o \in completions
                        /\ o \notin capacity \cup admissions
                  /\ Vacant(s) => \A i \in capacity \cup admissions \cup completions : slotOf[i] # s
    <3>1. PICK e, o : e = slots[s] /\ o = e.owner
      OBVIOUS
    <3>2. Serves(s, e, capacity, admissions, completions)
      BY <1>1, <2>1, <3>1, HandlerFinds
    <3>3. capacity \cap admissions = {}
      <4>1. /\ capacity \subseteq Ids
            /\ \A i \in Ids : fate[i] = "controller" <=> i \in indexed \cup capacity
        BY <1>1 DEF ControllerInvariant, Watched
      <4>2. /\ \A i \in Ids : fate[i] = "registry" <=> reg[i] # "none"
            /\ \A i \in admissions \cup completions : reg[i] # "none"
        BY <1>1 DEF ControllerInvariant, Known
      <4> QED
        BY <4>1, <4>2
    <3>4. e.phase \in {"admitting", "cancelPending"} =>
            /\ slotOf[o] = s /\ o \notin completions
            /\ (o \in capacity) # (o \in admissions)
      BY <3>1, <3>2, <3>3 DEF Serves
    <3>5. e.phase \in {"running", "terminating"} =>
            slotOf[o] = s /\ o \in completions /\ o \notin capacity \cup admissions
      BY <3>1, <3>2 DEF Serves
    <3>6. Vacant(s) => \A i \in capacity \cup admissions \cup completions : slotOf[i] # s
      BY <1>1, <2>1, VacantIsFree
    <3> QED
      BY <3>1, <3>4, <3>5, <3>6
  <2>2. ASSUME NEW s \in Slots PROVE Lined(s, slots[s].phase, queue[s], indexed)
    BY <1>1 DEF ControllerInvariant, Lines
  <2>3. gate = "open" => \A s \in Slots : /\ slots[s].phase # "idle"
                                          /\ queue[s] # <<>> => slots[s].phase # "absent"
    BY <2>2 DEF Lined
  <2>4. \A s \in Slots : \A m \in DOMAIN queue[s] :
          policy[queue[s][m]] = "Replace" =>
              /\ m = 1
              /\ slots[s].phase \in {"cancelPending", "terminating"} \/ gate = "closed"
    BY <2>2 DEF Lined
  <2> QED
    BY <2>1, <2>3, <2>4 DEF SlotsMoveOn
<1> QED
  BY <1>1, ControllerInvariance, PTL

\* What a caller of remove or cancel was told is so, and only one caller per
\* task was told that it did it (identity.rs, operations.rs).
THEOREM AnswersAreHonest == ControllerSpec => []AnswersHonest
<1>1. ASSUME ControllerInvariant PROVE AnswersHonest
  <2>1. /\ \A c \in Callers : Won(c, caller) =>
             fate[target[c]] = "RemovedFromQueue" \/ reg[target[c]] \in Leaving
        /\ \A c, d \in Callers :
             Won(c, caller) /\ Won(d, caller) /\ target[c] = target[d] => c = d
        /\ \A c \in Callers : caller[c] = "false" =>
             fate[target[c]] \in Kinds \/ reg[target[c]] \in Leaving \cup {"rejected"}
    BY <1>1 DEF ControllerInvariant, Told
  <2>2. \A c \in Callers : caller[c] = "true" => Won(c, caller)
    BY DEF Won
  <2> QED
    BY <2>1, <2>2 DEF AnswersHonest, Leaving
<1> QED
  BY <1>1, ControllerInvariance, PTL
=============================================================================
