---------------------------- MODULE ShutdownProofs ----------------------------
(***************************************************************************)
(* The one shutdown operation and the callers that race for it, for every  *)
(* number of static runs, handles and faults.  The invariant says where a  *)
(* caller may be when the operation does not exist yet, is being installed *)
(* or runs, and what each phase of its detached owner leaves behind.       *)
(***************************************************************************)
EXTENDS Shutdown, TLAPS, FiniteSetTheorems

-----------------------------------------------------------------------------
(* Types.                                                                  *)

\* Where a static run may be before its claim is committed or given back.
Uncommitted == {"claimed", "reserve", "startEmpty", "startTrigger", "startBatch"}
\* Where a caller is only after the runtime has been started.
Begun == {"held", "add", "enqueue", "reply", "refused", "drive", "begin", "install", "spawn"}
Places == {"idle", "done", "lookup", "wait"} \cup Uncommitted \cup Begun

Answers == Outcomes \cup {"none", "dropped", "AlreadyRunning", "Refused", "StartFailed",
                          "Rejected", "Closed", "Panic"}
CallRecord == [at : Places, claim : {"none", "held", "committed"},
               trigger : {"none", "Requested", "Natural", "SignalSetupFailed"},
               result : Answers]
CallTypes == call \in [Callers -> CallRecord]

CoreRecord == [started : BOOLEAN, alive : BOOLEAN, running : BOOLEAN, shutting_down : BOOLEAN,
               announced : BOOLEAN, runtime_token : BOOLEAN, operation : BOOLEAN,
               lock : Callers \cup {Nobody}]
CoreTypes == core \in CoreRecord

Phases == {"none", "resolve", "drain", "controller", "token", "listener", "relay", "subs",
           "publish", "done", "gone"}
OwnerRecord == [at : Phases, trigger : {"none", "Requested", "Natural", "SignalSetupFailed"},
                verdict : Outcomes \cup {"none"}, clean : BOOLEAN, redo : BOOLEAN]
OwnerTypes ==
    /\ owner \in OwnerRecord
    /\ worker \in [Tasks \cup {"subs"} -> {"off", "up", "ended", "failed"}]
    /\ members \in BOOLEAN
    /\ batch \in [Runs -> {"none", "queued", "accepted", "rejected"}]
    /\ outcome \in Outcomes \cup {"none"}

LeaseTypes == leases \subseteq {"supervisor"} \cup Handles

-----------------------------------------------------------------------------
(* The invariant.                                                          *)

\* A call under way keeps an owner of the runtime alive, and past its start it
\* finds the runtime started.
Anchored(c) ==
    /\ c \in Handles /\ call[c].at \notin {"idle", "done"} => c \in leases
    /\ c \in Runs /\ call[c].at \notin {"idle", "done"} => "supervisor" \in leases
    /\ call[c].at \in Begun => core.started

\* Up to its commit a static run holds the claim, and a handle never has one.
Claiming(c) ==
    /\ call[c].at \in Uncommitted => c \in Runs /\ call[c].claim = "held"
    /\ c \in Handles => call[c].claim = "none"

\* The installer holds the operation lock, and spawns the only owner.
Installing(c) ==
    /\ call[c].at = "install" => core.lock = c /\ ~core.operation /\ core.shutting_down
    /\ call[c].at = "spawn" => core.operation /\ owner.at = "none"

\* An answer of the operation is the published one, or the sender was lost.
Answered(c) ==
    /\ call[c].result \in Outcomes =>
          /\ core.operation
          /\ \/ outcome # "none" /\ call[c].result = outcome
             \/ outcome = "none" /\ call[c].result = "ShuttingDown" /\ owner.at = "gone"
    /\ call[c].result # "Panic"

\* The running flag stands for the one claim there may be.
OneClaim ==
    /\ core.running <=> \E r \in Runs : call[r].claim # "none"
    /\ \A r, s \in Runs : call[r].claim # "none" /\ call[s].claim # "none" => r = s

\* One operation: the announcement and the token without it come from the last
\* owner's drop, after which no caller is left.
OneOperation ==
    /\ core.announced \/ core.runtime_token => core.operation \/ leases = {}
    /\ core.operation => core.started /\ core.announced /\ core.shutting_down
    /\ core.lock # Nobody => call[core.lock].at = "install"
    /\ \A c, d \in Callers : call[c].at = "spawn" /\ call[d].at = "spawn" => c = d

\* What the owner's phases have established.
Tail ==
    /\ owner.at # "none" => core.operation
    /\ owner.at = "none" => ~owner.redo
    /\ owner.at \in {"none", "resolve", "drain"} => owner.verdict = "none"
    /\ owner.at \in {"controller", "token", "listener", "relay", "subs", "publish", "done"}
         => owner.verdict # "none"
    /\ owner.at \in {"listener", "relay", "subs", "publish", "done"} => core.runtime_token
    /\ core.operation /\ ~owner.redo
         /\ owner.at \in {"none", "resolve", "drain", "controller", "token"} => ~core.runtime_token
    /\ outcome # "none" <=> owner.at = "done"
    /\ outcome \notin {"none", "ShuttingDown"} =>
         owner.clean /\ ~owner.redo /\ outcome = owner.verdict

\* What a fence, a drain and a join leave behind for good.
Swept ==
    /\ owner.at = "drain" \/ owner.verdict \in {"Completed", "GraceExceeded"} =>
         \A r \in Runs : batch[r] # "queued"
    /\ owner.verdict = "Completed" => ~members
    /\ owner.clean /\ ~owner.redo =>
         /\ owner.at \in {"token", "listener", "relay", "subs", "publish", "done"}
              => worker["controller"] \in {"off", "ended"}
         /\ owner.at \in {"relay", "subs", "publish", "done"} => worker["listener"] \in {"off", "ended"}
         /\ owner.at \in {"subs", "publish", "done"} => worker["relay"] \in {"off", "ended"}
         /\ owner.at \in {"publish", "done"} => worker["subs"] \in {"off", "ended"}
    /\ owner.at \in {"publish", "done"} => worker["subs"] # "up"

Types == CallTypes /\ CoreTypes /\ OwnerTypes /\ LeaseTypes

\* The inductive invariant of the lifecycle.
ShutdownInvariant ==
    /\ Types /\ OneClaim /\ OneOperation /\ Tail /\ Swept
    /\ \A c \in Callers : Anchored(c) /\ Claiming(c) /\ Installing(c) /\ Answered(c)

-----------------------------------------------------------------------------
(* How a caller moves.                                                     *)

\* The callers other than c stay where they are.
Alone(c) == CallTypes' /\ \A d \in Callers : d # c => call'[d] = call[d]

\* c goes to a place and keeps its answer.
Moves(c, place) == Alone(c) /\ call'[c].at = place /\ call'[c].result = call[c].result

\* What a record of a call holds.
LEMMA CallFields ==
  ASSUME CallTypes, NEW c \in Callers
  PROVE  /\ call[c].at \in Places /\ call[c].claim \in {"none", "held", "committed"}
         /\ call[c].result \in Answers
BY DEF CallTypes, CallRecord

\* Moving on, with or without a trigger, keeps the claim; committing sets it.
LEMMA Moving ==
  ASSUME CallTypes, NEW c \in Callers, NEW place \in Places
  PROVE  /\ Goto(c, place) => Moves(c, place) /\ call'[c].claim = call[c].claim
         /\ \A t \in {"Requested", "Natural", "SignalSetupFailed"} :
              WithTrigger(c, place, t) => Moves(c, place) /\ call'[c].claim = call[c].claim
         /\ Committed(c, place) => Moves(c, place) /\ call'[c].claim = "committed"
<1>1. Goto(c, place) => Moves(c, place) /\ call'[c].claim = call[c].claim
  BY DEF CallTypes, CallRecord, Goto, Moves, Alone
<1>2. ASSUME NEW t \in {"Requested", "Natural", "SignalSetupFailed"}, WithTrigger(c, place, t)
      PROVE  Moves(c, place) /\ call'[c].claim = call[c].claim
  <2>1. t \in {"none", "Requested", "Natural", "SignalSetupFailed"}
    BY <1>2
  <2>2. call' = [call EXCEPT ![c].at = place, ![c].trigger = t]
    BY <1>2 DEF WithTrigger
  <2> QED
    BY <2>1, <2>2 DEF CallTypes, CallRecord, Moves, Alone
<1>3. Committed(c, place) => Moves(c, place) /\ call'[c].claim = "committed"
  <2> SUFFICES ASSUME Committed(c, place) PROVE Moves(c, place) /\ call'[c].claim = "committed"
    OBVIOUS
  <2>1. call' = [call EXCEPT ![c].at = place, ![c].claim = "committed"]
    BY DEF Committed
  <2>2. "committed" \in {"none", "held", "committed"}
    OBVIOUS
  <2> QED
    BY <2>1, <2>2 DEF CallTypes, CallRecord, Moves, Alone
<1> QED
  BY <1>1, <1>2, <1>3

\* Leaving gives an uncommitted claim back, and with the last owner of the
\* runtime gone it abandons what no operation looks after.
LEMMA Leaving ==
  ASSUME CallTypes, CoreTypes, NEW c \in Callers, NEW answer \in Answers, Leave(c, answer)
  PROVE  /\ Alone(c) /\ call'[c].at = "done" /\ call'[c].result = answer
         /\ call'[c].claim = IF call[c].claim = "held" THEN "none" ELSE call[c].claim
         /\ leases' = leases \ {c}
         /\ CoreTypes'
         /\ core'.running = IF call[c].claim = "held" THEN FALSE ELSE core.running
         /\ core'.operation = core.operation /\ core'.lock = core.lock
         /\ core'.started = core.started
         /\ IF leases' # {} \/ core.operation
              THEN /\ core'.shutting_down = core.shutting_down /\ core'.announced = core.announced
                   /\ core'.runtime_token = core.runtime_token
              ELSE core'.shutting_down /\ core'.announced /\ core'.runtime_token
<1>1. /\ Alone(c) /\ call'[c].at = "done" /\ call'[c].result = answer
      /\ call'[c].claim = IF call[c].claim = "held" THEN "none" ELSE call[c].claim
  BY DEF CallTypes, CallRecord, Leave, Alone, Places
<1>2. leases' = leases \ {c} /\ core' = Abandoned(Released(core, c), leases')
  BY DEF Leave
<1>3. /\ Released(core, c) \in CoreRecord
      /\ Released(core, c).running = IF call[c].claim = "held" THEN FALSE ELSE core.running
      /\ \A f \in {"started", "alive", "shutting_down", "announced", "runtime_token", "operation", "lock"} :
           Released(core, c)[f] = core[f]
  BY DEF CoreTypes, CoreRecord, Released
<1> QED
  BY <1>1, <1>2, <1>3 DEF CoreTypes, CoreRecord, Abandoned

-----------------------------------------------------------------------------
(* What the callers' actions are: a walk, a leave, or one of the steps     *)
(* that change the core.                                                   *)

\* A step from place to place that leaves the core and the owner alone.
Walks(c) ==
    \E place \in Places :
      /\ Moves(c, place)
      /\ call[c].at \notin {"idle", "done", "install", "spawn"}
      /\ place \notin {"idle", "done", "install", "spawn"}
      /\ place \in Begun => call[c].at \in Begun
      /\ place \in Uncommitted => call[c].at \in Uncommitted /\ call'[c].claim = call[c].claim
      /\ \/ call'[c].claim = call[c].claim
         \/ call'[c].claim = "committed" /\ call[c].at \in Uncommitted
      /\ UNCHANGED <<core, worker, owner, outcome, leases>>
      /\ OwnerTypes'
      /\ core.announced => batch' = batch
      /\ core.shutting_down => members' = members

\* The call ends with an answer that the operation gave, or with another one.
Leaves(c) ==
    \E answer \in Answers \ {"Panic"} :
      /\ Leave(c, answer)
      /\ answer \in Outcomes => \/ outcome # "none" /\ answer = outcome
                                \/ outcome = "none" /\ answer = "ShuttingDown" /\ owner.at = "gone"
      /\ call[c].at \notin {"install", "spawn"}
      /\ UNCHANGED <<worker, members, batch, owner, outcome>>

\* Moving on by one of the three forms, with the core and the owner left alone.
LEMMA Walking ==
  ASSUME Types, NEW c \in Callers, NEW from \in Places, NEW place \in Places, At(c, from),
         from \notin {"idle", "done", "install", "spawn"},
         place \notin {"idle", "done", "install", "spawn"},
         place \in Begun => from \in Begun, place \in Uncommitted => from \in Uncommitted,
         \/ Goto(c, place)
         \/ \E t \in {"Requested", "Natural", "SignalSetupFailed"} : WithTrigger(c, place, t)
         \/ Committed(c, place) /\ from \in Uncommitted /\ place \notin Uncommitted,
         UNCHANGED <<core, worker, owner, outcome, leases>>,
         \/ batch' = batch
         \/ ~core.announced /\ \E r \in Runs : batch' = [batch EXCEPT ![r] = "queued"],
         members' = members \/ (~core.shutting_down /\ members' \in BOOLEAN)
  PROVE  Walks(c)
<1>1. OwnerTypes' /\ (core.announced => batch' = batch) /\ (core.shutting_down => members' = members)
  BY DEF Types, OwnerTypes
<1>2. /\ Moves(c, place)
      /\ \/ call'[c].claim = call[c].claim
         \/ call'[c].claim = "committed" /\ from \in Uncommitted /\ place \notin Uncommitted
  BY Moving DEF Types
<1> QED
  BY <1>1, <1>2 DEF Walks, At

\* Handles.
LEMMA HandleSteps ==
  ASSUME Types, NEW h \in Handles, AddTask(h) \/ EnqueueAdd(h) \/ RequestShutdown(h) \/ DropHandle(h)
  PROVE  Walks(h) \/ Leaves(h)
<1>0. h \in Callers /\ {"held", "add", "begin"} \subseteq Places
      /\ {"held", "add", "begin"} \subseteq Begun /\ \A p \in {"held", "add", "begin"} : p \notin Uncommitted
  BY DEF Callers, Places, Begun, Uncommitted
<1>1. CASE AddTask(h)
  BY <1>0, <1>1, Walking DEF AddTask
<1>2. CASE EnqueueAdd(h)
  <2>1. members' = members \/ (~core.shutting_down /\ members' \in BOOLEAN)
    BY <1>2 DEF EnqueueAdd, Types, OwnerTypes
  <2> QED
    BY <1>0, <1>2, <2>1, Walking DEF EnqueueAdd
<1>3. CASE RequestShutdown(h)
  BY <1>0, <1>3, Walking DEF RequestShutdown
<1>4. CASE DropHandle(h)
  BY <1>4 DEF DropHandle, At, Leaves, Answers, Outcomes
<1> QED
  BY <1>1, <1>2, <1>3, <1>4

\* A static run, up to its start and after it.
LEMMA RunSteps ==
  ASSUME Types, NEW r \in Runs,
         \/ Preflight(r) \/ Reserve(r) \/ Enqueue(r) \/ Reply(r) \/ Refused(r) \/ Drive(r)
  PROVE  Walks(r) \/ Leaves(r)
<1>0. r \in Callers
  BY DEF Callers
<1>p. /\ Uncommitted \subseteq Places /\ Begun \subseteq Places /\ "lookup" \in Places
      /\ "lookup" \notin Begun /\ "lookup" \notin Uncommitted
      /\ \A p \in Uncommitted : p \notin Begun /\ p \notin {"idle", "done", "install", "spawn"}
      /\ {"claimed", "reserve", "startEmpty", "startTrigger", "startBatch"} \subseteq Uncommitted
      /\ {"enqueue", "reply", "refused", "drive", "begin"} \subseteq Begun
      /\ \A p \in {"enqueue", "reply", "refused", "drive", "begin"} : p \notin Uncommitted
  BY DEF Places, Begun, Uncommitted
<1>f. \A t \in Fires(r) : t \in {"Requested", "Natural", "SignalSetupFailed"}
  BY DEF Fires
<1>a. /\ {"Refused", "Rejected", "Closed"} \subseteq Answers \ {"Panic"}
      /\ \A a \in {"Refused", "Rejected", "Closed"} : a \notin Outcomes
  BY DEF Answers, Outcomes
<1>1. CASE Preflight(r)
  <2>1. CASE Leave(r, "Refused")
    BY <1>1, <1>a, <2>1 DEF Preflight, At, Leaves
  <2>2. CASE PreflightEmpty(r) /\ UNCHANGED <<core, leases>>
    <3>1. Committed(r, "lookup") \/ Goto(r, "startEmpty")
      BY <2>2 DEF PreflightEmpty
    <3> QED
      BY <1>0, <1>1, <1>p, <2>2, <3>1, Walking DEF Preflight
  <2>3. CASE PreflightBatch(r) /\ UNCHANGED <<core, leases>>
    <3>1. \/ Goto(r, "lookup") \/ Goto(r, "reserve")
          \/ \E t \in {"Requested", "Natural", "SignalSetupFailed"} : WithTrigger(r, "startTrigger", t)
      BY <1>f, <2>3 DEF PreflightBatch
    <3> QED
      BY <1>0, <1>1, <1>p, <2>3, <3>1, Walking DEF Preflight
  <2> QED
    BY <1>1, <2>1, <2>2, <2>3 DEF Preflight
<1>2. CASE Reserve(r)
  <2>1. CASE Leave(r, "Refused")
    BY <1>2, <1>a, <2>1 DEF Reserve, At, Leaves
  <2>2. CASE (Committed(r, "lookup") \/ Goto(r, "startBatch")) /\ UNCHANGED <<core, leases>>
    BY <1>0, <1>2, <1>p, <2>2, Walking DEF Reserve
  <2> QED
    BY <1>2, <2>1, <2>2 DEF Reserve
<1>3. CASE Enqueue(r)
  <2>1. /\ At(r, "enqueue") /\ UNCHANGED <<core, worker, members, owner, outcome, leases>>
        /\ \/ /\ Goto(r, "lookup") \/ Goto(r, "refused") \/ \E t \in Fires(r) : WithTrigger(r, "begin", t)
              /\ batch' = batch
           \/ ~core.announced /\ batch' = [batch EXCEPT ![r] = "queued"] /\ Goto(r, "reply")
    BY <1>3 DEF Enqueue
  <2> QED
    BY <1>0, <1>f, <1>p, <2>1, Walking
<1>4. CASE Reply(r)
  <2>1. CASE Leave(r, "Rejected")
    BY <1>4, <1>a, <2>1 DEF Reply, At, Leaves
  <2>2. CASE (Goto(r, "drive") \/ Goto(r, "refused")) /\ UNCHANGED <<core, leases>>
    BY <1>0, <1>4, <1>p, <2>2, Walking DEF Reply
  <2> QED
    BY <1>4, <2>1, <2>2 DEF Reply
<1>5. CASE Refused(r)
  <2>1. CASE Leave(r, "Closed")
    BY <1>5, <1>a, <2>1 DEF Refused, At, Leaves
  <2>2. CASE Goto(r, "lookup") /\ UNCHANGED <<core, leases>>
    BY <1>0, <1>5, <1>p, <2>2, Walking DEF Refused
  <2> QED
    BY <1>5, <2>1, <2>2 DEF Refused
<1>6. CASE Drive(r)
  <2>1. /\ At(r, "drive") /\ UNCHANGED <<core, worker, members, batch, owner, outcome, leases>>
        /\ \/ Goto(r, "lookup")
           \/ \E t \in {"Requested", "Natural", "SignalSetupFailed"} : WithTrigger(r, "begin", t)
    BY <1>6, <1>f DEF Drive
  <2> QED
    BY <1>0, <1>p, <2>1, Walking
<1> QED
  BY <1>1, <1>2, <1>3, <1>4, <1>5, <1>6

\* Joining the operation, and being answered by it: whoever looks for the
\* operation finds it, because its own lease rules out an abandoned runtime.
LEMMA JoinSteps ==
  ASSUME ShutdownInvariant, NEW c \in Callers,
         \/ BeginShutdown(c) /\ core.operation
         \/ Lookup(c) \/ WaitOutcome(c) \/ CallDropped(c)
  PROVE  Walks(c) \/ Leaves(c)
<1>0. Types /\ OneOperation /\ Anchored(c)
  BY DEF ShutdownInvariant
<1>p. /\ {"wait", "begin", "lookup"} \subseteq Places /\ "wait" \notin Begun /\ "wait" \notin Uncommitted
      /\ {"ShuttingDown", "dropped"} \subseteq Answers \ {"Panic"}
      /\ Outcomes \subseteq Answers \ {"Panic"} /\ "dropped" \notin Outcomes
  BY DEF Places, Begun, Uncommitted, Answers, Outcomes
<1>1. CASE BeginShutdown(c) /\ core.operation
  BY <1>0, <1>1, <1>p, Walking DEF BeginShutdown
<1>2. CASE Lookup(c)
  <2>1. core.operation
    <3>1. At(c, "lookup") /\ core.announced
      BY <1>2 DEF Lookup
    <3>2. leases # {}
      BY <1>0, <3>1 DEF Anchored, At, Callers
    <3> QED
      BY <1>0, <3>1, <3>2 DEF OneOperation
  <2> QED
    BY <1>0, <1>2, <1>p, <2>1, Walking DEF Lookup
<1>3. CASE WaitOutcome(c)
  <2>1. outcome \in Outcomes \cup {"none"}
    BY <1>0 DEF Types, OwnerTypes
  <2>2. call[c].at = "wait" /\ UNCHANGED <<worker, members, batch, owner, outcome>>
    BY <1>3 DEF WaitOutcome, At
  <2>3. \/ outcome # "none" /\ Leave(c, outcome)
        \/ outcome = "none" /\ owner.at = "gone" /\ Leave(c, "ShuttingDown")
    BY <1>3 DEF WaitOutcome
  <2> QED
    BY <1>p, <2>1, <2>2, <2>3 DEF Leaves
<1>4. CASE CallDropped(c)
  BY <1>4, <1>p DEF CallDropped, Leaves
<1> QED
  BY <1>1, <1>2, <1>3, <1>4

-----------------------------------------------------------------------------
(* The callers' steps keep the invariant.                                  *)

\* What the owner has established outlives the callers' steps: by the time a
\* fence has passed, neither a batch nor a member can be added.
LEMMA TailStays ==
  ASSUME ShutdownInvariant, UNCHANGED <<owner, outcome>>,
         core'.operation = core.operation,
         core.operation => core'.runtime_token = core.runtime_token
  PROVE  Tail'
<1>1. Tail
  BY DEF ShutdownInvariant
<1> QED
  BY <1>1 DEF Tail

\* So do the swept queue, members and workers.
LEMMA SweptStays ==
  ASSUME ShutdownInvariant, UNCHANGED owner, core.operation => worker' = worker,
         core.announced => batch' = batch, core.shutting_down => members' = members
  PROVE  Swept'
<1>1. Swept /\ Tail /\ OneOperation
  BY DEF ShutdownInvariant
<1>2. CASE core.operation
  <2>1. worker' = worker /\ batch' = batch /\ members' = members
    BY <1>1, <1>2 DEF OneOperation
  <2> QED
    BY <1>1, <2>1 DEF Swept
<1>3. CASE ~core.operation
  <2>1. owner.at = "none" /\ owner.verdict = "none"
    BY <1>1, <1>3 DEF Tail
  <2> QED
    BY <2>1 DEF Swept
<1> QED
  BY <1>2, <1>3

\* Walking keeps the invariant.
LEMMA WalkKeeps ==
  ASSUME ShutdownInvariant, NEW c \in Callers, Walks(c)
  PROVE  ShutdownInvariant'
<1>0. /\ Types /\ OneClaim /\ OneOperation
      /\ \A d \in Callers : Anchored(d) /\ Claiming(d) /\ Installing(d) /\ Answered(d)
  BY DEF ShutdownInvariant
<1>1. PICK place \in Places :
      /\ Moves(c, place)
      /\ call[c].at \notin {"idle", "done", "install", "spawn"}
      /\ place \notin {"idle", "done", "install", "spawn"}
      /\ place \in Begun => call[c].at \in Begun
      /\ place \in Uncommitted => call[c].at \in Uncommitted /\ call'[c].claim = call[c].claim
      /\ \/ call'[c].claim = call[c].claim
         \/ call'[c].claim = "committed" /\ call[c].at \in Uncommitted
      /\ UNCHANGED <<core, worker, owner, outcome, leases>>
      /\ OwnerTypes'
      /\ core.announced => batch' = batch
      /\ core.shutting_down => members' = members
  BY DEF Walks
<1>2. Types'
  BY <1>0, <1>1 DEF Types, Moves, Alone, CoreTypes, LeaseTypes
<1>3. Tail' /\ Swept'
  BY <1>1, TailStays, SweptStays
<1>4. \A d \in Callers : d # c => call'[d] = call[d]
  BY <1>1 DEF Moves, Alone
<1>5. call'[c].at = place /\ call'[c].result = call[c].result
  BY <1>1 DEF Moves
<1>6. \A d \in Callers : call'[d].claim # "none" <=> call[d].claim # "none"
  BY <1>0, <1>1, <1>4 DEF Claiming
<1>7. OneClaim'
  BY <1>0, <1>1, <1>6 DEF OneClaim, Callers
<1>8. OneOperation'
  <2>1. core.lock # Nobody => core.lock \in Callers /\ core.lock # c
    BY <1>0, <1>1 DEF OneOperation, Types, CoreTypes, CoreRecord
  <2> QED
    BY <1>0, <1>1, <1>4, <1>5, <2>1 DEF OneOperation
<1>9. ASSUME NEW d \in Callers, d # c PROVE Anchored(d)' /\ Claiming(d)' /\ Installing(d)' /\ Answered(d)'
  BY <1>0, <1>1, <1>4, <1>9 DEF Anchored, Claiming, Installing, Answered
<1>10. Anchored(c)' /\ Claiming(c)' /\ Installing(c)' /\ Answered(c)'
  <2>1. Anchored(c)' /\ Installing(c)'
    BY <1>0, <1>1, <1>5 DEF Anchored, Installing
  <2>2. Claiming(c)'
    BY <1>0, <1>1, <1>5, LifeAssumption DEF Claiming
  <2>3. Answered(c)'
    BY <1>0, <1>1, <1>5 DEF Answered
  <2> QED
    BY <2>1, <2>2, <2>3
<1> QED
  BY <1>2, <1>3, <1>7, <1>8, <1>9, <1>10 DEF ShutdownInvariant

\* So does leaving, with the last lease or not.
LEMMA LeaveKeeps ==
  ASSUME ShutdownInvariant, NEW c \in Callers, Leaves(c)
  PROVE  ShutdownInvariant'
<1>0. /\ Types /\ OneClaim /\ OneOperation /\ Tail
      /\ \A d \in Callers : Anchored(d) /\ Claiming(d) /\ Installing(d) /\ Answered(d)
  BY DEF ShutdownInvariant
<1>1. PICK answer \in Answers \ {"Panic"} :
      /\ Leave(c, answer)
      /\ answer \in Outcomes => \/ outcome # "none" /\ answer = outcome
                                \/ outcome = "none" /\ answer = "ShuttingDown" /\ owner.at = "gone"
      /\ call[c].at \notin {"install", "spawn"}
      /\ UNCHANGED <<worker, members, batch, owner, outcome>>
  BY DEF Leaves
<1>2. /\ Alone(c) /\ call'[c].at = "done" /\ call'[c].result = answer
      /\ call'[c].claim = IF call[c].claim = "held" THEN "none" ELSE call[c].claim
      /\ leases' = leases \ {c}
      /\ CoreTypes'
      /\ core'.running = IF call[c].claim = "held" THEN FALSE ELSE core.running
      /\ core'.operation = core.operation /\ core'.lock = core.lock
      /\ core'.started = core.started
      /\ IF leases' # {} \/ core.operation
           THEN /\ core'.shutting_down = core.shutting_down /\ core'.announced = core.announced
                /\ core'.runtime_token = core.runtime_token
           ELSE core'.shutting_down /\ core'.announced /\ core'.runtime_token
  BY <1>0, <1>1, Leaving DEF Types
<1>3. Types'
  BY <1>0, <1>1, <1>2 DEF Types, Alone, OwnerTypes, LeaseTypes
<1>4. Tail' /\ Swept'
  BY <1>1, <1>2, TailStays, SweptStays
<1>5. \A d \in Callers : d # c => call'[d] = call[d]
  BY <1>2 DEF Alone
<1>6. OneClaim'
  <2>1. CASE call[c].claim = "held"
    <3>1. c \in Runs
      BY <1>0, <2>1 DEF Claiming, Callers
    <3>2. \A r \in Runs : r # c => call'[r].claim = "none"
      BY <1>0, <1>5, <2>1, <3>1 DEF OneClaim, Callers
    <3>3. \A r \in Runs : call'[r].claim = "none"
      BY <1>2, <2>1, <3>2
    <3> QED
      BY <1>2, <2>1, <3>3 DEF OneClaim
  <2>2. CASE call[c].claim # "held"
    <3>1. \A r \in Runs : call'[r].claim = call[r].claim
      BY <1>2, <1>5, <2>2 DEF Callers
    <3> QED
      BY <1>0, <1>2, <2>2, <3>1 DEF OneClaim
  <2> QED
    BY <2>1, <2>2
<1>7. OneOperation'
  <2>1. core.lock # Nobody => core.lock \in Callers /\ core.lock # c
    BY <1>0, <1>1 DEF OneOperation, Types, CoreTypes, CoreRecord
  <2>2. core'.announced \/ core'.runtime_token => core'.operation \/ leases' = {}
    BY <1>0, <1>2 DEF OneOperation
  <2>3. core'.operation => core'.started /\ core'.announced /\ core'.shutting_down
    BY <1>0, <1>2 DEF OneOperation
  <2>4. core'.lock # Nobody => call'[core'.lock].at = "install"
    BY <1>0, <1>2, <1>5, <2>1 DEF OneOperation
  <2>5. \A d, e \in Callers : call'[d].at = "spawn" /\ call'[e].at = "spawn" => d = e
    BY <1>0, <1>2, <1>5 DEF OneOperation
  <2> QED
    BY <2>2, <2>3, <2>4, <2>5 DEF OneOperation
<1>8. ASSUME NEW d \in Callers, d # c PROVE Anchored(d)' /\ Claiming(d)' /\ Installing(d)' /\ Answered(d)'
  <2>1. Anchored(d)'
    <3>1. c # "supervisor"
      BY LifeAssumption DEF Callers
    <3> QED
      BY <1>0, <1>2, <1>5, <1>8, <3>1 DEF Anchored
  <2>2. Claiming(d)' /\ Installing(d)' /\ Answered(d)'
    BY <1>0, <1>1, <1>2, <1>5, <1>8 DEF Claiming, Installing, Answered
  <2> QED
    BY <2>1, <2>2
<1>9. Anchored(c)' /\ Claiming(c)' /\ Installing(c)' /\ Answered(c)'
  <2>1. Anchored(c)' /\ Installing(c)' /\ Claiming(c)'
    BY <1>0, <1>2 DEF Anchored, Installing, Claiming, Begun, Uncommitted
  <2>2. outcome # "none" \/ owner.at = "gone" => core.operation
    BY <1>0 DEF Tail
  <2>3. Answered(c)'
    BY <1>1, <1>2, <2>2 DEF Answered
  <2> QED
    BY <2>1, <2>3
<1> QED
  BY <1>3, <1>4, <1>6, <1>7, <1>8, <1>9 DEF ShutdownInvariant

\* The last owner's drop.
LEMMA DropSupervisorKeeps ==
  ASSUME ShutdownInvariant, DropSupervisor
  PROVE  ShutdownInvariant'
<1>0. /\ Types /\ OneClaim /\ OneOperation
      /\ \A d \in Callers : Anchored(d) /\ Claiming(d) /\ Installing(d) /\ Answered(d)
  BY DEF ShutdownInvariant
<1>1. /\ \A r \in Runs : call[r].at \in {"idle", "done"}
      /\ leases' = leases \ {"supervisor"}
      /\ core' = Abandoned(core, leases')
      /\ UNCHANGED <<worker, members, batch, owner, outcome, call>>
  BY DEF DropSupervisor
<1>2. /\ CoreTypes'
      /\ core'.running = core.running /\ core'.operation = core.operation /\ core'.lock = core.lock
      /\ core'.started = core.started
      /\ IF leases' # {} \/ core.operation
           THEN core' = core
           ELSE core'.shutting_down /\ core'.announced /\ core'.runtime_token
  BY <1>0, <1>1 DEF Types, CoreTypes, CoreRecord, Abandoned
<1>3. Types'
  BY <1>0, <1>1, <1>2 DEF Types, CallTypes, OwnerTypes, LeaseTypes
<1>4. Tail' /\ Swept'
  BY <1>1, <1>2, TailStays, SweptStays
<1>5. OneClaim'
  BY <1>0, <1>1, <1>2 DEF OneClaim
<1>6. OneOperation'
  BY <1>0, <1>1, <1>2 DEF OneOperation
<1>7. ASSUME NEW d \in Callers PROVE Anchored(d)' /\ Claiming(d)' /\ Installing(d)' /\ Answered(d)'
  <2>1. Anchored(d)'
    <3>1. d \in Handles => d # "supervisor"
      BY LifeAssumption
    <3> QED
      BY <1>0, <1>1, <1>2, <3>1 DEF Anchored
  <2> QED
    BY <1>0, <1>1, <1>2, <2>1 DEF Claiming, Installing, Answered
<1> QED
  BY <1>3, <1>4, <1>5, <1>6, <1>7 DEF ShutdownInvariant

\* Starting is done once; it happens under a lease and before any operation.
LEMMA Starting ==
  ASSUME Types, Started
  PROVE  /\ CoreTypes' /\ core'.started
         /\ core'.running = core.running /\ core'.operation = core.operation
         /\ core'.lock = core.lock /\ core'.shutting_down = core.shutting_down
         /\ core'.announced = core.announced /\ core'.runtime_token = core.runtime_token
         /\ worker' \in [Tasks \cup {"subs"} -> {"off", "up", "ended", "failed"}]
         /\ core.started => worker' = worker
<1>1. worker' \in [Tasks \cup {"subs"} -> {"off", "up", "ended", "failed"}]
  BY DEF Started, Types, OwnerTypes
<1> QED
  BY <1>1 DEF Started, Types, CoreTypes, CoreRecord

\* Serve, and a static run that starts the runtime and commits its claim.
LEMMA StartKeeps ==
  ASSUME ShutdownInvariant, NEW c \in Callers,
         \/ c \in Handles /\ Serve(c)
         \/ c \in Runs /\ StartRun(c) /\ Started /\ Committed(c, AfterStart[call[c].at]) /\ UNCHANGED leases
  PROVE  ShutdownInvariant'
<1>0. /\ Types /\ OneClaim /\ OneOperation
      /\ \A d \in Callers : Anchored(d) /\ Claiming(d) /\ Installing(d) /\ Answered(d)
  BY DEF ShutdownInvariant
<1>1. Started /\ UNCHANGED <<members, batch, owner, outcome>>
  BY DEF Serve, StartRun
<1>2. /\ CoreTypes' /\ core'.started
      /\ core'.running = core.running /\ core'.operation = core.operation
      /\ core'.lock = core.lock /\ core'.shutting_down = core.shutting_down
      /\ core'.announced = core.announced /\ core'.runtime_token = core.runtime_token
      /\ worker' \in [Tasks \cup {"subs"} -> {"off", "up", "ended", "failed"}]
      /\ core.started => worker' = worker
  BY <1>0, <1>1, Starting
<1>3. \E place \in {"held", "drive", "begin", "enqueue"} :
         /\ Moves(c, place) /\ leases \subseteq leases' /\ leases # {}
         /\ call[c].at \notin {"install", "spawn"}
         /\ call'[c].claim # "none" <=> call[c].claim # "none"
         /\ c \in Handles => c \in leases' /\ leases' = leases \cup {c} /\ call'[c].claim = "none"
         /\ c \in Runs => "supervisor" \in leases' /\ leases' = leases
  <2>1. CASE c \in Handles /\ Serve(c)
    <3>1. Goto(c, "held") /\ leases' = leases \cup {c} /\ "supervisor" \in leases /\ call[c].at = "idle"
      BY <2>1 DEF Serve, At
    <3>2. "held" \in Places
      BY DEF Places, Begun
    <3>3. Moves(c, "held") /\ call'[c].claim = call[c].claim
      BY <1>0, <3>1, <3>2, Moving DEF Types
    <3>4. call[c].claim = "none" /\ c \notin Runs
      BY <1>0, <2>1, LifeAssumption DEF Claiming
    <3> QED
      BY <3>1, <3>3, <3>4
  <2>2. CASE /\ c \in Runs /\ StartRun(c) /\ Started
             /\ Committed(c, AfterStart[call[c].at]) /\ UNCHANGED leases
    <3>1. call[c].at \in {"startEmpty", "startTrigger", "startBatch"}
      BY <2>2 DEF StartRun, AfterStart
    <3>2. AfterStart[call[c].at] \in {"drive", "begin", "enqueue"}
      BY <3>1 DEF AfterStart
    <3> DEFINE place == AfterStart[call[c].at]
    <3>3. place \in Places /\ place \in {"drive", "begin", "enqueue"}
      BY <3>2 DEF Places, Begun
    <3> HIDE DEF place
    <3>4. Moves(c, place) /\ call'[c].claim = "committed"
      BY <1>0, <2>2, <3>3, Moving DEF Types, place
    <3>5. call[c].claim = "held" /\ c \notin Handles /\ "supervisor" \in leases
      BY <1>0, <2>2, <3>1, LifeAssumption DEF Claiming, Uncommitted, Anchored
    <3> QED
      BY <2>2, <3>1, <3>3, <3>4, <3>5
  <2> QED
    BY <2>1, <2>2
<1>4. PICK place \in {"held", "drive", "begin", "enqueue"} :
         /\ Moves(c, place) /\ leases \subseteq leases' /\ leases # {}
         /\ call[c].at \notin {"install", "spawn"}
         /\ call'[c].claim # "none" <=> call[c].claim # "none"
         /\ c \in Handles => c \in leases' /\ leases' = leases \cup {c} /\ call'[c].claim = "none"
         /\ c \in Runs => "supervisor" \in leases' /\ leases' = leases
  BY <1>3
<1>5. /\ call'[c].at = place /\ call'[c].result = call[c].result /\ CallTypes'
      /\ \A d \in Callers : d # c => call'[d] = call[d]
  BY <1>4 DEF Moves, Alone
<1>6. Types'
  BY <1>0, <1>1, <1>2, <1>4, <1>5 DEF Types, OwnerTypes, LeaseTypes, Callers
<1>7. Tail' /\ Swept'
  <2>1. core.operation => worker' = worker
    BY <1>0, <1>2 DEF OneOperation
  <2> QED
    BY <1>1, <1>2, <2>1, TailStays, SweptStays
<1>8. OneClaim'
  <2>1. \A r \in Runs : call'[r].claim # "none" <=> call[r].claim # "none"
    BY <1>4, <1>5 DEF Callers
  <2> QED
    BY <1>0, <1>2, <2>1 DEF OneClaim
<1>9. OneOperation'
  <2>1. core.lock # Nobody => core.lock \in Callers /\ core.lock # c
    BY <1>0, <1>4 DEF OneOperation, Types, CoreTypes, CoreRecord
  <2> QED
    BY <1>0, <1>2, <1>4, <1>5, <2>1 DEF OneOperation
<1>10. ASSUME NEW d \in Callers, d # c PROVE Anchored(d)' /\ Claiming(d)' /\ Installing(d)' /\ Answered(d)'
  BY <1>0, <1>1, <1>2, <1>4, <1>5, <1>10 DEF Anchored, Claiming, Installing, Answered
<1>11. Anchored(c)' /\ Claiming(c)' /\ Installing(c)' /\ Answered(c)'
  BY <1>0, <1>1, <1>2, <1>4, <1>5 DEF Anchored, Claiming, Installing, Answered, Uncommitted
<1> QED
  BY <1>6, <1>7, <1>8, <1>9, <1>10, <1>11 DEF ShutdownInvariant

\* Winning the claim: nobody else has one.
LEMMA ClaimKeeps ==
  ASSUME ShutdownInvariant, NEW r \in Runs, Claim(r), ~core.running
  PROVE  ShutdownInvariant'
<1>0. /\ Types /\ OneClaim /\ OneOperation
      /\ \A d \in Callers : Anchored(d) /\ Claiming(d) /\ Installing(d) /\ Answered(d)
  BY DEF ShutdownInvariant
<1>c. r \in Callers /\ r \notin Handles
  BY LifeAssumption DEF Callers
<1>1. /\ call[r].at = "idle" /\ "supervisor" \in leases
      /\ core' = [core EXCEPT !.running = TRUE]
      /\ call' = [call EXCEPT ![r].at = "claimed", ![r].claim = "held"]
      /\ UNCHANGED <<leases, worker, members, batch, owner, outcome>>
  BY DEF Claim, At
<1>2. /\ CallTypes' /\ call'[r].at = "claimed" /\ call'[r].claim = "held"
      /\ call'[r].result = call[r].result
      /\ \A d \in Callers : d # r => call'[d] = call[d]
  BY <1>0, <1>1, <1>c DEF Types, CallTypes, CallRecord, Places, Uncommitted
<1>3. /\ CoreTypes' /\ core'.running
      /\ core'.started = core.started /\ core'.operation = core.operation
      /\ core'.lock = core.lock /\ core'.shutting_down = core.shutting_down
      /\ core'.announced = core.announced /\ core'.runtime_token = core.runtime_token
  BY <1>0, <1>1 DEF Types, CoreTypes, CoreRecord
<1>4. Types'
  BY <1>0, <1>1, <1>2, <1>3 DEF Types, OwnerTypes, LeaseTypes
<1>5. Tail' /\ Swept'
  BY <1>1, <1>3, TailStays, SweptStays
<1>6. OneClaim'
  <2>1. \A s \in Runs : call[s].claim = "none"
    BY <1>0 DEF OneClaim
  <2>2. \A s \in Runs : call'[s].claim # "none" <=> s = r
    BY <1>2, <2>1 DEF Callers
  <2> QED
    BY <1>3, <2>2 DEF OneClaim
<1>7. OneOperation'
  <2>1. core.lock # Nobody => core.lock \in Callers /\ core.lock # r
    BY <1>0, <1>1 DEF OneOperation, Types, CoreTypes, CoreRecord
  <2>2. core'.lock # Nobody => call'[core'.lock].at = "install"
    BY <1>0, <1>2, <1>3, <2>1 DEF OneOperation
  <2>3. \A d, e \in Callers : call'[d].at = "spawn" /\ call'[e].at = "spawn" => d = e
    BY <1>0, <1>2 DEF OneOperation
  <2>4. leases' = leases
    BY <1>1
  <2> QED
    BY <1>0, <1>3, <2>2, <2>3, <2>4 DEF OneOperation
<1>8. ASSUME NEW d \in Callers, d # r PROVE Anchored(d)' /\ Claiming(d)' /\ Installing(d)' /\ Answered(d)'
  BY <1>0, <1>1, <1>2, <1>3, <1>8 DEF Anchored, Claiming, Installing, Answered
<1>9. Anchored(r)' /\ Claiming(r)' /\ Installing(r)' /\ Answered(r)'
  BY <1>0, <1>c, <1>1, <1>2, <1>3 DEF Anchored, Claiming, Installing, Answered, Begun, Uncommitted
<1> QED
  BY <1>4, <1>5, <1>6, <1>7, <1>8, <1>9 DEF ShutdownInvariant

\* Taking the operation lock, with no operation installed.
LEMMA BeginKeeps ==
  ASSUME ShutdownInvariant, NEW c \in Callers, BeginShutdown(c), ~core.operation
  PROVE  ShutdownInvariant'
<1>0. /\ Types /\ OneClaim /\ OneOperation
      /\ \A d \in Callers : Anchored(d) /\ Claiming(d) /\ Installing(d) /\ Answered(d)
  BY DEF ShutdownInvariant
<1>1. /\ call[c].at = "begin" /\ core.lock = Nobody
      /\ core' = [core EXCEPT !.lock = c, !.shutting_down = TRUE]
      /\ Goto(c, "install")
      /\ UNCHANGED <<worker, members, batch, owner, outcome, leases>>
  BY DEF BeginShutdown, At
<1>2. /\ CallTypes' /\ call'[c].at = "install" /\ call'[c].claim = call[c].claim
      /\ call'[c].result = call[c].result
      /\ \A d \in Callers : d # c => call'[d] = call[d]
  <2>1. "install" \in Places
    BY DEF Places, Begun
  <2> QED
    BY <1>0, <1>1, <2>1, Moving DEF Types, Moves, Alone
<1>3. /\ CoreTypes' /\ core'.lock = c /\ core'.shutting_down
      /\ core'.running = core.running
      /\ core'.started = core.started /\ core'.operation = core.operation
      /\ core'.announced = core.announced /\ core'.runtime_token = core.runtime_token
  BY <1>0, <1>1 DEF Types, CoreTypes, CoreRecord
<1>4. Types'
  BY <1>0, <1>1, <1>2, <1>3 DEF Types, OwnerTypes, LeaseTypes
<1>5. Tail' /\ Swept'
  BY <1>1, <1>3, TailStays, SweptStays
<1>6. OneClaim'
  <2>1. \A r \in Runs : call'[r].claim = call[r].claim
    BY <1>2 DEF Callers
  <2> QED
    BY <1>0, <1>3, <2>1 DEF OneClaim
<1>7. OneOperation'
  BY <1>0, <1>1, <1>2, <1>3 DEF OneOperation
<1>8. ASSUME NEW d \in Callers, d # c PROVE Anchored(d)' /\ Claiming(d)' /\ Installing(d)' /\ Answered(d)'
  <2>1. call[d].at # "install"
    BY <1>0, <1>1, LifeAssumption DEF Installing, Callers
  <2> QED
    BY <1>0, <1>1, <1>2, <1>3, <1>8, <2>1 DEF Anchored, Claiming, Installing, Answered
<1>9. Anchored(c)' /\ Claiming(c)' /\ Installing(c)' /\ Answered(c)'
  BY <1>0, <1>1, <1>2, <1>3 DEF Anchored, Claiming, Installing, Answered, Begun, Uncommitted
<1> QED
  BY <1>4, <1>5, <1>6, <1>7, <1>8, <1>9 DEF ShutdownInvariant

\* Installing: the token is not cancelled yet, because the installer's own
\* lease rules out an abandoned runtime.
LEMMA InstallKeeps ==
  ASSUME ShutdownInvariant, NEW c \in Callers, Install(c)
  PROVE  ShutdownInvariant'
<1>0. /\ Types /\ OneClaim /\ OneOperation /\ Tail /\ Swept
      /\ \A d \in Callers : Anchored(d) /\ Claiming(d) /\ Installing(d) /\ Answered(d)
  BY DEF ShutdownInvariant
<1>1. /\ call[c].at = "install"
      /\ core' = [core EXCEPT !.operation = TRUE, !.announced = TRUE, !.lock = Nobody]
      /\ Goto(c, "spawn")
      /\ UNCHANGED <<worker, members, batch, owner, outcome, leases>>
  BY DEF Install, At
<1>2. /\ CallTypes' /\ call'[c].at = "spawn" /\ call'[c].claim = call[c].claim
      /\ call'[c].result = call[c].result
      /\ \A d \in Callers : d # c => call'[d] = call[d]
  <2>1. "spawn" \in Places
    BY DEF Places, Begun
  <2> QED
    BY <1>0, <1>1, <2>1, Moving DEF Types, Moves, Alone
<1>3. /\ CoreTypes' /\ core'.operation /\ core'.announced /\ core'.lock = Nobody
      /\ core'.running = core.running
      /\ core'.started = core.started /\ core'.shutting_down = core.shutting_down
      /\ core'.runtime_token = core.runtime_token
  BY <1>0, <1>1 DEF Types, CoreTypes, CoreRecord
<1>4. core.started /\ ~core.runtime_token /\ ~core.operation /\ core.lock = c
  <2>1. leases # {}
    BY <1>0, <1>1 DEF Anchored, Callers
  <2>2. core.started /\ ~core.operation /\ core.lock = c
    BY <1>0, <1>1 DEF Anchored, Installing, Begun
  <2> QED
    BY <1>0, <2>1, <2>2 DEF OneOperation
<1>5. owner.at = "none" /\ owner.verdict = "none" /\ outcome = "none"
  BY <1>0, <1>4 DEF Tail
<1>6. core.shutting_down
  BY <1>0, <1>1 DEF Installing
<1>7. Types'
  BY <1>0, <1>1, <1>2, <1>3 DEF Types, OwnerTypes, LeaseTypes
<1>8. Tail'
  BY <1>0, <1>1, <1>3, <1>4, <1>5 DEF Tail
<1>9. Swept'
  BY <1>1, <1>5 DEF Swept
<1>10. OneClaim'
  <2>1. \A r \in Runs : call'[r].claim = call[r].claim
    BY <1>2 DEF Callers
  <2> QED
    BY <1>0, <1>3, <2>1 DEF OneClaim
<1>11. \A d \in Callers : call[d].at # "spawn"
  BY <1>0, <1>4 DEF Installing
<1>12. OneOperation'
  BY <1>0, <1>2, <1>3, <1>4, <1>6, <1>11 DEF OneOperation
<1>13. ASSUME NEW d \in Callers, d # c PROVE Anchored(d)' /\ Claiming(d)' /\ Installing(d)' /\ Answered(d)'
  <2>1. call[d].at # "install"
    BY <1>0, <1>4, <1>13 DEF Installing
  <2> QED
    BY <1>0, <1>1, <1>2, <1>3, <1>11, <1>13, <2>1 DEF Anchored, Claiming, Installing, Answered
<1>14. Anchored(c)' /\ Claiming(c)' /\ Installing(c)' /\ Answered(c)'
  BY <1>0, <1>1, <1>2, <1>3, <1>5 DEF Anchored, Claiming, Installing, Answered, Begun, Uncommitted
<1> QED
  BY <1>7, <1>8, <1>9, <1>10, <1>12, <1>13, <1>14 DEF ShutdownInvariant

\* Spawning the only owner there will be.
LEMMA SpawnKeeps ==
  ASSUME ShutdownInvariant, NEW c \in Callers, Spawn(c)
  PROVE  ShutdownInvariant'
<1>0. /\ Types /\ OneClaim /\ OneOperation /\ Tail /\ Swept
      /\ \A d \in Callers : Anchored(d) /\ Claiming(d) /\ Installing(d) /\ Answered(d)
  BY DEF ShutdownInvariant
<1>1. /\ call[c].at = "spawn"
      /\ owner' = [at |-> IF core.alive THEN "resolve" ELSE "gone", trigger |-> call[c].trigger,
                   verdict |-> "none", clean |-> TRUE, redo |-> FALSE]
      /\ Goto(c, "wait")
      /\ UNCHANGED <<core, worker, members, batch, outcome, leases>>
  BY DEF Spawn, At
<1>2. /\ CallTypes' /\ call'[c].at = "wait" /\ call'[c].claim = call[c].claim
      /\ call'[c].result = call[c].result
      /\ \A d \in Callers : d # c => call'[d] = call[d]
  <2>1. "wait" \in Places
    BY DEF Places
  <2> QED
    BY <1>0, <1>1, <2>1, Moving DEF Types, Moves, Alone
<1>3. core.operation /\ owner.at = "none" /\ outcome = "none"
  BY <1>0, <1>1 DEF Installing, Tail
<1>4. /\ owner' \in OwnerRecord /\ owner'.at \in {"resolve", "gone"} /\ owner'.verdict = "none"
      /\ owner'.redo = FALSE
  BY <1>0, <1>1 DEF Types, CallTypes, CallRecord, OwnerRecord, Phases
<1>5. ~core.runtime_token
  BY <1>0, <1>3 DEF Tail
<1>7. Types'
  BY <1>0, <1>1, <1>2, <1>4 DEF Types, OwnerTypes, LeaseTypes, CoreTypes
<1>8. Tail'
  BY <1>0, <1>1, <1>3, <1>4, <1>5 DEF Tail
<1>9. Swept'
  BY <1>4 DEF Swept
<1>10. OneClaim'
  <2>1. \A r \in Runs : call'[r].claim = call[r].claim
    BY <1>2 DEF Callers
  <2> QED
    BY <1>0, <1>1, <2>1 DEF OneClaim
<1>12. OneOperation'
  <2>1. core.lock # Nobody => core.lock \in Callers /\ core.lock # c
    BY <1>0, <1>1 DEF OneOperation, Types, CoreTypes, CoreRecord
  <2> QED
    BY <1>0, <1>1, <1>2, <2>1 DEF OneOperation
<1>13. ASSUME NEW d \in Callers, d # c PROVE Anchored(d)' /\ Claiming(d)' /\ Installing(d)' /\ Answered(d)'
  <2>1. call[d].at # "spawn" /\ call[d].result \notin Outcomes
    BY <1>0, <1>1, <1>3, <1>13 DEF OneOperation, Answered
  <2> QED
    BY <1>0, <1>1, <1>2, <1>13, <2>1 DEF Anchored, Claiming, Installing, Answered
<1>14. Anchored(c)' /\ Claiming(c)' /\ Installing(c)' /\ Answered(c)'
  <2>1. call[c].result \notin Outcomes
    BY <1>0, <1>3 DEF Answered
  <2> QED
    BY <1>0, <1>1, <1>2, <2>1 DEF Anchored, Claiming, Installing, Answered, Begun, Uncommitted
<1> QED
  BY <1>7, <1>8, <1>9, <1>10, <1>12, <1>13, <1>14 DEF ShutdownInvariant

-----------------------------------------------------------------------------
(* The owner and the workers keep the invariant.                           *)

\* A step without a caller: no claim, lock or answer is touched, an owner that
\* was lost stays lost, and an outcome is published only where it was not.
LEMMA CallersStay ==
  ASSUME ShutdownInvariant, UNCHANGED <<call, leases>>, Types', Tail', Swept',
         core'.started = core.started, core'.running = core.running, core'.lock = core.lock,
         core'.operation = core.operation, core'.announced = core.announced,
         core.shutting_down => core'.shutting_down,
         core'.runtime_token => core.runtime_token \/ core.operation,
         owner.at = "none" => owner'.at = "none",
         \/ outcome' = outcome /\ (owner.at = "gone" => owner'.at = "gone")
         \/ outcome = "none" /\ owner.at # "gone"
  PROVE  ShutdownInvariant'
<1>0. /\ Types /\ OneClaim /\ OneOperation
      /\ \A d \in Callers : Anchored(d) /\ Claiming(d) /\ Installing(d) /\ Answered(d)
  BY DEF ShutdownInvariant
<1>1. OneClaim'
  BY <1>0 DEF OneClaim
<1>2. OneOperation'
  BY <1>0 DEF OneOperation
<1>3. ASSUME NEW d \in Callers PROVE Anchored(d)' /\ Claiming(d)' /\ Installing(d)' /\ Answered(d)'
  <2>1. Anchored(d)' /\ Claiming(d)'
    BY <1>0 DEF Anchored, Claiming
  <2>2. Installing(d)'
    BY <1>0 DEF Installing
  <2>3. Answered(d)'
    BY <1>0 DEF Answered
  <2> QED
    BY <2>1, <2>2, <2>3
<1> QED
  BY <1>1, <1>2, <1>3 DEF ShutdownInvariant

\* The fields of the owner.
LEMMA OwnerFields ==
  ASSUME OwnerTypes
  PROVE  /\ owner.at \in Phases /\ owner.verdict \in Outcomes \cup {"none"}
         /\ owner.clean \in BOOLEAN /\ owner.redo \in BOOLEAN
BY DEF OwnerTypes, OwnerRecord

\* The fence and the drain.
LEMMA ResolveKeeps ==
  ASSUME ShutdownInvariant, Fence \/ Drain
  PROVE  ShutdownInvariant'
<1>0. Types /\ OneOperation /\ Tail /\ Swept
  BY DEF ShutdownInvariant
<1>1. /\ owner.at \in {"resolve", "drain"} /\ core.operation /\ core.shutting_down /\ outcome = "none"
      /\ owner.verdict = "none"
  BY <1>0 DEF Fence, Drain, Tail, OneOperation
<1>2. /\ core' = core \/ core' = [core EXCEPT !.shutting_down = TRUE]
      /\ UNCHANGED <<worker, batch, outcome, call, leases>> /\ members' \in {members, FALSE}
  BY DEF Fence, Drain
<1>3. /\ CoreTypes' /\ core'.started = core.started /\ core'.running = core.running /\ core'.lock = core.lock
      /\ core'.operation = core.operation /\ core'.announced = core.announced
      /\ core'.shutting_down /\ core'.runtime_token = core.runtime_token
  BY <1>0, <1>1, <1>2 DEF Types, CoreTypes, CoreRecord
<1>4. CASE owner.at = "resolve" /\ owner' = [owner EXCEPT !.at = "drain"] /\ Fence
  <2>1. \A r \in Runs : batch[r] # "queued"
    BY <1>0, <1>4 DEF Fence, Types, OwnerTypes, OwnerRecord, Resolved, Phases
  <2>2. /\ owner' \in OwnerRecord /\ owner'.at = "drain" /\ owner'.verdict = owner.verdict
        /\ owner'.clean = owner.clean /\ owner'.redo = owner.redo
    BY <1>0, <1>4 DEF Types, OwnerTypes, OwnerRecord, Phases
  <2>3. Types'
    BY <1>0, <1>2, <1>3, <2>2 DEF Types, OwnerTypes, CallTypes, LeaseTypes
  <2>4. Tail'
    BY <1>0, <1>1, <1>2, <1>3, <2>2 DEF Tail
  <2>5. Swept'
    BY <1>1, <1>2, <2>1, <2>2 DEF Swept
  <2> QED
    BY <1>1, <1>2, <1>3, <2>3, <2>4, <2>5, CallersStay
<1>5. ASSUME NEW v \in Outcomes, Resolved(v),
             v \in {"Completed", "GraceExceeded"} => \A r \in Runs : batch[r] # "queued",
             v = "Completed" => ~members'
      PROVE  ShutdownInvariant'
  <2>2. /\ owner' \in OwnerRecord /\ owner'.at = "controller" /\ owner'.verdict = v
        /\ owner'.clean = owner.clean /\ owner'.redo = owner.redo
    BY <1>0, <1>5 DEF Types, OwnerTypes, OwnerRecord, Phases, Resolved
  <2>3. Types'
    BY <1>0, <1>2, <1>3, <2>2 DEF Types, OwnerTypes, CallTypes, LeaseTypes
  <2>4. Tail'
    BY <1>0, <1>1, <1>2, <1>3, <2>2 DEF Tail, Outcomes
  <2>5. Swept'
    BY <1>2, <1>5, <2>2 DEF Swept
  <2> QED
    BY <1>1, <1>2, <1>3, <2>3, <2>4, <2>5, CallersStay
<1>6. CASE Fence
  <2>1. \/ owner.at = "resolve" /\ owner' = [owner EXCEPT !.at = "drain"]
        \/ Resolved("SignalSetupFailed") \/ Resolved("ShuttingDown")
    BY <1>6 DEF Fence
  <2> QED
    BY <1>4, <1>5, <1>6, <2>1 DEF Outcomes
<1>7. CASE Drain
  <2>1. (Resolved("Completed") \/ Resolved("GraceExceeded")) /\ ~members' /\ owner.at = "drain"
    BY <1>7 DEF Drain
  <2> QED
    BY <1>0, <1>5, <2>1 DEF Outcomes, Swept
<1> QED
  BY <1>6, <1>7

\* Cancelling the token, closing the subscribers, joining and publishing.
LEMMA OwnerKeeps ==
  ASSUME ShutdownInvariant, CancelToken \/ CloseSubs \/ Publish \/ \E w \in Tasks : Join(w)
  PROVE  ShutdownInvariant'
<1>0. Types /\ OneOperation /\ Tail /\ Swept
  BY DEF ShutdownInvariant
<1>f. Following["token"] = "listener" /\ Following["subs"] = "publish" /\ Following["controller"] = "token"
      /\ Following["listener"] = "relay" /\ Following["relay"] = "subs"
  BY DEF Following
<1>1. CASE CancelToken
  <2>1. /\ owner.at = "token" /\ core' = [core EXCEPT !.runtime_token = TRUE]
        /\ owner' = [owner EXCEPT !.at = "listener"]
        /\ UNCHANGED <<worker, members, batch, outcome, call, leases>>
    BY <1>1, <1>f DEF CancelToken
  <2>2. /\ CoreTypes' /\ core'.started = core.started /\ core'.running = core.running /\ core'.lock = core.lock
        /\ core'.operation = core.operation /\ core'.announced = core.announced
        /\ core'.shutting_down = core.shutting_down /\ core'.runtime_token
    BY <1>0, <2>1 DEF Types, CoreTypes, CoreRecord
  <2>3. /\ owner' \in OwnerRecord /\ owner'.at = "listener" /\ owner'.verdict = owner.verdict
        /\ owner'.clean = owner.clean /\ owner'.redo = owner.redo
    BY <1>0, <2>1 DEF Types, OwnerTypes, OwnerRecord, Phases
  <2>4. Types'
    BY <1>0, <2>1, <2>2, <2>3 DEF Types, OwnerTypes, CallTypes, LeaseTypes
  <2>5. core.operation /\ Tail'
    BY <1>0, <2>1, <2>2, <2>3 DEF Tail
  <2>6. Swept'
    BY <1>0, <2>1, <2>3 DEF Swept
  <2> QED
    BY <2>1, <2>2, <2>3, <2>4, <2>5, <2>6, CallersStay
<1>2. CASE CloseSubs
  <2>1. /\ owner.at = "subs" /\ worker' = [worker EXCEPT !["subs"] = "ended"]
        /\ owner' = [owner EXCEPT !.at = "publish"]
        /\ UNCHANGED <<core, members, batch, outcome, call, leases>>
    BY <1>2, <1>f DEF CloseSubs
  <2>2. /\ worker' \in [Tasks \cup {"subs"} -> {"off", "up", "ended", "failed"}]
        /\ worker'["subs"] = "ended" /\ worker'["controller"] = worker["controller"]
        /\ worker'["listener"] = worker["listener"] /\ worker'["relay"] = worker["relay"]
    BY <1>0, <2>1 DEF Types, OwnerTypes, Tasks
  <2>3. /\ owner' \in OwnerRecord /\ owner'.at = "publish" /\ owner'.verdict = owner.verdict
        /\ owner'.clean = owner.clean /\ owner'.redo = owner.redo
    BY <1>0, <2>1 DEF Types, OwnerTypes, OwnerRecord, Phases
  <2>4. Types'
    BY <1>0, <2>1, <2>2, <2>3 DEF Types, OwnerTypes, CallTypes, LeaseTypes, CoreTypes
  <2>5. Tail'
    BY <1>0, <2>1, <2>3 DEF Tail
  <2>6. Swept'
    BY <1>0, <2>1, <2>2, <2>3 DEF Swept
  <2> QED
    BY <2>1, <2>3, <2>4, <2>5, <2>6, CallersStay
<1>3. CASE Publish
  <2>1. /\ owner.at = "publish"
        /\ outcome' = IF owner.clean /\ ~owner.redo THEN owner.verdict ELSE "ShuttingDown"
        /\ owner' = [owner EXCEPT !.at = "done"]
        /\ UNCHANGED <<core, worker, members, batch, call, leases>>
    BY <1>3 DEF Publish
  <2>2. outcome = "none" /\ owner.verdict \in Outcomes
    BY <1>0, <2>1, OwnerFields DEF Tail, Types
  <2>3. /\ owner' \in OwnerRecord /\ owner'.at = "done" /\ owner'.verdict = owner.verdict
        /\ owner'.clean = owner.clean /\ owner'.redo = owner.redo
    BY <1>0, <2>1 DEF Types, OwnerTypes, OwnerRecord, Phases
  <2>4. outcome' \in Outcomes /\ outcome' # "none"
    BY <2>1, <2>2 DEF Outcomes
  <2>5. Types'
    BY <1>0, <2>1, <2>3, <2>4 DEF Types, OwnerTypes, CallTypes, LeaseTypes, CoreTypes
  <2>6. Tail'
    BY <1>0, <2>1, <2>3, <2>4 DEF Tail
  <2>7. Swept'
    BY <1>0, <2>1, <2>3 DEF Swept
  <2> QED
    BY <2>1, <2>2, <2>3, <2>5, <2>6, <2>7, CallersStay
<1>4. ASSUME NEW w \in Tasks, Join(w) PROVE ShutdownInvariant'
  <2> DEFINE next == Following[w]
  <2>1. /\ owner.at = w /\ worker[w] # "up"
        /\ owner' = [owner EXCEPT !.at = next, !.clean = owner.clean /\ worker[w] # "failed"]
        /\ UNCHANGED <<core, worker, members, batch, outcome, call, leases>>
    BY <1>4 DEF Join
  <2>2. \/ w = "controller" /\ next = "token"
        \/ w = "listener" /\ next = "relay"
        \/ w = "relay" /\ next = "subs"
    BY <1>f DEF Tasks
  <2> HIDE DEF next
  <2>3. /\ owner' \in OwnerRecord /\ owner'.at = next /\ owner'.verdict = owner.verdict
        /\ owner'.clean = (owner.clean /\ worker[w] # "failed") /\ owner'.redo = owner.redo
    BY <1>0, <2>1, <2>2 DEF Types, OwnerTypes, OwnerRecord, Phases
  <2>4. worker[w] \in {"off", "ended", "failed"}
    BY <1>0, <2>1 DEF Types, OwnerTypes
  <2>5. Types'
    BY <1>0, <2>1, <2>3 DEF Types, OwnerTypes, CallTypes, LeaseTypes, CoreTypes
  <2>6. Tail'
    <3>1. /\ outcome = "none" /\ core.operation /\ owner.verdict # "none"
          /\ w \in {"listener", "relay"} => core.runtime_token
          /\ w = "controller" /\ ~owner.redo => ~core.runtime_token
      BY <1>0, <2>1, <2>2 DEF Tail
    <3>2. /\ owner'.at = next /\ owner'.verdict = owner.verdict /\ owner'.redo = owner.redo
          /\ core' = core /\ outcome' = outcome
      BY <2>1, <2>3
    <3> QED
      BY <2>2, <3>1, <3>2 DEF Tail
  <2>7. Swept'
    BY <1>0, <2>1, <2>2, <2>3, <2>4 DEF Swept
  <2> QED
    BY <2>1, <2>2, <2>3, <2>5, <2>6, <2>7, CallersStay
<1> QED
  BY <1>1, <1>2, <1>3, <1>4

\* Panics inside and between the guarded phases, and the loss of the runtime.
LEMMA FaultKeeps ==
  ASSUME ShutdownInvariant, PhasePanics \/ OwnerPanics \/ RuntimeLost
  PROVE  ShutdownInvariant'
<1>0. Types /\ OneOperation /\ Tail /\ Swept
  BY DEF ShutdownInvariant
<1>f. Following["subs"] = "publish" /\ Following["controller"] = "token"
      /\ Following["listener"] = "relay" /\ Following["relay"] = "subs"
  BY DEF Following
<1>1. CASE PhasePanics
  <2>0. UNCHANGED <<core, members, batch, outcome, call, leases>>
    BY <1>1 DEF PhasePanics
  <2>1. CASE owner.at \in {"resolve", "drain"} /\ Resolved("ShuttingDown") /\ UNCHANGED worker
    <3>1. /\ owner' \in OwnerRecord /\ owner'.at = "controller" /\ owner'.verdict = "ShuttingDown"
          /\ owner'.clean = owner.clean /\ owner'.redo = owner.redo
      BY <1>0, <2>1 DEF Types, OwnerTypes, OwnerRecord, Phases, Resolved, Outcomes
    <3>2. Types'
      BY <1>0, <2>0, <2>1, <3>1 DEF Types, OwnerTypes, CallTypes, LeaseTypes, CoreTypes
    <3>3. Tail'
      BY <1>0, <2>0, <2>1, <3>1 DEF Tail
    <3>4. Swept'
      BY <2>1, <3>1 DEF Swept
    <3> QED
      BY <2>0, <2>1, <3>1, <3>2, <3>3, <3>4, CallersStay
  <2>2. CASE /\ owner.at \in Tasks /\ UNCHANGED worker
             /\ owner' = [owner EXCEPT !.clean = FALSE, !.at = Following[@]]
    <3> DEFINE next == Following[owner.at]
    <3>1. \/ owner.at = "controller" /\ next = "token"
          \/ owner.at = "listener" /\ next = "relay"
          \/ owner.at = "relay" /\ next = "subs"
      BY <1>f, <2>2 DEF Tasks
    <3>2. owner' = [owner EXCEPT !.clean = FALSE, !.at = next]
      BY <2>2
    <3> HIDE DEF next
    <3>3. /\ owner' \in OwnerRecord /\ owner'.at = next /\ owner'.verdict = owner.verdict
          /\ owner'.clean = FALSE /\ owner'.redo = owner.redo
      BY <1>0, <3>1, <3>2 DEF Types, OwnerTypes, OwnerRecord, Phases
    <3>4. Types'
      BY <1>0, <2>0, <2>2, <3>3 DEF Types, OwnerTypes, CallTypes, LeaseTypes, CoreTypes
    <3>5. Tail'
      <4>1. /\ outcome = "none" /\ core.operation /\ owner.verdict # "none"
            /\ owner.at \in {"listener", "relay"} => core.runtime_token
            /\ owner.at = "controller" /\ ~owner.redo => ~core.runtime_token
        BY <1>0, <3>1 DEF Tail
      <4>2. core' = core /\ outcome' = outcome
        BY <2>0
      <4> QED
        BY <3>1, <3>3, <4>1, <4>2 DEF Tail
    <3>6. Swept'
      BY <1>0, <2>0, <3>1, <3>3 DEF Swept
    <3> QED
      BY <2>0, <3>1, <3>3, <3>4, <3>5, <3>6, CallersStay
  <2>3. CASE /\ owner.at = "subs" /\ owner' = [owner EXCEPT !.clean = FALSE, !.at = Following[@]]
             /\ worker' = [worker EXCEPT !["subs"] = "failed"]
    <3>1. owner' = [owner EXCEPT !.clean = FALSE, !.at = "publish"]
      BY <1>f, <2>3
    <3>2. /\ owner' \in OwnerRecord /\ owner'.at = "publish" /\ owner'.verdict = owner.verdict
          /\ owner'.clean = FALSE /\ owner'.redo = owner.redo
      BY <1>0, <3>1 DEF Types, OwnerTypes, OwnerRecord, Phases
    <3>3. /\ worker' \in [Tasks \cup {"subs"} -> {"off", "up", "ended", "failed"}]
          /\ worker'["subs"] = "failed"
      BY <1>0, <2>3 DEF Types, OwnerTypes, Tasks
    <3>4. Types'
      BY <1>0, <2>0, <3>2, <3>3 DEF Types, OwnerTypes, CallTypes, LeaseTypes, CoreTypes
    <3>5. Tail'
      <4>1. outcome = "none" /\ core.operation /\ owner.verdict # "none" /\ core.runtime_token
        BY <1>0, <2>3 DEF Tail
      <4>2. core' = core /\ outcome' = outcome
        BY <2>0
      <4> QED
        BY <3>2, <4>1, <4>2 DEF Tail
    <3>6. Swept'
      BY <1>0, <2>0, <3>2, <3>3 DEF Swept
    <3> QED
      BY <2>0, <2>3, <3>2, <3>4, <3>5, <3>6, CallersStay
  <2> QED
    BY <1>1, <2>1, <2>2, <2>3 DEF PhasePanics
<1>2. CASE OwnerPanics
  <2>1. /\ owner.at = "token"
        /\ core' = [core EXCEPT !.runtime_token = TRUE]
        /\ owner' = [owner EXCEPT !.at = "controller", !.redo = TRUE]
        /\ UNCHANGED <<worker, members, batch, outcome, call, leases>>
    BY <1>2 DEF OwnerPanics
  <2>2. /\ CoreTypes' /\ core'.started = core.started /\ core'.running = core.running /\ core'.lock = core.lock
        /\ core'.operation = core.operation /\ core'.announced = core.announced
        /\ core'.shutting_down = core.shutting_down /\ core'.runtime_token
    BY <1>0, <2>1 DEF Types, CoreTypes, CoreRecord
  <2>3. /\ owner' \in OwnerRecord /\ owner'.at = "controller" /\ owner'.verdict = owner.verdict
        /\ owner'.redo = TRUE
    BY <1>0, <2>1 DEF Types, OwnerTypes, OwnerRecord, Phases
  <2>4. Types'
    BY <1>0, <2>1, <2>2, <2>3 DEF Types, OwnerTypes, CallTypes, LeaseTypes
  <2>5. outcome = "none" /\ core.operation /\ owner.verdict # "none"
    BY <1>0, <2>1 DEF Tail
  <2>6. Tail'
    BY <2>1, <2>2, <2>3, <2>5 DEF Tail
  <2>7. Swept'
    BY <1>0, <2>1, <2>3 DEF Swept
  <2> QED
    BY <2>1, <2>2, <2>3, <2>4, <2>5, <2>6, <2>7, CallersStay
<1>3. CASE RuntimeLost
  <2>1. /\ core' = [core EXCEPT !.alive = FALSE]
        /\ worker' = [w \in DOMAIN worker |->
                        IF w \in Tasks /\ worker[w] = "up" THEN "failed" ELSE worker[w]]
        /\ owner' = IF owner.at \in {"none", "done"} THEN owner ELSE [owner EXCEPT !.at = "gone"]
        /\ UNCHANGED <<members, batch, outcome, call, leases>>
    BY <1>3 DEF RuntimeLost
  <2>2. /\ CoreTypes' /\ core'.started = core.started /\ core'.running = core.running /\ core'.lock = core.lock
        /\ core'.operation = core.operation /\ core'.announced = core.announced
        /\ core'.shutting_down = core.shutting_down /\ core'.runtime_token = core.runtime_token
    BY <1>0, <2>1 DEF Types, CoreTypes, CoreRecord
  <2>3. /\ worker' \in [Tasks \cup {"subs"} -> {"off", "up", "ended", "failed"}]
        /\ \A w \in Tasks \cup {"subs"} : worker[w] \in {"off", "ended"} => worker'[w] = worker[w]
        /\ worker'["subs"] = worker["subs"]
    BY <1>0, <2>1 DEF Types, OwnerTypes, Tasks
  <2>4. /\ owner' \in OwnerRecord /\ owner'.verdict = owner.verdict
        /\ owner'.clean = owner.clean /\ owner'.redo = owner.redo
        /\ owner'.at = IF owner.at \in {"none", "done"} THEN owner.at ELSE "gone"
    BY <1>0, <2>1 DEF Types, OwnerTypes, OwnerRecord, Phases
  <2>5. Types'
    BY <1>0, <2>1, <2>2, <2>3, <2>4 DEF Types, OwnerTypes, CallTypes, LeaseTypes
  <2>6. Tail'
    <3>1. CASE owner.at \in {"none", "done"}
      BY <1>0, <2>1, <2>2, <3>1 DEF Tail
    <3>2. CASE owner.at \notin {"none", "done"}
      <4>1. owner'.at = "gone" /\ core'.operation /\ outcome' = "none"
        BY <1>0, <2>1, <2>2, <2>4, <3>2 DEF Tail
      <4> QED
        BY <4>1 DEF Tail
    <3> QED
      BY <3>1, <3>2
  <2>7. Swept'
    <3>1. CASE owner.at = "none"
      BY <1>0, <2>1, <2>4, <3>1 DEF Swept
    <3>2. CASE owner.at = "done"
      BY <1>0, <2>1, <2>3, <2>4, <3>2 DEF Swept, Tasks
    <3>3. CASE owner.at \notin {"none", "done"}
      BY <1>0, <2>1, <2>4, <3>3 DEF Swept
    <3> QED
      BY <3>1, <3>2, <3>3
  <2> QED
    BY <2>1, <2>2, <2>4, <2>5, <2>6, <2>7, CallersStay
<1> QED
  BY <1>1, <1>2, <1>3

\* The workers: a joined worker cannot come up again, and a fenced queue
\* cannot accept.
LEMMA WorkersKeep ==
  ASSUME ShutdownInvariant,
         \/ TasksEnd \/ \E r \in Runs : Decide(r)
         \/ \E w \in Tasks : WorkerEnds(w) \/ WorkerFails(w)
  PROVE  ShutdownInvariant'
<1>0. Types /\ OneOperation /\ Tail /\ Swept
  BY DEF ShutdownInvariant
<1>1. UNCHANGED <<core, owner, outcome, call, leases>>
  BY DEF TasksEnd, Decide, WorkerEnds, WorkerFails
<1> DEFINE WorkersStay ==
             /\ worker' \in [Tasks \cup {"subs"} -> {"off", "up", "ended", "failed"}]
             /\ \A w \in Tasks \cup {"subs"} : worker[w] \in {"off", "ended"} => worker'[w] = worker[w]
             /\ worker'["subs"] = worker["subs"]
           QueueStays ==
             /\ batch' \in [Runs -> {"none", "queued", "accepted", "rejected"}]
             /\ members' \in BOOLEAN
             /\ (\A r \in Runs : batch[r] # "queued") => batch' = batch /\ (~members => ~members')
<1>2. WorkersStay
  <2>1. CASE worker' = worker
    BY <1>0, <2>1 DEF Types, OwnerTypes
  <2>2. ASSUME NEW w \in Tasks, WorkerEnds(w) \/ WorkerFails(w) PROVE WorkersStay
    <3>1. worker[w] = "up" /\ \E v \in {"ended", "failed"} : worker' = [worker EXCEPT ![w] = v]
      BY <2>2 DEF WorkerEnds, WorkerFails
    <3>2. w # "subs"
      BY DEF Tasks
    <3> QED
      BY <1>0, <3>1, <3>2 DEF Types, OwnerTypes
  <2>3. TasksEnd \/ (\E r \in Runs : Decide(r)) => worker' = worker
    BY DEF TasksEnd, Decide
  <2> HIDE DEF WorkersStay
  <2> QED
    BY <2>1, <2>2, <2>3
<1>3. QueueStays
  <2>1. CASE TasksEnd \/ \E w \in Tasks : WorkerEnds(w) \/ WorkerFails(w)
    <3>0. members \in BOOLEAN
      BY <1>0 DEF Types, OwnerTypes
    <3>1. batch' = batch /\ members' \in BOOLEAN /\ (~members => ~members')
      <4>1. CASE TasksEnd
        BY <4>1 DEF TasksEnd
      <4>2. ASSUME NEW w \in Tasks, WorkerEnds(w) \/ WorkerFails(w)
            PROVE  batch' = batch /\ members' \in BOOLEAN /\ (~members => ~members')
        <5>1. batch' = batch /\ members' \in {members, members /\ w # "listener"}
          BY <4>2 DEF WorkerEnds, WorkerFails
        <5> QED
          BY <3>0, <5>1
      <4> QED
        BY <2>1, <4>1, <4>2
    <3> QED
      BY <1>0, <3>1 DEF Types, OwnerTypes
  <2>2. ASSUME NEW r \in Runs, Decide(r) PROVE QueueStays
    BY <1>0, <2>2 DEF Types, OwnerTypes, Decide
  <2> HIDE DEF QueueStays
  <2> QED
    BY <2>1, <2>2
<1>4. Types'
  BY <1>0, <1>1, <1>2, <1>3 DEF Types, OwnerTypes, CallTypes, LeaseTypes, CoreTypes
<1>5. Tail'
  BY <1>0, <1>1 DEF Tail
<1>6. Swept'
  BY <1>0, <1>1, <1>2, <1>3 DEF Swept, Tasks
<1> QED
  BY <1>1, <1>4, <1>5, <1>6, CallersStay

-----------------------------------------------------------------------------
(* The theorems.                                                           *)

\* A supervisor that was just built.
LEMMA LifeInitEstablishes == LifeInit => ShutdownInvariant
<1> SUFFICES ASSUME LifeInit PROVE ShutdownInvariant
  OBVIOUS
<1>1. CallTypes /\ LeaseTypes
  BY DEF LifeInit, CallTypes, CallRecord, Places, Answers, LeaseTypes
<1>2. CoreTypes
  BY DEF LifeInit, CoreTypes, CoreRecord
<1>3. OwnerTypes
  BY DEF LifeInit, OwnerTypes, OwnerRecord, Phases
<1>4. \A c \in Callers : call[c].at = "idle" /\ call[c].claim = "none" /\ call[c].result = "none"
  BY DEF LifeInit
<1>5. OneClaim /\ OneOperation
  BY <1>4 DEF LifeInit, OneClaim, OneOperation, Callers
<1>6. Tail /\ Swept
  BY DEF LifeInit, Tail, Swept
<1>7. \A c \in Callers : Anchored(c) /\ Claiming(c) /\ Installing(c) /\ Answered(c)
  BY <1>4 DEF Anchored, Claiming, Installing, Answered, Begun, Uncommitted, Outcomes
<1> QED
  BY <1>1, <1>2, <1>3, <1>5, <1>6, <1>7 DEF ShutdownInvariant, Types

\* Every step of a run or a handle.
LEMMA CallerKeeps ==
  ASSUME ShutdownInvariant, NEW c \in Callers,
         \/ c \in Handles /\ (\/ Serve(c) \/ RequestShutdown(c) \/ DropHandle(c) \/ AddTask(c) \/ EnqueueAdd(c))
         \/ c \in Runs /\ (Claim(c) \/ RunStep(c) \/ Drive(c))
         \/ CallStep(c) \/ CallDropped(c)
  PROVE  ShutdownInvariant'
<1>0. Types
  BY DEF ShutdownInvariant
<1>1. CASE c \in Handles /\ (Serve(c) \/ RequestShutdown(c) \/ DropHandle(c) \/ AddTask(c) \/ EnqueueAdd(c))
  BY <1>0, <1>1, HandleSteps, WalkKeeps, LeaveKeeps, StartKeeps
<1>2. CASE c \in Runs /\ Claim(c)
  <2>1. CASE core.running
    <3>1. /\ Leave(c, "AlreadyRunning") /\ UNCHANGED <<worker, members, batch, owner, outcome>>
          /\ call[c].at = "idle"
      BY <1>2, <2>1 DEF Claim, At
    <3>2. "AlreadyRunning" \in Answers \ {"Panic"} /\ "AlreadyRunning" \notin Outcomes
      BY DEF Answers, Outcomes
    <3> QED
      BY <3>1, <3>2, LeaveKeeps DEF Leaves
  <2>2. CASE ~core.running
    BY <1>2, <2>2, ClaimKeeps
  <2> QED
    BY <2>1, <2>2
<1>3. CASE c \in Runs /\ StartRun(c)
  <2>1. CASE Leave(c, "StartFailed") /\ UNCHANGED worker
    <3>1. UNCHANGED <<worker, members, batch, owner, outcome>> /\ call[c].at \notin {"install", "spawn"}
      BY <1>3, <2>1 DEF StartRun, AfterStart
    <3>2. "StartFailed" \in Answers \ {"Panic"} /\ "StartFailed" \notin Outcomes
      BY DEF Answers, Outcomes
    <3> QED
      BY <2>1, <3>1, <3>2, LeaveKeeps DEF Leaves
  <2>2. CASE Started /\ Committed(c, AfterStart[call[c].at]) /\ UNCHANGED leases
    BY <1>3, <2>2, StartKeeps
  <2> QED
    BY <1>3, <2>1, <2>2 DEF StartRun
<1>4. CASE c \in Runs /\ (Preflight(c) \/ Reserve(c) \/ Enqueue(c) \/ Reply(c) \/ Refused(c) \/ Drive(c))
  BY <1>0, <1>4, RunSteps, WalkKeeps, LeaveKeeps
<1>5. CASE BeginShutdown(c)
  BY <1>5, JoinSteps, WalkKeeps, LeaveKeeps, BeginKeeps
<1>6. CASE Install(c) \/ Spawn(c)
  BY <1>6, InstallKeeps, SpawnKeeps
<1>7. CASE Lookup(c) \/ WaitOutcome(c) \/ CallDropped(c)
  BY <1>7, JoinSteps, WalkKeeps, LeaveKeeps
<1> QED
  BY <1>1, <1>2, <1>3, <1>4, <1>5, <1>6, <1>7 DEF RunStep, CallStep

\* The invariant of the lifecycle, whatever the order of triggers, joins,
\* dropped futures, dropped handles, panics and lost workers.
THEOREM ShutdownInvariance == LifeSpec => []ShutdownInvariant
<1>1. ShutdownInvariant /\ [LifeNext]_life => ShutdownInvariant'
  <2> SUFFICES ASSUME ShutdownInvariant, [LifeNext]_life PROVE ShutdownInvariant'
    OBVIOUS
  <2>1. ASSUME NEW h \in Handles,
               \/ Serve(h) \/ RequestShutdown(h) \/ DropHandle(h) \/ AddTask(h) \/ EnqueueAdd(h)
        PROVE  ShutdownInvariant'
    <3>1. h \in Callers
      BY DEF Callers
    <3> QED
      BY <2>1, <3>1, CallerKeeps
  <2>2. ASSUME NEW r \in Runs, Claim(r) \/ RunStep(r) \/ Drive(r) PROVE ShutdownInvariant'
    <3>1. r \in Callers
      BY DEF Callers
    <3> QED
      BY <2>2, <3>1, CallerKeeps
  <2>3. ASSUME NEW c \in Callers, CallStep(c) \/ CallDropped(c) PROVE ShutdownInvariant'
    BY <2>3, CallerKeeps
  <2>4. CASE DropSupervisor
    BY <2>4, DropSupervisorKeeps
  <2>5. CASE OwnerStep
    BY <2>5, ResolveKeeps, OwnerKeeps DEF OwnerStep
  <2>6. CASE PhasePanics \/ OwnerPanics \/ RuntimeLost
    BY <2>6, FaultKeeps
  <2>7. CASE \/ TasksEnd \/ \E r \in Runs : Decide(r)
             \/ \E w \in Tasks : WorkerEnds(w) \/ WorkerFails(w)
    BY <2>7, WorkersKeep
  <2>8. CASE UNCHANGED life
    BY <2>8 DEF life, ShutdownInvariant, Types, CallTypes, CoreTypes, OwnerTypes, LeaseTypes, OneClaim,
                OneOperation, Tail, Swept, Anchored, Claiming, Installing, Answered
  <2> QED
    BY <2>1, <2>2, <2>3, <2>4, <2>5, <2>6, <2>7, <2>8 DEF LifeNext
<1> QED
  BY <1>1, LifeInitEstablishes, PTL DEF LifeSpec

\* StaticRunClaim: two static runs never both have the lifecycle, and the flag
\* is up exactly while one has.
THEOREM ClaimIsExclusive == LifeSpec => []LifecycleClaimed
<1>1. ASSUME ShutdownInvariant PROVE LifecycleClaimed
  <2> DEFINE S == {r \in Runs : call[r].claim # "none"}
  <2>1. OneClaim
    BY <1>1 DEF ShutdownInvariant
  <2>2. Cardinality(S) <= 1
    <3>1. CASE S = {}
      BY <3>1, FS_EmptySet
    <3>2. CASE S # {}
      <4>1. PICK r \in S : TRUE
        BY <3>2
      <4>2. \A x \in S : x = r
        BY <2>1, <4>1 DEF OneClaim
      <4> HIDE DEF S
      <4>3. S = {r}
        BY <4>1, <4>2
      <4> QED
        BY <4>3, FS_Singleton
    <3> QED
      BY <3>1, <3>2
  <2> QED
    BY <2>1, <2>2 DEF OneClaim, LifecycleClaimed
<1> QED
  BY <1>1, ShutdownInvariance, PTL

\* Nobody cancels the runtime token under the owner's fence, drain and first
\* join: the last RuntimeOwner's drop finds the operation installed.
THEOREM DrainIsUndisturbed == LifeSpec => []DrainUndisturbed
<1>1. ShutdownInvariant => DrainUndisturbed
  BY DEF ShutdownInvariant, Tail, DrainUndisturbed
<1> QED
  BY <1>1, ShutdownInvariance, PTL

\* All callers of the shared operation get one answer, and the expect() of
\* wait_started_shutdown never fails.
THEOREM AnswerIsShared == LifeSpec => []SharedAnswer
<1>1. ASSUME ShutdownInvariant PROVE SharedAnswer
  <2>1. \A c \in Callers : Answered(c)
    BY <1>1 DEF ShutdownInvariant
  <2> QED
    BY <2>1 DEF Answered, SharedAnswer
<1> QED
  BY <1>1, ShutdownInvariance, PTL

\* An outcome is reported only once what it promises is so: no member and no
\* undecided batch behind Completed, every worker joined cleanly behind anything
\* but ShuttingDown, and the whole tail behind every answer of a live runtime.
THEOREM OutcomeIsEarned == LifeSpec => []OutcomeEarned
<1>1. ASSUME ShutdownInvariant PROVE OutcomeEarned
  <2>0. Types /\ OneOperation /\ Tail /\ Swept
    BY <1>1 DEF ShutdownInvariant
  <2>1. ASSUME NEW c \in Callers, call[c].result \in Outcomes
        PROVE  /\ core.shutting_down
               /\ call[c].result = "Completed" => ~members /\ \A r \in Runs : batch[r] # "queued"
               /\ call[c].result # "ShuttingDown" =>
                     \A w \in DOMAIN worker : worker[w] \in {"off", "ended"}
               /\ core.alive /\ owner.at = "done" => core.runtime_token /\ worker["subs"] # "up"
    <3>1. /\ core.operation
          /\ \/ outcome # "none" /\ call[c].result = outcome
             \/ outcome = "none" /\ call[c].result = "ShuttingDown" /\ owner.at = "gone"
      BY <1>1, <2>1 DEF ShutdownInvariant, Answered
    <3>2. core.shutting_down
      BY <2>0, <3>1 DEF OneOperation
    <3>3. call[c].result # "ShuttingDown" =>
            owner.at = "done" /\ owner.clean /\ ~owner.redo /\ call[c].result = owner.verdict
      BY <2>0, <3>1 DEF Tail
    <3>4. call[c].result # "ShuttingDown" => \A w \in DOMAIN worker : worker[w] \in {"off", "ended"}
      <4>1. DOMAIN worker = {"controller", "listener", "relay", "subs"}
        BY <2>0 DEF Types, OwnerTypes, Tasks
      <4> QED
        BY <2>0, <3>3, <4>1 DEF Swept
    <3>5. call[c].result = "Completed" => ~members /\ \A r \in Runs : batch[r] # "queued"
      BY <2>0, <3>3 DEF Swept
    <3>6. owner.at = "done" => core.runtime_token /\ worker["subs"] # "up"
      BY <2>0 DEF Tail, Swept
    <3> QED
      BY <3>2, <3>4, <3>5, <3>6
  <2> QED
    BY <2>1 DEF OutcomeEarned
<1> QED
  BY <1>1, ShutdownInvariance, PTL
=============================================================================
