---------------------------- MODULE RegistryProofs ----------------------------
(***************************************************************************)
(* The registry's safety, for every number of tasks, names and commands.   *)
(* RegistryInvariant is shown to hold initially and to survive each step,  *)
(* actor by actor: callers, listener, shutdown drain, removal owners,      *)
(* reaper, actor tasks.  The properties the runs check follow from it.     *)
(* PromiseInvariant extends it: what the registry tells its callers,       *)
(* watchers and the shutdown owner is so, an is_alive query never          *)
(* overlooks an attempt, and the registry implements NameLease.            *)
(***************************************************************************)
EXTENDS RegistryInv, RegistryQuery, RegistryLease, TLAPS, FiniteSetTheorems

\* An empty registry with every identity fresh satisfies the invariant.
LEMMA InitInv == Init => RegistryInvariant
<1> SUFFICES ASSUME Init PROVE RegistryInvariant
  OBVIOUS
<1>1. CallerTypes
  BY DEF Init, CallerTypes
<1>2. ListenerTypes /\ ShutdownTypes
  BY DEF Init, ListenerTypes, ShutdownTypes
<1>3. MemberTypes /\ RemovalTypes /\ ActorTypes /\ ReaperTypes
  BY DEF Init, MemberTypes, RemovalTypes, ActorTypes, ReaperTypes,
         EntryState, OwnState, ActorState, RecState
<1>4. Queue /\ Admitting /\ Fenced
  BY DEF Init, Queue, Admitting, Fenced, Untouched, IsAdd
<1>5. Phases
  BY DEF Init, Phases, PhaseUnowned, PhaseJoining, PhaseResolved, PhaseReleased, Discharged
<1>6. Indexes
  BY IdsAssumption, NamesAssumption DEF Init, Indexes, Keeps
<1>7. Counted
  <2>1. Uncollected = {}
    BY DEF Init, Uncollected
  <2> QED
    BY <2>1, FS_EmptySet DEF Init, Counted
<1> QED
  BY <1>1, <1>2, <1>3, <1>4, <1>5, <1>6, <1>7 DEF RegistryInvariant, TypeOK

\* An add command carries identities.
LEMMA CommandIds ==
  ASSUME NEW c \in Command, c.op = "add"
  PROVE  c.ids \in SUBSET Ids
BY DEF Command, StopOps

\* So does every add in the queue.
LEMMA QueuedIds ==
  ASSUME CallerTypes, NEW k \in 1..Len(cmdq), IsAdd(k)
  PROVE  cmdq[k].ids \in SUBSET Ids
BY CommandIds DEF CallerTypes, IsAdd

\* Queue, Admitting and Fenced survive a step of i's removal owner: it
\* belongs to an identity the listener has let go of.
LEMMA OwnerFrame ==
  ASSUME RegistryInvariant, NEW i \in Ids, own[i] # "none", own'[i] # "none",
         UNCHANGED <<cmdq, gate, fresh, mode, lpc, batch, fence, actor>>,
         \A j \in Ids : j # i => own'[j] = own[j] /\ entry'[j] = entry[j],
         entry[i] # "registered", entry'[i] # "registered"
  PROVE  Queue' /\ Admitting' /\ Fenced'
<1>1. \A j \in Ids : Untouched(j) => Untouched(j)'
  BY DEF Untouched
<1>2. Queue'
  BY <1>1, QueuedIds DEF RegistryInvariant, TypeOK, CallerTypes, Queue, IsAdd
<1>3. Admitting'
  BY <1>1 DEF RegistryInvariant, TypeOK, ListenerTypes, Admitting
<1>4. Fenced'
  BY DEF RegistryInvariant, Fenced
<1> QED
  BY <1>2, <1>3, <1>4

USE DEF callerVars, listenerVars, shutdownVars, memberVars, removalVars, actorVars, reaperVars

USE DEF OwnStep, TakeReady, Discharged

\* The set behind the reaper's count is finite.
LEMMA UncollectedFinite == IsFiniteSet(Uncollected)
BY IdsAssumption, FS_Subset DEF Uncollected

\* A step of i's removal owner preserves the invariant.
LEMMA OwnerInv ==
  ASSUME RegistryInvariant, NEW i \in Ids, Owner(i)
  PROVE  RegistryInvariant'
<1> USE DEF RegistryInvariant, TypeOK
<1>0. own[i] # "none" /\ own'[i] # "none"
  BY DEF Owner, SweepNext, JoinExit, AbortReserve, AbortCount, CommitRemoval, Report,
         AttachTerminal, DecPending, CompleteLogical, NotifyEmpty, RemovalTypes
<1>1. PhaseUnowned(i) /\ PhaseJoining(i) /\ PhaseResolved(i) /\ PhaseReleased(i)
  BY DEF Phases
<1>2. CASE SweepNext(i)
  <2>1. TypeOK'
    BY <1>2, <1>1, NamesAssumption DEF SweepNext, CallerTypes, ListenerTypes, ShutdownTypes,
       MemberTypes, RemovalTypes, ActorTypes, ReaperTypes, OwnState, EntryState, RecState,
       Phases, PhaseJoining
  <2>2. Queue' /\ Admitting' /\ Fenced'
    BY <1>2, <1>0, <1>1, OwnerFrame DEF SweepNext, MemberTypes, RemovalTypes, PhaseJoining,
       PhaseResolved, PhaseReleased
  <2>3. Phases'
    BY <1>2, <1>1 DEF SweepNext, RemovalTypes, MemberTypes, ActorTypes, ReaperTypes, Phases,
       PhaseUnowned, PhaseJoining, PhaseResolved, PhaseReleased
  <2>4. Indexes'
    BY <1>2, <1>1, NamesAssumption DEF SweepNext, MemberTypes, ReaperTypes, Indexes, Keeps,
       PhaseJoining, PhaseResolved
  <2>5. Counted'
    BY <1>2, <1>1 DEF SweepNext, Counted, Uncollected
  <2> QED
    BY <2>1, <2>2, <2>3, <2>4, <2>5
<1>3. CASE JoinExit(i)
  <2>1. TypeOK'
    BY <1>3, <1>1, NamesAssumption DEF JoinExit, CallerTypes, ListenerTypes, ShutdownTypes,
       MemberTypes, RemovalTypes, ActorTypes, ReaperTypes, OwnState, EntryState, RecState,
       Phases, PhaseJoining
  <2>2. Queue' /\ Admitting' /\ Fenced'
    BY <1>3, <1>0, <1>1, OwnerFrame DEF JoinExit, MemberTypes, RemovalTypes, PhaseJoining,
       PhaseResolved, PhaseReleased
  <2>3. Phases'
    BY <1>3, <1>1 DEF JoinExit, RemovalTypes, MemberTypes, ActorTypes, ReaperTypes, Phases,
       PhaseUnowned, PhaseJoining, PhaseResolved, PhaseReleased
  <2>4. Indexes'
    BY <1>3, <1>1, NamesAssumption DEF JoinExit, MemberTypes, ReaperTypes, Indexes, Keeps,
       PhaseJoining, PhaseResolved
  <2>5. Counted'
    BY <1>3, <1>1 DEF JoinExit, Counted, Uncollected
  <2> QED
    BY <2>1, <2>2, <2>3, <2>4, <2>5
<1>4. CASE AbortReserve(i)
  <2>1. TypeOK'
    <3>1. NameOf[i] \in Names
      BY NamesAssumption
    <3>2. RemovalTypes'
      BY <1>4 DEF AbortReserve, RemovalTypes, OwnState
    <3>3. ReaperTypes'
      BY <1>4, <3>1 DEF AbortReserve, ReaperTypes, RecState
    <3>4. ShutdownTypes'
      BY <1>4 DEF AbortReserve, ShutdownTypes
    <3> QED
      BY <1>4, <3>2, <3>3, <3>4 DEF AbortReserve, CallerTypes, ListenerTypes, MemberTypes, ActorTypes
  <2>2. Queue' /\ Admitting' /\ Fenced'
    BY <1>4, <1>0, <1>1, OwnerFrame DEF AbortReserve, MemberTypes, RemovalTypes, PhaseJoining,
       PhaseResolved, PhaseReleased
  <2>3. Phases'
    BY <1>4, <1>1 DEF AbortReserve, RemovalTypes, MemberTypes, ActorTypes, ReaperTypes, Phases,
       PhaseUnowned, PhaseJoining, PhaseResolved, PhaseReleased
  <2>4. Indexes'
    BY <1>4, <1>1, NamesAssumption DEF AbortReserve, MemberTypes, ReaperTypes, Indexes, Keeps,
       PhaseJoining, PhaseResolved
  <2>5. Counted'
    BY <1>4, <1>1 DEF AbortReserve, Counted, Uncollected
  <2> QED
    BY <2>1, <2>2, <2>3, <2>4, <2>5
<1>5. CASE AbortCount(i)
  <2>1. TypeOK'
    BY <1>5, <1>1, NamesAssumption DEF AbortCount, CallerTypes, ListenerTypes, ShutdownTypes,
       MemberTypes, RemovalTypes, ActorTypes, ReaperTypes, OwnState, EntryState, RecState,
       Phases, PhaseJoining
  <2>2. Queue' /\ Admitting' /\ Fenced'
    BY <1>5, <1>0, <1>1, OwnerFrame DEF AbortCount, MemberTypes, RemovalTypes, PhaseJoining,
       PhaseResolved, PhaseReleased
  <2>3. Phases'
    BY <1>5, <1>1 DEF AbortCount, RemovalTypes, MemberTypes, ActorTypes, ReaperTypes, Phases,
       PhaseUnowned, PhaseJoining, PhaseResolved, PhaseReleased
  <2>4. Indexes'
    BY <1>5, <1>1, NamesAssumption DEF AbortCount, MemberTypes, ReaperTypes, Indexes, Keeps,
       PhaseJoining, PhaseResolved
  <2>5. Counted'
    <3>1. i \notin Uncollected /\ Uncollected' = Uncollected \cup {i}
      BY <1>5, <1>1 DEF AbortCount, Uncollected, PhaseJoining, ActorTypes
    <3> QED
      BY <1>5, <3>1, UncollectedFinite, FS_AddElement DEF AbortCount, Counted
  <2> QED
    BY <2>1, <2>2, <2>3, <2>4, <2>5
<1>6. CASE CommitRemoval(i)
  <2>1. TypeOK'
    <3>1. NameOf[i] \in Names
      BY NamesAssumption
    <3>2. RemovalTypes'
      BY <1>6 DEF CommitRemoval, RemovalTypes, OwnState
    <3>3. MemberTypes'
      BY <1>6, <3>1 DEF CommitRemoval, MemberTypes, EntryState
    <3> QED
      BY <1>6, <3>2, <3>3 DEF CommitRemoval, CallerTypes, ListenerTypes, ShutdownTypes,
         ActorTypes, ReaperTypes
  <2>2. Queue' /\ Admitting' /\ Fenced'
    BY <1>6, <1>0, <1>1, OwnerFrame DEF CommitRemoval, MemberTypes, RemovalTypes, PhaseJoining,
       PhaseResolved, PhaseReleased
  <2>3. Phases'
    BY <1>6, <1>1 DEF CommitRemoval, RemovalTypes, MemberTypes, ActorTypes, ReaperTypes, Phases,
       PhaseUnowned, PhaseJoining, PhaseResolved, PhaseReleased
  <2>4. Indexes'
    <3>1. byName' = [byName EXCEPT ![NameOf[i]] = NoId] /\ entry' = [entry EXCEPT ![i] = "absent"]
      BY <1>6, <1>1 DEF CommitRemoval, Indexes, PhaseResolved
    <3>2. UNCHANGED <<rec, reserved>>
      BY <1>6 DEF CommitRemoval
    <3>3. \A j \in Ids : j # i /\ NameOf[j] = NameOf[i] => entry[j] = "absent"
      BY <1>6, <1>1 DEF CommitRemoval, Indexes, Keeps, PhaseResolved
    <3>4. \A j \in Ids : entry'[j] # "absent" <=> byName'[NameOf[j]] = j
      BY <3>1, <3>3, NamesAssumption, IdsAssumption DEF MemberTypes, Indexes
    <3> QED
      BY <3>1, <3>2, <3>4 DEF MemberTypes, Indexes, Keeps
  <2>5. Counted'
    BY <1>6, <1>1 DEF CommitRemoval, Counted, Uncollected
  <2> QED
    BY <2>1, <2>2, <2>3, <2>4, <2>5
<1>7. CASE Report(i)
  <2>1. TypeOK'
    BY <1>7, <1>1, NamesAssumption DEF Report, CallerTypes, ListenerTypes, ShutdownTypes,
       MemberTypes, RemovalTypes, ActorTypes, ReaperTypes, OwnState, EntryState, RecState,
       Phases, PhaseJoining
  <2>2. Queue' /\ Admitting' /\ Fenced'
    BY <1>7, <1>0, <1>1, OwnerFrame DEF Report, MemberTypes, RemovalTypes, PhaseJoining,
       PhaseResolved, PhaseReleased
  <2>3. Phases'
    BY <1>7, <1>1 DEF Report, RemovalTypes, MemberTypes, ActorTypes, ReaperTypes, Phases,
       PhaseUnowned, PhaseJoining, PhaseResolved, PhaseReleased
  <2>4. Indexes'
    BY <1>7, <1>1, NamesAssumption DEF Report, MemberTypes, ReaperTypes, Indexes, Keeps,
       PhaseJoining, PhaseResolved
  <2>5. Counted'
    BY <1>7, <1>1 DEF Report, Counted, Uncollected
  <2> QED
    BY <2>1, <2>2, <2>3, <2>4, <2>5
<1>8. CASE AttachTerminal(i)
  <2>1. TypeOK'
    <3>1. NameOf[i] \in Names
      BY NamesAssumption
    <3>2. RemovalTypes'
      BY <1>8 DEF AttachTerminal, RemovalTypes, OwnState
    <3>3. ReaperTypes'
      BY <1>8, <3>1 DEF AttachTerminal, ReaperTypes, RecState
    <3> QED
      BY <1>8, <3>2, <3>3 DEF AttachTerminal, CallerTypes, ListenerTypes, ShutdownTypes,
         MemberTypes, ActorTypes
  <2>2. Queue' /\ Admitting' /\ Fenced'
    BY <1>8, <1>0, <1>1, OwnerFrame DEF AttachTerminal, MemberTypes, RemovalTypes, PhaseJoining,
       PhaseResolved, PhaseReleased
  <2>3. Phases'
    BY <1>8, <1>1 DEF AttachTerminal, RemovalTypes, MemberTypes, ActorTypes, ReaperTypes, Phases,
       PhaseUnowned, PhaseJoining, PhaseResolved, PhaseReleased
  <2>4. Indexes'
    BY <1>8, <1>1, NamesAssumption DEF AttachTerminal, MemberTypes, ReaperTypes, Indexes, Keeps,
       PhaseJoining, PhaseResolved
  <2>5. Counted'
    <3>1. Uncollected' = Uncollected
      BY <1>8, <1>1 DEF AttachTerminal, Uncollected, PhaseResolved, ReaperTypes
    <3> QED
      BY <1>8, <3>1 DEF AttachTerminal, Counted
  <2> QED
    BY <2>1, <2>2, <2>3, <2>4, <2>5
<1>9. CASE DecPending(i)
  <2>1. TypeOK'
    <3>1. pending[i] = 1
      BY <1>9 DEF DecPending, Phases
    <3>2. pending' \in [Ids -> Nat]
      BY <1>9, <3>1 DEF DecPending, RemovalTypes
    <3>3. RemovalTypes'
      BY <1>9, <3>2 DEF DecPending, RemovalTypes, OwnState
    <3> QED
      BY <1>9, <3>3 DEF DecPending, CallerTypes, ListenerTypes, ShutdownTypes,
         MemberTypes, ActorTypes, ReaperTypes
  <2>2. Queue' /\ Admitting' /\ Fenced'
    BY <1>9, <1>0, <1>1, OwnerFrame DEF DecPending, MemberTypes, RemovalTypes, PhaseJoining,
       PhaseResolved, PhaseReleased
  <2>3. Phases'
    BY <1>9, <1>1 DEF DecPending, RemovalTypes, MemberTypes, ActorTypes, ReaperTypes, Phases,
       PhaseUnowned, PhaseJoining, PhaseResolved, PhaseReleased
  <2>4. Indexes'
    BY <1>9, <1>1, NamesAssumption DEF DecPending, MemberTypes, ReaperTypes, Indexes, Keeps,
       PhaseJoining, PhaseResolved
  <2>5. Counted'
    BY <1>9, <1>1 DEF DecPending, Counted, Uncollected
  <2> QED
    BY <2>1, <2>2, <2>3, <2>4, <2>5
<1>10. CASE CompleteLogical(i)
  <2>1. TypeOK'
    BY <1>10 DEF CompleteLogical, CallerTypes, ListenerTypes, ShutdownTypes, MemberTypes,
       RemovalTypes, ActorTypes, ReaperTypes, OwnState
  <2>2. Queue' /\ Admitting' /\ Fenced'
    BY <1>10, <1>0, <1>1, OwnerFrame DEF CompleteLogical, MemberTypes, RemovalTypes, PhaseJoining,
       PhaseResolved, PhaseReleased
  <2>3. Phases'
    BY <1>10, <1>1 DEF CompleteLogical, RemovalTypes, MemberTypes, ActorTypes, ReaperTypes, Phases,
       PhaseUnowned, PhaseJoining, PhaseResolved, PhaseReleased
  <2>4. Indexes'
    BY <1>10, <1>1, NamesAssumption DEF CompleteLogical, MemberTypes, ReaperTypes, Indexes, Keeps,
       PhaseJoining, PhaseResolved
  <2>5. Counted'
    BY <1>10, <1>1 DEF CompleteLogical, Counted, Uncollected
  <2> QED
    BY <2>1, <2>2, <2>3, <2>4, <2>5
<1>11. CASE NotifyEmpty(i)
  <2>1. TypeOK'
    BY <1>11 DEF NotifyEmpty, CallerTypes, ListenerTypes, ShutdownTypes, MemberTypes,
       RemovalTypes, ActorTypes, ReaperTypes, OwnState
  <2>2. Queue' /\ Admitting' /\ Fenced'
    BY <1>11, <1>0, <1>1, OwnerFrame DEF NotifyEmpty, MemberTypes, RemovalTypes, PhaseJoining,
       PhaseResolved, PhaseReleased
  <2>3. Phases'
    BY <1>11, <1>1 DEF NotifyEmpty, RemovalTypes, MemberTypes, ActorTypes, ReaperTypes, Phases,
       PhaseUnowned, PhaseJoining, PhaseResolved, PhaseReleased
  <2>4. Indexes'
    BY <1>11, <1>1, NamesAssumption DEF NotifyEmpty, MemberTypes, ReaperTypes, Indexes, Keeps,
       PhaseJoining, PhaseResolved
  <2>5. Counted'
    BY <1>11, <1>1 DEF NotifyEmpty, Counted, Uncollected
  <2> QED
    BY <2>1, <2>2, <2>3, <2>4, <2>5
<1> QED
  BY <1>2, <1>3, <1>4, <1>5, <1>6, <1>7, <1>8, <1>9, <1>10, <1>11 DEF Owner

\* A step of the reaper for i preserves the invariant.
LEMMA ReaperInv ==
  ASSUME RegistryInvariant, NEW i \in Ids, Reaper(i)
  PROVE  RegistryInvariant'
<1> USE DEF RegistryInvariant, TypeOK
<1>1. PhaseUnowned(i) /\ PhaseJoining(i) /\ PhaseResolved(i) /\ PhaseReleased(i)
  BY DEF Phases
<1>2. Queue' /\ Admitting' /\ Fenced'
  BY DEF Reaper, Reap, SubmitReady, Queue, Admitting, Fenced, Untouched, IsAdd
<1>3. own[i] \in {"report", "final", "reported", "attached"} \cup Discharged
  BY <1>1 DEF Reaper, Reap, SubmitReady, PhaseUnowned, PhaseJoining, RemovalTypes, OwnState
<1>4. CASE Reap(i)
  <2>1. TypeOK'
    <3>1. NameOf[i] \in Names
      BY NamesAssumption
    <3>2. ReaperTypes'
      BY <1>4, <3>1 DEF Reap, ReaperTypes, RecState
    <3> QED
      BY <1>4, <3>2 DEF Reap, CallerTypes, ListenerTypes, ShutdownTypes, MemberTypes,
         RemovalTypes, ActorTypes
  <2>2. Phases'
    BY <1>1, <1>3, <1>4 DEF Reap, ReaperTypes, Phases, PhaseUnowned, PhaseJoining,
       PhaseResolved, PhaseReleased
  <2>3. Indexes'
    BY <1>1, <1>3, <1>4, NamesAssumption DEF Reap, ReaperTypes, Indexes, Keeps,
       PhaseResolved, PhaseReleased
  <2>4. Counted'
    BY <1>4 DEF Reap, Counted, Uncollected
  <2> QED
    BY <1>2, <2>1, <2>2, <2>3, <2>4
<1>5. CASE SubmitReady(i)
  <2>1. i \in Uncollected /\ Uncollected' = Uncollected \ {i}
    BY <1>1, <1>3, <1>5 DEF SubmitReady, Uncollected, PhaseResolved, PhaseReleased, ReaperTypes
  <2>2. Counted' /\ active' \in Nat
    <3>1. IsFiniteSet(Uncollected')
      BY <2>1, UncollectedFinite, FS_RemoveElement
    <3>2. Cardinality(Uncollected') = Cardinality(Uncollected) - 1
      BY <2>1, UncollectedFinite, FS_RemoveElement
    <3>3. Cardinality(Uncollected') \in Nat
      BY <3>1, FS_CardinalityType
    <3> QED
      BY <1>5, <3>2, <3>3 DEF SubmitReady, Counted
  <2>3. TypeOK'
    BY <1>5, <2>2 DEF SubmitReady, CallerTypes, ListenerTypes, ShutdownTypes, MemberTypes,
       RemovalTypes, ActorTypes, ReaperTypes
  <2>4. Phases'
    BY <1>1, <1>3, <1>5 DEF SubmitReady, ReaperTypes, Phases, PhaseUnowned, PhaseJoining,
       PhaseResolved, PhaseReleased
  <2>5. Indexes'
    BY <1>5 DEF SubmitReady, Indexes, Keeps
  <2> QED
    BY <1>2, <2>2, <2>3, <2>4, <2>5
<1> QED
  BY <1>4, <1>5 DEF Reaper

\* A step of i's actor task preserves the invariant: it neither appears nor
\* comes back from its physical exit.
LEMMA ActorInv ==
  ASSUME RegistryInvariant, NEW i \in Ids, Actor(i)
  PROVE  RegistryInvariant'
<1> USE DEF RegistryInvariant, TypeOK, ActorStep, Actor, StartAttempt, EndAttempt, SendResult,
            SendCompletion, TaskExit, DropAborted
<1>1. /\ UNCHANGED <<callerVars, mode, lpc, batch, shutdownVars, memberVars, removalVars>>
      /\ UNCHANGED <<aborted, reaperVars>>
  OBVIOUS
<1>2. /\ actor[i] \notin {"none", "gone"} /\ actor'[i] # "none"
      /\ actor' \in [Ids -> ActorState]
      /\ \A j \in Ids : j # i => actor'[j] = actor[j]
  BY DEF ActorTypes, ActorState
<1>3. TypeOK'
  <2>1. doneq' \in SUBSET Ids
    BY DEF ListenerTypes
  <2>2. result' \in [Ids -> BOOLEAN]
    BY DEF ActorTypes
  <2> QED
    BY <1>1, <1>2, <2>1, <2>2 DEF CallerTypes, ListenerTypes, ShutdownTypes, MemberTypes,
       RemovalTypes, ActorTypes, ReaperTypes
<1>4. \A j \in Ids : Untouched(j) => Untouched(j)'
  BY <1>1, <1>2 DEF Untouched
<1>5. Queue'
  BY <1>1, <1>4, QueuedIds DEF CallerTypes, Queue, IsAdd
<1>6. Admitting' /\ Fenced'
  BY <1>1, <1>2, <1>4 DEF ListenerTypes, Admitting, Fenced
<1>7. Phases'
  BY <1>1, <1>2 DEF Phases, PhaseUnowned, PhaseJoining, PhaseResolved, PhaseReleased
<1>8. Indexes' /\ Counted'
  BY <1>1 DEF Indexes, Keeps, Counted, Uncollected
<1> QED
  BY <1>3, <1>5, <1>6, <1>7, <1>8

\* Claiming registered members, each with its actor spawned, preserves what
\* speaks of identities: the winner of claim_registered is their only owner.
LEMMA ClaimInv ==
  ASSUME RegistryInvariant, NEW S, NEW C,
         NEW v \in {"detached", "inline", "sweep"}, NEW s \in {"queued", "join"},
         Claim(S, v, s, C), UNCHANGED <<actorVars, reaperVars>>,
         \A i \in Ids : i \in S => entry[i] = "registered" /\ actor[i] # "none"
  PROVE  /\ MemberTypes' /\ RemovalTypes' /\ Phases' /\ Indexes' /\ Counted'
         /\ \A i \in Ids : Untouched(i) => Untouched(i)'
         /\ \A i \in Ids : entry'[i] = "registered" => entry[i] = "registered"
<1> USE DEF RegistryInvariant, TypeOK, Claim, SetAll
<1>1. MemberTypes'
  BY DEF MemberTypes, EntryState
<1>2. RemovalTypes'
  <2>1. pending' \in [Ids -> Nat] /\ own' \in [Ids -> OwnState]
    BY DEF RemovalTypes, OwnState
  <2>2. via' \in [Ids -> {"none", "detached", "inline", "sweep"}]
    BY DEF RemovalTypes
  <2>3. cancelled' \in [Ids -> BOOLEAN]
    BY DEF RemovalTypes
  <2> QED
    BY <2>1, <2>2, <2>3 DEF RemovalTypes
<1>3. \A i \in Ids : i \in S => own[i] = "none" /\ pending[i] = 0
  BY DEF Phases, PhaseJoining, PhaseResolved, PhaseReleased, RemovalTypes, OwnState
<1>4. Phases'
  <2> SUFFICES ASSUME NEW i \in Ids
               PROVE  /\ PhaseUnowned(i)' /\ PhaseJoining(i)' /\ PhaseResolved(i)'
                      /\ PhaseReleased(i)'
                      /\ pending'[i] = IF own'[i] \in {"none"} \cup Discharged THEN 0 ELSE 1
    BY DEF Phases
  <2>1. CASE i \in S
    BY <1>3, <2>1 DEF Phases, PhaseUnowned, PhaseJoining, PhaseResolved, PhaseReleased,
       MemberTypes, RemovalTypes
  <2>2. CASE i \notin S
    BY <2>2 DEF Phases, PhaseUnowned, PhaseJoining, PhaseResolved, PhaseReleased,
       MemberTypes, RemovalTypes
  <2> QED
    BY <2>1, <2>2
<1>5. Indexes'
  BY DEF Indexes, Keeps, MemberTypes
<1>6. Counted'
  BY DEF Counted, Uncollected
<1>7. \A i \in Ids : Untouched(i) => Untouched(i)'
  BY DEF Untouched, MemberTypes, RemovalTypes
<1>8. \A i \in Ids : entry'[i] = "registered" => entry[i] = "registered"
  BY DEF MemberTypes
<1> QED
  BY <1>1, <1>2, <1>4, <1>5, <1>6, <1>7, <1>8

\* A submitted command preserves the invariant.
LEMMA CallersInv ==
  ASSUME RegistryInvariant, Callers
  PROVE  RegistryInvariant'
<1> USE DEF RegistryInvariant, TypeOK, SubmitAdd, SubmitStop, Commit
<1>1. /\ UNCHANGED <<listenerVars, shutdownVars, memberVars, removalVars, actorVars, reaperVars>>
      /\ gate = "open" /\ UNCHANGED <<gate, waiters>>
  BY DEF Callers
<1>2. PICK c \in Command : /\ cmdq' = Append(cmdq, c)
                           /\ c.op = "add" => /\ c.ids \subseteq fresh
                                              /\ fresh' = fresh \ c.ids
                           /\ c.op # "add" => fresh' = fresh
                           /\ stops' \in Nat
  <2>1. CASE \E B \in SUBSET Ids : SubmitAdd(B)
    BY <2>1 DEF Command, CallerTypes
  <2>2. CASE \E op \in StopOps, i \in Ids \ fresh : SubmitStop([op |-> op, id |-> i])
    BY <2>2 DEF Command, CallerTypes, StopOps
  <2>3. CASE \E op \in StopOps, n \in Names : SubmitStop([op |-> op, name |-> n])
    BY <2>3 DEF Command, CallerTypes, StopOps
  <2> QED
    BY <2>1, <2>2, <2>3 DEF Callers
<1>3. fresh' \subseteq fresh /\ fresh \subseteq Ids
  BY <1>2 DEF CallerTypes
<1>4. /\ cmdq' \in Seq(Command) /\ Len(cmdq') = Len(cmdq) + 1 /\ Len(cmdq) \in Nat
      /\ \A k \in 1..Len(cmdq) : cmdq'[k] = cmdq[k]
      /\ cmdq'[Len(cmdq) + 1] = c
  BY <1>2 DEF CallerTypes
<1>5. TypeOK'
  BY <1>1, <1>2, <1>3, <1>4 DEF CallerTypes, ListenerTypes, ShutdownTypes, MemberTypes,
     RemovalTypes, ActorTypes, ReaperTypes
<1>6. Queue'
  <2>1. \A i \in Ids : Untouched(i)' <=> Untouched(i)
    BY <1>1 DEF Untouched
  <2>2. \A i \in fresh' : Untouched(i)' /\ i \notin batch'
    BY <1>1, <1>3, <2>1 DEF Queue
  <2>3. ASSUME NEW k \in 1..Len(cmdq'), IsAdd(k)'
        PROVE  \A i \in cmdq'[k].ids : Untouched(i)' /\ i \notin batch' /\ i \notin fresh'
    <3>1. CASE k = Len(cmdq) + 1
      BY <1>1, <1>2, <1>3, <1>4, <2>1, <2>3, <3>1 DEF Queue, IsAdd
    <3>2. CASE k \in 1..Len(cmdq)
      <4>1. IsAdd(k) /\ cmdq'[k].ids = cmdq[k].ids
        BY <1>4, <2>3, <3>2 DEF IsAdd
      <4> QED
        BY <1>1, <1>3, <2>1, <3>2, <4>1, QueuedIds DEF Queue
    <3> QED
      BY <1>4, <3>1, <3>2
  <2>4. ASSUME NEW k \in 1..Len(cmdq'), NEW l \in 1..Len(cmdq'), k # l, IsAdd(k)', IsAdd(l)'
        PROVE  cmdq'[k].ids \cap cmdq'[l].ids = {}
    <3>1. CASE k \in 1..Len(cmdq) /\ l \in 1..Len(cmdq)
      BY <1>4, <2>4, <3>1 DEF Queue, IsAdd
    <3>2. CASE k = Len(cmdq) + 1 /\ l \in 1..Len(cmdq)
      BY <1>2, <1>4, <2>4, <3>2 DEF Queue, IsAdd
    <3>3. CASE l = Len(cmdq) + 1 /\ k \in 1..Len(cmdq)
      BY <1>2, <1>4, <2>4, <3>3 DEF Queue, IsAdd
    <3> QED
      BY <1>4, <2>4, <3>1, <3>2, <3>3
  <2> QED
    BY <2>2, <2>3, <2>4 DEF Queue
<1>7. Admitting' /\ Fenced'
  BY <1>1 DEF Admitting, Fenced, Untouched
<1>8. Phases' /\ Indexes' /\ Counted'
  BY <1>1 DEF Phases, PhaseUnowned, PhaseJoining, PhaseResolved, PhaseReleased, Indexes,
     Keeps, Counted, Uncollected
<1> QED
  BY <1>5, <1>6, <1>7, <1>8

\* Queue survives a step that leaves the queue and the batch alone and does
\* not touch an untouched identity.
LEMMA QueueFrame ==
  ASSUME RegistryInvariant, UNCHANGED <<cmdq, fresh>>, batch' \subseteq batch,
         \A i \in Ids : Untouched(i) => Untouched(i)'
  PROVE  Queue'
BY QueuedIds DEF RegistryInvariant, TypeOK, CallerTypes, Queue, IsAdd

\* Queue survives taking the oldest command, also when the listener keeps the
\* identities of the add it took.
LEMMA QueueTake ==
  ASSUME RegistryInvariant, cmdq # <<>>, cmdq' = Tail(cmdq), fresh' = fresh, batch = {},
         batch' = {} \/ (Head(cmdq).op = "add" /\ batch' = Head(cmdq).ids),
         \A i \in Ids : Untouched(i) => Untouched(i)'
  PROVE  Queue' /\ cmdq' \in Seq(Command)
<1> USE DEF RegistryInvariant, TypeOK
<1>1. /\ cmdq' \in Seq(Command) /\ Len(cmdq) \in Nat \ {0} /\ Len(cmdq') = Len(cmdq) - 1
      /\ \A k \in 1..Len(cmdq') : k + 1 \in 1..Len(cmdq) /\ cmdq'[k] = cmdq[k + 1]
      /\ Head(cmdq) = cmdq[1]
  BY DEF CallerTypes
<1>2. \A i \in fresh' : Untouched(i)' /\ i \notin batch'
  BY <1>1 DEF Queue, CallerTypes, IsAdd
<1>3. ASSUME NEW k \in 1..Len(cmdq'), IsAdd(k)'
      PROVE  \A i \in cmdq'[k].ids : Untouched(i)' /\ i \notin batch' /\ i \notin fresh'
  <2>1. k + 1 \in 1..Len(cmdq) /\ k + 1 # 1 /\ IsAdd(k + 1) /\ cmdq'[k].ids = cmdq[k + 1].ids
    BY <1>1, <1>3 DEF IsAdd
  <2>2. cmdq[k + 1].ids \subseteq Ids
    BY <2>1, QueuedIds
  <2>3. \A i \in cmdq[k + 1].ids : i \notin batch'
    BY <1>1, <2>1 DEF Queue, IsAdd
  <2> QED
    BY <2>1, <2>2, <2>3 DEF Queue
<1>4. ASSUME NEW k \in 1..Len(cmdq'), NEW l \in 1..Len(cmdq'), k # l, IsAdd(k)', IsAdd(l)'
      PROVE  cmdq'[k].ids \cap cmdq'[l].ids = {}
  BY <1>1, <1>4 DEF Queue, IsAdd
<1> QED
  BY <1>1, <1>2, <1>3, <1>4 DEF Queue

\* Outside the window between insertion and spawn, a registered member's
\* actor exists: no claim finds a handle without a task.
LEMMA MembersSpawned ==
  ASSUME Admitting, lpc # "inserted"
  PROVE  \A i \in Ids : entry[i] = "registered" => actor[i] # "none"
BY DEF Admitting

\* A step of the shutdown drain preserves the invariant.
LEMMA ShutdownInv ==
  ASSUME RegistryInvariant, Shutdown
  PROVE  RegistryInvariant'
<1> USE DEF RegistryInvariant, TypeOK
<1>1. CASE SdSweep
  <2> DEFINE S == Claimable(Ids)
  <2>1. Claim(S, "sweep", "queued", S) /\ UNCHANGED <<actorVars, reaperVars>>
    BY <1>1 DEF SdSweep
  <2>2. \A i \in Ids : i \in S => entry[i] = "registered" /\ actor[i] # "none"
    BY <1>1, MembersSpawned DEF SdSweep, Fenced, Claimable
  <2> HIDE DEF S
  <2>3. /\ MemberTypes' /\ RemovalTypes' /\ Phases' /\ Indexes' /\ Counted'
        /\ \A i \in Ids : Untouched(i) => Untouched(i)'
        /\ \A i \in Ids : entry'[i] = "registered" => entry[i] = "registered"
    BY <2>1, <2>2, ClaimInv
  <2>4. TypeOK'
    BY <1>1, <2>3 DEF SdSweep, CallerTypes, ListenerTypes, ShutdownTypes, ActorTypes, ReaperTypes
  <2>5. Queue'
    BY <1>1, <2>3, QueueFrame DEF SdSweep
  <2>6. Admitting' /\ Fenced'
    BY <1>1, <2>3 DEF SdSweep, Admitting, Fenced
  <2> QED
    BY <2>3, <2>4, <2>5, <2>6
<1>2. CASE Shutdown /\ ~SdSweep
  <2> USE <1>2 DEF Shutdown, SdFence, SdSkip, SdDeadline, SdVerdict, SdCancelToken, SdJoin, Abandon
  <2>1. /\ UNCHANGED <<cmdq, fresh, stops, waiters, listenerVars, memberVars>>
        /\ UNCHANGED <<removalVars, actorVars, reaperVars>>
    OBVIOUS
  <2>2. /\ gate' = gate \/ gate' = "closed"
        /\ fence' = fence \/ (fence' = "sent" /\ gate' = "closed" /\ sd = "idle")
    OBVIOUS
  <2>3. ShutdownTypes'
    BY DEF ShutdownTypes
  <2>4. TypeOK'
    BY <2>1, <2>2, <2>3 DEF CallerTypes, ListenerTypes, MemberTypes, RemovalTypes, ActorTypes,
       ReaperTypes
  <2>5. Queue' /\ Admitting'
    BY <2>1 DEF Queue, IsAdd, Untouched, Admitting
  <2>6. Fenced'
    BY <2>1, <2>2 DEF Fenced, CallerTypes
  <2>7. Phases' /\ Indexes' /\ Counted'
    BY <2>1 DEF Phases, PhaseUnowned, PhaseJoining, PhaseResolved, PhaseReleased, Indexes,
       Keeps, Counted, Uncollected
  <2> QED
    BY <2>4, <2>5, <2>6, <2>7
<1> QED
  BY <1>1, <1>2

\* Inserting a batch that conflicts with nothing keeps the indexes: every name
\* it takes had neither a member nor a reaper record.
LEMMA InsertIndexes ==
  ASSUME RegistryInvariant, LInsert, ~(Conflicts(batch) \/ OverLimit(batch)), lpc = "checked"
  PROVE  MemberTypes' /\ Indexes'
<1> USE DEF RegistryInvariant, TypeOK
<1> DEFINE owner(n) == CHOOSE i \in batch : NameOf[i] = n
<1>1. /\ entry' = [i \in Ids |-> IF i \in batch THEN "registered" ELSE entry[i]]
      /\ byName' = [n \in Names |-> IF \E i \in batch : NameOf[i] = n THEN owner(n) ELSE byName[n]]
      /\ UNCHANGED <<rec, reserved>>
  BY DEF LInsert, SetAll, MemberTypes
<1>2. batch \subseteq Ids
  BY DEF ListenerTypes
<1>3. \A i \in batch : NameOf[i] \in Names /\ owner(NameOf[i]) = i
  BY <1>2, NamesAssumption DEF Conflicts
<1>4. \A i \in batch, j \in Ids : NameOf[i] = NameOf[j] => ~Keeps(j)
  BY <1>2, NamesAssumption, IdsAssumption DEF Conflicts, Indexes, Keeps
<1>5. MemberTypes'
  <2>1. entry' \in [Ids -> EntryState]
    BY <1>1 DEF MemberTypes, EntryState
  <2>2. ASSUME NEW n \in Names PROVE byName'[n] \in Ids \cup {NoId}
    BY <1>1, <1>2, <1>3 DEF MemberTypes
  <2>3. byName' \in [Names -> Ids \cup {NoId}]
    BY <1>1, <2>2
  <2> QED
    BY <2>1, <2>3 DEF MemberTypes
<1> HIDE DEF owner
<1>6. ASSUME NEW j \in Ids PROVE entry'[j] # "absent" <=> byName'[NameOf[j]] = j
  <2>1. NameOf[j] \in Names
    BY NamesAssumption
  <2>2. CASE j \in batch
    BY <1>1, <1>3, <2>1, <2>2
  <2>3. CASE j \notin batch /\ \E i \in batch : NameOf[i] = NameOf[j]
    <3>1. PICK i \in batch : NameOf[i] = NameOf[j]
      BY <2>3
    <3>2. byName'[NameOf[j]] = i /\ entry[j] = "absent"
      BY <1>1, <1>3, <1>4, <2>1, <3>1 DEF Keeps
    <3> QED
      BY <1>1, <2>3, <3>2
  <2>4. CASE j \notin batch /\ ~\E i \in batch : NameOf[i] = NameOf[j]
    BY <1>1, <2>1, <2>4 DEF Indexes
  <2> QED
    BY <2>2, <2>3, <2>4
<1>7. \A i \in Ids, n \in Names : i \in reserved'[n] <=> NameOf[i] = n /\ rec'[i] # "none"
  BY <1>1 DEF Indexes
<1>8. ASSUME NEW i \in Ids, NEW j \in Ids, NameOf[i] = NameOf[j], Keeps(i)', Keeps(j)'
      PROVE  i = j
  <2>1. (i \in batch \/ Keeps(i)) /\ (j \in batch \/ Keeps(j))
    BY <1>1, <1>8 DEF Keeps
  <2>2. CASE i \in batch /\ j \in batch
    BY <1>3, <1>8, <2>2
  <2>3. CASE i \notin batch \/ j \notin batch
    BY <1>4, <1>8, <2>1, <2>3 DEF Indexes
  <2> QED
    BY <2>2, <2>3
<1> QED
  BY <1>5, <1>6, <1>7, <1>8 DEF Indexes

\* The listener's admission steps preserve the invariant.
LEMMA AdmissionInv ==
  ASSUME RegistryInvariant, LTakeAdd \/ LInsert \/ LSpawn \/ LOpen
  PROVE  RegistryInvariant'
<1> USE DEF RegistryInvariant, TypeOK
<1>0. UNCHANGED <<gate, fresh, stops, waiters, mode, doneq, shutdownVars, reaperVars>>
  BY DEF LTakeAdd, LInsert, LSpawn, LOpen
<1>1. CASE LTakeAdd
  <2>1. /\ lpc = "idle" /\ cmdq # <<>> /\ Head(cmdq).op = "add" /\ cmdq' = Tail(cmdq)
        /\ UNCHANGED <<memberVars, actorVars>>
    BY <1>1 DEF LTakeAdd, Taking
  <2>2. /\ \/ lpc' = lpc /\ batch' = batch /\ outcome' = SetAll(outcome, Head(cmdq).ids, "rejected")
           \/ lpc' = "checked" /\ batch' = Head(cmdq).ids /\ outcome' = outcome
        /\ UNCHANGED <<pending, own, via, join, sawEmpty, cancelled, logical>>
    BY <1>1 DEF LTakeAdd, Reject
  <2>3. Head(cmdq).ids \subseteq Ids /\ \A i \in Head(cmdq).ids : Untouched(i)
    <3>1. 1 \in 1..Len(cmdq) /\ Head(cmdq) = cmdq[1] /\ IsAdd(1)
      BY <2>1 DEF CallerTypes, IsAdd
    <3> QED
      BY <3>1, QueuedIds DEF Queue
  <2>4. \A i \in Ids : Untouched(i)' <=> Untouched(i)
    BY <2>1, <2>2 DEF Untouched
  <2>5. batch = {}
    BY <2>1 DEF Admitting
  <2>6. Queue' /\ cmdq' \in Seq(Command)
    BY <1>0, <2>1, <2>2, <2>4, <2>5, QueueTake
  <2>7. TypeOK'
    <3>1. outcome' \in [Ids -> {"none", "rejected", "exit", "aborted"}]
      BY <2>2 DEF RemovalTypes, SetAll
    <3>2. RemovalTypes'
      BY <2>2, <3>1 DEF RemovalTypes
    <3>3. ListenerTypes'
      BY <1>0, <2>2, <2>3 DEF ListenerTypes
    <3> QED
      BY <1>0, <2>1, <2>6, <3>2, <3>3 DEF CallerTypes, ShutdownTypes, MemberTypes, ActorTypes,
         ReaperTypes
  <2>8. Admitting'
    BY <2>1, <2>2, <2>3, <2>4, <2>5 DEF Admitting
  <2>9. Fenced'
    BY <1>0, <2>1 DEF Fenced
  <2>10. Phases' /\ Indexes' /\ Counted'
    BY <1>0, <2>1, <2>2 DEF Phases, PhaseUnowned, PhaseJoining, PhaseResolved, PhaseReleased,
       Indexes, Keeps, Counted, Uncollected
  <2> QED
    BY <2>6, <2>7, <2>8, <2>9, <2>10
<1>2. CASE LInsert /\ (Conflicts(batch) \/ OverLimit(batch))
  <2>1. /\ lpc' = "idle" /\ batch' = {} /\ outcome' = SetAll(outcome, batch, "rejected")
        /\ UNCHANGED <<pending, own, via, join, sawEmpty, cancelled, logical>>
        /\ UNCHANGED <<cmdq, memberVars, actorVars>> /\ lpc = "checked"
    BY <1>2 DEF LInsert, Reject
  <2>2. RemovalTypes'
    <3>1. outcome' \in [Ids -> {"none", "rejected", "exit", "aborted"}]
      BY <2>1 DEF RemovalTypes, SetAll
    <3> QED
      BY <2>1, <3>1 DEF RemovalTypes
  <2>3. TypeOK'
    BY <1>0, <2>1, <2>2 DEF CallerTypes, ListenerTypes, ShutdownTypes, MemberTypes, ActorTypes,
       ReaperTypes
  <2>4. Queue'
    BY <1>0, <2>1, QueueFrame DEF Untouched
  <2>5. Admitting' /\ Fenced'
    BY <1>0, <2>1 DEF Admitting, Fenced
  <2>6. Phases' /\ Indexes' /\ Counted'
    BY <1>0, <2>1 DEF Phases, PhaseUnowned, PhaseJoining, PhaseResolved, PhaseReleased,
       Indexes, Keeps, Counted, Uncollected
  <2> QED
    BY <2>3, <2>4, <2>5, <2>6
<1>3. CASE LInsert /\ ~(Conflicts(batch) \/ OverLimit(batch))
  <2>1. /\ entry' = [i \in Ids |-> IF i \in batch THEN "registered" ELSE entry[i]]
        /\ lpc = "checked" /\ lpc' = "inserted"
        /\ UNCHANGED <<cmdq, batch, removalVars, actorVars>>
    BY <1>3 DEF LInsert, SetAll, MemberTypes
  <2>2. MemberTypes' /\ Indexes'
    BY <1>3, <2>1, InsertIndexes
  <2>3. batch \subseteq Ids /\ \A i \in batch : Untouched(i)
    BY <2>1 DEF ListenerTypes, Admitting
  <2>4. TypeOK'
    BY <1>0, <2>1, <2>2 DEF CallerTypes, ListenerTypes, ShutdownTypes, RemovalTypes, ActorTypes,
       ReaperTypes
  <2>5. \A i \in Ids : i \notin batch => (Untouched(i)' <=> Untouched(i))
    BY <2>1 DEF Untouched
  <2>6. Queue'
    BY <1>0, <2>1, <2>5, QueuedIds DEF CallerTypes, Queue, IsAdd
  <2>7. Admitting' /\ Fenced'
    BY <1>0, <2>1, <2>3 DEF Admitting, Fenced, Untouched
  <2>8. Phases'
    BY <1>0, <2>1, <2>3 DEF Phases, PhaseUnowned, PhaseJoining, PhaseResolved, PhaseReleased,
       Untouched
  <2>9. Counted'
    BY <1>0, <2>1 DEF Counted, Uncollected
  <2> QED
    BY <2>2, <2>4, <2>6, <2>7, <2>8, <2>9
<1>4. CASE LSpawn
  <2>1. /\ actor' = [i \in Ids |-> IF i \in batch THEN "gated" ELSE actor[i]]
        /\ lpc = "inserted" /\ lpc' = "spawned"
        /\ UNCHANGED <<cmdq, batch, memberVars, removalVars, result, aborted>>
    BY <1>4 DEF LSpawn, SetAll, ActorTypes
  <2>2. batch \subseteq Ids /\ \A i \in batch : entry[i] = "registered" /\ actor[i] = "none"
    BY <2>1 DEF ListenerTypes, Admitting
  <2>3. TypeOK'
    <3>1. actor' \in [Ids -> ActorState]
      BY <2>1 DEF ActorTypes, ActorState
    <3> QED
      BY <1>0, <2>1, <3>1 DEF CallerTypes, ListenerTypes, ShutdownTypes, MemberTypes,
         RemovalTypes, ActorTypes, ReaperTypes
  <2>4. \A i \in Ids : Untouched(i) => Untouched(i)'
    BY <2>1, <2>2 DEF Untouched
  <2>5. Queue'
    BY <1>0, <2>1, <2>4, QueueFrame
  <2>6. Admitting' /\ Fenced'
    BY <1>0, <2>1, <2>2 DEF Admitting, Fenced
  <2>7. \A i \in batch : own[i] = "none"
    BY <2>2 DEF Phases, PhaseJoining, PhaseResolved, PhaseReleased, RemovalTypes, OwnState
  <2>8. Phases'
    BY <1>0, <2>1, <2>2, <2>7 DEF Phases, PhaseUnowned, PhaseJoining, PhaseResolved, PhaseReleased
  <2>9. Indexes' /\ Counted'
    BY <1>0, <2>1 DEF Indexes, Keeps, Counted, Uncollected
  <2> QED
    BY <2>3, <2>5, <2>6, <2>8, <2>9
<1>5. CASE LOpen
  <2>1. /\ actor' = [i \in Ids |-> IF i \in batch /\ actor[i] = "gated" THEN "live" ELSE actor[i]]
        /\ lpc = "spawned" /\ lpc' = "idle" /\ batch' = {}
        /\ UNCHANGED <<cmdq, memberVars, removalVars, result, aborted>>
    BY <1>5 DEF LOpen
  <2>2. \A i \in Ids : actor'[i] = actor[i] \/ (actor[i] = "gated" /\ actor'[i] = "live")
    BY <2>1
  <2>3. TypeOK'
    <3>1. actor' \in [Ids -> ActorState]
      BY <2>1 DEF ActorTypes, ActorState
    <3> QED
      BY <1>0, <2>1, <3>1 DEF CallerTypes, ListenerTypes, ShutdownTypes, MemberTypes,
         RemovalTypes, ActorTypes, ReaperTypes
  <2>4. \A i \in Ids : Untouched(i) => Untouched(i)'
    BY <2>1, <2>2 DEF Untouched
  <2>5. Queue'
    BY <1>0, <2>1, <2>4, QueueFrame
  <2>6. Admitting' /\ Fenced'
    BY <1>0, <2>1, <2>2 DEF Admitting, Fenced
  <2>7. Phases'
    BY <1>0, <2>1, <2>2 DEF Phases, PhaseUnowned, PhaseJoining, PhaseResolved, PhaseReleased
  <2>8. Indexes' /\ Counted'
    BY <1>0, <2>1 DEF Indexes, Keeps, Counted, Uncollected
  <2> QED
    BY <2>3, <2>5, <2>6, <2>7, <2>8
<1> QED
  BY <1>1, <1>2, <1>3, <1>4, <1>5

\* The listener's claims preserve the invariant: a stop command, a completion
\* and the final sweep find every registered member spawned.
LEMMA ListenerClaimInv ==
  ASSUME RegistryInvariant, LStop \/ LSweep \/ \E i \in Ids : LCompletion(i)
  PROVE  RegistryInvariant'
<1> USE DEF RegistryInvariant, TypeOK
<1>1. lpc = "idle" /\ batch = {} /\ UNCHANGED <<gate, fresh, stops, actorVars, reaperVars>>
  BY DEF LStop, LSweep, LCompletion, Taking, Admitting
<1>2. \A i \in Ids : entry[i] = "registered" => actor[i] # "none"
  BY <1>1, MembersSpawned
<1>3. /\ MemberTypes' /\ RemovalTypes' /\ Phases' /\ Indexes' /\ Counted'
      /\ \A i \in Ids : Untouched(i) => Untouched(i)'
      /\ \A i \in Ids : entry'[i] = "registered" => entry[i] = "registered"
  <2>1. CASE LStop
    <3> DEFINE T == Claimable(Target(Head(cmdq)))
    <3>1. Claim(T, "detached", "join", T) /\ \A i \in T : entry[i] = "registered"
      BY <2>1 DEF LStop, Claimable
    <3> HIDE DEF T
    <3> QED
      BY <1>1, <1>2, <3>1, ClaimInv
  <2>2. CASE LSweep
    <3> DEFINE T == Claimable(Ids)
    <3>1. Claim(T, "sweep", "queued", T) /\ \A i \in T : entry[i] = "registered"
      BY <2>2 DEF LSweep, Claimable
    <3> HIDE DEF T
    <3> QED
      BY <1>1, <1>2, <3>1, ClaimInv
  <2>3. CASE \E i \in Ids : LCompletion(i)
    <3>1. PICK i \in Ids : LCompletion(i)
      BY <2>3
    <3> DEFINE T == Claimable({i})
               w == IF T # {} /\ result[i] THEN "inline" ELSE "detached"
    <3>2. Claim(T, w, "join", {}) /\ \A j \in T : entry[j] = "registered"
      BY <3>1 DEF LCompletion, Claimable
    <3>3. w \in {"detached", "inline", "sweep"}
      OBVIOUS
    <3> HIDE DEF T, w
    <3> QED
      BY <1>1, <1>2, <3>2, <3>3, ClaimInv
  <2> QED
    BY <2>1, <2>2, <2>3
<1>4. \A i \in Ids : entry'[i] = "registered" => actor'[i] # "none"
  BY <1>1, <1>3, MembersSpawned
<1>5. CASE LStop
  <2>1. /\ cmdq # <<>> /\ cmdq' = Tail(cmdq) /\ waiters' \subseteq waiters \cup Members
        /\ UNCHANGED <<listenerVars, shutdownVars>>
    BY <1>5 DEF LStop, Taking
  <2>2. Queue' /\ cmdq' \in Seq(Command)
    BY <1>1, <1>3, <2>1, QueueTake
  <2>3. TypeOK'
    BY <1>1, <1>3, <2>1, <2>2 DEF CallerTypes, ListenerTypes, ShutdownTypes, ActorTypes,
       ReaperTypes, Members
  <2>4. Admitting' /\ Fenced'
    BY <1>1, <1>4, <2>1 DEF Admitting, Fenced
  <2> QED
    BY <1>3, <2>2, <2>3, <2>4
<1>6. CASE LSweep
  <2>1. /\ UNCHANGED <<callerVars, lpc, batch, doneq, sd, forced, stuck, token>>
        /\ cmdq = <<>> /\ mode' = "sweep" /\ deadline' = TRUE
        /\ fence' = IF fence = "sent" THEN "acked" ELSE fence
    BY <1>6 DEF LSweep
  <2>2. ShutdownTypes'
    BY <2>1 DEF ShutdownTypes
  <2>3. TypeOK'
    BY <1>1, <1>3, <2>1, <2>2 DEF CallerTypes, ListenerTypes, ActorTypes, ReaperTypes
  <2>4. Queue'
    BY <1>3, <2>1, QueueFrame
  <2>5. Admitting' /\ Fenced'
    BY <1>1, <1>4, <2>1 DEF Admitting, Fenced
  <2> QED
    BY <1>3, <2>3, <2>4, <2>5
<1>7. ASSUME NEW i \in Ids, LCompletion(i)
      PROVE  RegistryInvariant'
  <2>1. /\ UNCHANGED <<callerVars, mode, shutdownVars>> /\ doneq' \subseteq doneq
        /\ \/ lpc' = "idle" /\ batch' = {}
           \/ lpc' = "inline" /\ batch' = {i} /\ entry[i] = "registered"
    BY <1>7 DEF LCompletion, Claimable
  <2>2. TypeOK'
    BY <1>1, <1>3, <2>1 DEF CallerTypes, ListenerTypes, ShutdownTypes, ActorTypes, ReaperTypes
  <2>3. Queue'
    BY <1>3, <2>1, QueuedIds DEF CallerTypes, Queue, IsAdd, Untouched
  <2>4. Admitting' /\ Fenced'
    BY <1>1, <1>4, <2>1 DEF Admitting, Fenced
  <2> QED
    BY <1>3, <2>2, <2>3, <2>4
<1> QED
  BY <1>5, <1>6, <1>7

\* The listener's other steps change nothing the identities' parts speak of.
LEMMA ListenerLoopInv ==
  ASSUME RegistryInvariant,
         \/ LInlineDone \/ LFenceTake \/ LFenceReply \/ LBreak \/ LSweepDone \/ LEnd
  PROVE  RegistryInvariant'
<1> USE DEF RegistryInvariant, TypeOK, LInlineDone, LFenceTake, LFenceReply, LBreak,
            LSweepDone, LEnd
<1>1. /\ UNCHANGED <<callerVars, memberVars, removalVars, actorVars, reaperVars>>
      /\ UNCHANGED <<sd, deadline, forced, stuck, token>>
      /\ doneq' \subseteq doneq /\ batch' \subseteq batch
  BY DEF ListenerTypes
<1>2. TypeOK'
  <2>1. ListenerTypes'
    BY <1>1 DEF ListenerTypes
  <2>2. ShutdownTypes'
    BY <1>1 DEF ShutdownTypes
  <2> QED
    BY <1>1, <2>1, <2>2 DEF CallerTypes, MemberTypes, RemovalTypes, ActorTypes, ReaperTypes
<1>3. Queue'
  BY <1>1, QueueFrame DEF Untouched
<1>4. Admitting' /\ Fenced'
  BY <1>1 DEF Admitting, Fenced, Untouched, ListenerTypes
<1>5. Phases' /\ Indexes' /\ Counted'
  BY <1>1 DEF Phases, PhaseUnowned, PhaseJoining, PhaseResolved, PhaseReleased, Indexes,
     Keeps, Counted, Uncollected
<1> QED
  BY <1>2, <1>3, <1>4, <1>5

\* Every step preserves the invariant.
LEMMA NextInv == RegistryInvariant /\ [Next]_vars => RegistryInvariant'
<1> SUFFICES ASSUME RegistryInvariant, [Next]_vars
             PROVE  RegistryInvariant'
  OBVIOUS
<1>1. CASE Callers
  BY <1>1, CallersInv
<1>2. CASE Listener
  BY <1>2, AdmissionInv, ListenerClaimInv, ListenerLoopInv DEF Listener
<1>3. CASE Shutdown
  BY <1>3, ShutdownInv
<1>4. CASE \E i \in Ids : Owner(i) \/ Reaper(i) \/ Actor(i)
  BY <1>4, OwnerInv, ReaperInv, ActorInv
<1>5. CASE UNCHANGED vars
  BY <1>5 DEF vars, RegistryInvariant, TypeOK, CallerTypes, ListenerTypes, ShutdownTypes,
     MemberTypes, RemovalTypes, ActorTypes, ReaperTypes, Queue, IsAdd, Untouched, Admitting,
     Fenced, Phases, PhaseUnowned, PhaseJoining, PhaseResolved, PhaseReleased, Indexes, Keeps,
     Counted, Uncollected
<1> QED
  BY <1>1, <1>2, <1>3, <1>4, <1>5 DEF Next, Terminated

\* The invariant holds of every behaviour of the registry.
THEOREM Invariance == Spec => []RegistryInvariant
BY InitInv, NextInv, PTL DEF Spec

\* Every variable keeps its type; in particular the pending counts and the
\* reaper's active count are never decremented below zero.
THEOREM TypeCorrect == Spec => []TypeOK
<1>1. RegistryInvariant => TypeOK
  BY DEF RegistryInvariant
<1> QED
  BY <1>1, Invariance, PTL

\* An actor whose task exists is owned by an entry or by a waiting record.
LEMMA AliveOwned ==
  ASSUME RegistryInvariant
  PROVE  ActorsOwned
<1> SUFFICES ASSUME NEW i \in Ids, Alive(i)
             PROVE  entry[i] # "absent" \/ rec[i] \in {"waiting", "terminal"}
  BY DEF ActorsOwned
<1>1. PhaseUnowned(i) /\ PhaseJoining(i) /\ PhaseResolved(i) /\ PhaseReleased(i)
  BY DEF RegistryInvariant, Phases
<1>2. own[i] \in OwnState
  BY DEF RegistryInvariant, TypeOK, RemovalTypes
<1> QED
  BY <1>1, <1>2 DEF OwnState, Alive, PhaseUnowned, PhaseJoining, PhaseResolved, PhaseReleased

\* No abort misses its actor, for any number of tasks, names and commands.
THEOREM AllActorsOwned == Spec => []ActorsOwned
BY AliveOwned, Invariance, PTL

\* Two actors with one name never exist at the same time.
THEOREM NamesExclusive == Spec => []NameExclusive
<1>1. RegistryInvariant => NameExclusive
  BY AliveOwned DEF RegistryInvariant, ActorsOwned, NameExclusive, Indexes, Keeps
<1> QED
  BY <1>1, Invariance, PTL

-----------------------------------------------------------------------------
(* The limit.  Only an insertion occupies a place; it adds to the members  *)
(* and the uncollected attempts counted apart, hence to their union.       *)

\* Members and occupied places are finite sets.
LEMMA OccupiedFinite == IsFiniteSet(Members) /\ IsFiniteSet(Occupied)
BY IdsAssumption, FS_Subset DEF Members, Occupied, Uncollected

\* The union of two finite sets has at most as many elements as the two apart.
LEMMA UnionBound ==
  ASSUME NEW S, NEW T, IsFiniteSet(S), IsFiniteSet(T)
  PROVE  IsFiniteSet(S \cup T) /\ Cardinality(S \cup T) <= Cardinality(S) + Cardinality(T)
<1>1. /\ IsFiniteSet(S \cup T) /\ IsFiniteSet(S \cap T)
      /\ Cardinality(S \cup T) = Cardinality(S) + Cardinality(T) - Cardinality(S \cap T)
  BY FS_Union, FS_Intersection
<1> QED
  BY <1>1, FS_CardinalityType

\* Only a successful insertion makes a member; only a member is aborted; a
\* physical latch stays completed.
LEMMA MembersOnlyByInsert ==
  ASSUME RegistryInvariant, [Next]_vars, ~(lpc = "checked" /\ lpc' = "inserted")
  PROVE  /\ \A i \in Ids : entry'[i] # "absent" => entry[i] # "absent"
         /\ \A i \in Ids : aborted'[i] => aborted[i] \/ entry[i] # "absent"
         /\ \A i \in Ids : physical[i] => physical'[i]
<1> USE DEF RegistryInvariant, TypeOK
<1>1. CASE Callers
  BY <1>1 DEF Callers, SubmitAdd, SubmitStop
<1>2. CASE Listener
  <2> USE DEF MemberTypes
  <2>1. CASE LTakeAdd \/ LInsert \/ LSpawn \/ LOpen
    BY <2>1 DEF LTakeAdd, LInsert, LSpawn, LOpen
  <2>2. CASE LStop \/ LSweep \/ \E i \in Ids : LCompletion(i)
    BY <2>2 DEF LStop, LSweep, LCompletion, Claim, SetAll, Claimable
  <2>3. CASE LInlineDone \/ LFenceTake \/ LFenceReply \/ LBreak \/ LSweepDone \/ LEnd
    BY <2>3 DEF LInlineDone, LFenceTake, LFenceReply, LBreak, LSweepDone, LEnd
  <2> QED
    BY <1>2, <2>1, <2>2, <2>3 DEF Listener
<1>3. CASE Shutdown
  BY <1>3 DEF Shutdown, SdFence, SdSweep, SdSkip, SdDeadline, SdVerdict, SdCancelToken, SdJoin,
     Abandon, Claim, SetAll, Claimable, MemberTypes
<1>4. ASSUME NEW i \in Ids, Owner(i)
      PROVE  /\ \A j \in Ids : entry'[j] # "absent" => entry[j] # "absent"
             /\ \A j \in Ids : aborted'[j] => aborted[j] \/ entry[j] # "absent"
             /\ \A j \in Ids : physical[j] => physical'[j]
  <2>1. CASE AbortCount(i)
    BY <2>1 DEF AbortCount, ActorTypes, Phases, PhaseJoining
  <2>2. CASE Owner(i) /\ ~AbortCount(i)
    BY <2>2 DEF Owner, SweepNext, JoinExit, AbortReserve, CommitRemoval, Report, AttachTerminal,
       DecPending, CompleteLogical, NotifyEmpty, MemberTypes, ReaperTypes
  <2> QED
    BY <1>4, <2>1, <2>2
<1>5. ASSUME NEW i \in Ids, Reaper(i) \/ Actor(i)
      PROVE  UNCHANGED <<entry, aborted>> /\ \A j \in Ids : physical[j] => physical'[j]
  BY <1>5 DEF Reaper, Reap, SubmitReady, ReaperTypes, Actor, StartAttempt, EndAttempt, SendResult,
     SendCompletion, TaskExit, DropAborted
<1>6. CASE UNCHANGED vars
  BY <1>6 DEF vars
<1> QED
  BY <1>1, <1>2, <1>3, <1>4, <1>5, <1>6 DEF Next, Terminated

\* Every step but a successful insertion keeps or frees places.
LEMMA OccupiedShrinks ==
  ASSUME RegistryInvariant, [Next]_vars, ~(lpc = "checked" /\ lpc' = "inserted")
  PROVE  Occupied' \subseteq Occupied
BY MembersOnlyByInsert DEF Occupied, Members, Uncollected

\* The listener alone inserts.
LEMMA InsertStep ==
  ASSUME [Next]_vars, lpc = "checked", lpc' = "inserted"
  PROVE  LInsert
BY DEF Next, Callers, SubmitAdd, SubmitStop, Listener, LTakeAdd, LSpawn, LOpen, LStop,
   LCompletion, LInlineDone, LFenceTake, LFenceReply, LBreak, LSweep, LSweepDone, LEnd, Taking,
   Shutdown, SdFence, SdSweep, SdSkip, SdDeadline, SdVerdict, SdCancelToken, SdJoin, Abandon,
   Owner, SweepNext, JoinExit, AbortReserve, AbortCount, CommitRemoval, Report, AttachTerminal,
   DecPending, CompleteLogical, NotifyEmpty, Reaper, Reap, SubmitReady, Actor, StartAttempt,
   EndAttempt, SendResult, SendCompletion, TaskExit, DropAborted, Terminated, vars

\* A successful insertion stays within the limit it checked.
LEMMA InsertWithinLimit ==
  ASSUME RegistryInvariant, [Next]_vars, lpc = "checked", lpc' = "inserted"
  PROVE  LimitKept'
<1> USE DEF RegistryInvariant, TypeOK
<1>1. LInsert
  BY InsertStep
<1>2. /\ ~OverLimit(batch) /\ entry' = SetAll(entry, batch, "registered")
      /\ UNCHANGED <<actorVars, reaperVars>>
  BY <1>1 DEF LInsert
<1>3. batch \subseteq Ids /\ IsFiniteSet(batch)
  BY IdsAssumption, FS_Subset DEF ListenerTypes
<1>4. Occupied' = (Members \cup batch) \cup Uncollected
  BY <1>2, <1>3 DEF Occupied, Members, Uncollected, SetAll, MemberTypes
<1>5. /\ IsFiniteSet(Members \cup batch)
      /\ Cardinality(Members \cup batch) <= Cardinality(Members) + Cardinality(batch)
  BY <1>3, OccupiedFinite, UnionBound
<1>6. Cardinality(Occupied') <= Cardinality(Members \cup batch) + Cardinality(Uncollected)
  BY <1>4, <1>5, UncollectedFinite, UnionBound
<1>7. Cardinality(Members) + Cardinality(Uncollected) + Cardinality(batch) <= Limit
  <2>1. /\ Cardinality(Members) \in Nat /\ Cardinality(Uncollected) \in Nat
        /\ Cardinality(batch) \in Nat
    BY <1>3, OccupiedFinite, UncollectedFinite, FS_CardinalityType
  <2> QED
    BY <1>2, <2>1, LimitAssumption DEF OverLimit, Counted
<1>8. /\ Cardinality(Members) \in Nat /\ Cardinality(Uncollected) \in Nat
      /\ Cardinality(batch) \in Nat /\ Cardinality(Members \cup batch) \in Nat
      /\ Cardinality(Occupied') \in Nat
  <2>1. IsFiniteSet(Occupied')
    BY <1>4, <1>5, UncollectedFinite, FS_Union
  <2> QED
    BY <1>3, <1>5, <2>1, OccupiedFinite, UncollectedFinite, FS_CardinalityType
<1> QED
  BY <1>5, <1>6, <1>7, <1>8, LimitAssumption DEF LimitKept

\* max_registered_tasks bounds members and existing actors together.
THEOREM LimitRespected == Spec => []WithinLimit
<1>1. Init => LimitKept
  <2> SUFFICES ASSUME Init PROVE LimitKept
    OBVIOUS
  <2>1. Occupied = {}
    BY DEF Init, Occupied, Members, Uncollected
  <2> QED
    BY <2>1, FS_EmptySet, LimitAssumption DEF LimitKept
<1>2. LimitKept /\ RegistryInvariant /\ [Next]_vars => LimitKept'
  <2> SUFFICES ASSUME LimitKept, RegistryInvariant, [Next]_vars PROVE LimitKept'
    OBVIOUS
  <2>1. CASE lpc = "checked" /\ lpc' = "inserted"
    BY <2>1, InsertWithinLimit
  <2>2. CASE ~(lpc = "checked" /\ lpc' = "inserted")
    <3>1. IsFiniteSet(Occupied') /\ Cardinality(Occupied') <= Cardinality(Occupied)
      BY <2>2, OccupiedShrinks, OccupiedFinite, FS_Subset
    <3> QED
      BY <3>1, OccupiedFinite, FS_CardinalityType, LimitAssumption DEF LimitKept
  <2> QED
    BY <2>1, <2>2
<1>3. RegistryInvariant /\ LimitKept => WithinLimit
  <2> SUFFICES ASSUME RegistryInvariant, LimitKept PROVE WithinLimit
    OBVIOUS
  <2> DEFINE U == {i \in Ids : entry[i] # "absent" \/ Alive(i)}
  <2>1. U \subseteq Occupied
    <3> SUFFICES ASSUME NEW i \in Ids, entry[i] = "absent", Alive(i)
                 PROVE  aborted[i] /\ ~physical[i]
      BY DEF Occupied, Members, Uncollected
    <3>1. rec[i] \in {"waiting", "terminal"}
      BY AliveOwned DEF ActorsOwned
    <3>2. PhaseUnowned(i) /\ PhaseJoining(i) /\ PhaseResolved(i) /\ PhaseReleased(i)
      BY DEF RegistryInvariant, Phases
    <3>3. own[i] \in OwnState
      BY DEF RegistryInvariant, TypeOK, RemovalTypes
    <3> QED
      BY <3>1, <3>2, <3>3 DEF OwnState, PhaseUnowned, PhaseJoining, PhaseResolved, PhaseReleased
  <2>2. IsFiniteSet(U) /\ Cardinality(U) <= Cardinality(Occupied)
    BY <2>1, OccupiedFinite, FS_Subset
  <2> QED
    BY <2>2, OccupiedFinite, FS_CardinalityType, LimitAssumption DEF LimitKept, WithinLimit
<1> QED
  BY <1>1, <1>2, <1>3, Invariance, PTL DEF Spec

(***************************************************************************)
(* The promises.  RegistryInvariant survives each step, so every lemma     *)
(* from here on may use it before and after the step.                      *)
(***************************************************************************)

\* Nothing is told, joined or decided in an empty registry.
LEMMA InitPromise == Init => PromiseInvariant
<1> SUFFICES ASSUME Init PROVE PromiseInvariant
  OBVIOUS
<1>1. RegistryInvariant
  BY InitInv
<1>2. \A i \in Ids : Told(i) /\ Evidence(i) /\ Decided(i)
  BY DEF Init, Told, Evidence, Decided, Queued, InHand
<1>3. Course
  BY DEF Init, Course, NoneRegistered, Drained
<1> QED
  BY <1>1, <1>2, <1>3 DEF PromiseInvariant

\* What is still with a caller, queued or being checked has left no trace.
LEMMA PendingUntouched ==
  ASSUME RegistryInvariant, NEW i \in Ids,
         i \in fresh \/ Queued(i) \/ (InHand(i) /\ lpc = "checked")
  PROVE  Untouched(i)
BY DEF RegistryInvariant, Queue, Admitting, Queued, InHand

\* A rejected identity has left no trace either.
LEMMA RejectedUntouched ==
  ASSUME RegistryInvariant, NEW i \in Ids, Told(i), outcome[i] = "rejected"
  PROVE  Untouched(i)
BY DEF RegistryInvariant, TypeOK, RemovalTypes, OwnState, Told, Untouched

\* Decided survives a step that leaves admission alone and changes nothing of
\* what an identity without a trace was told.
LEMMA DecidedFrame ==
  ASSUME PromiseInvariant, UNCHANGED <<cmdq, fresh, lpc, batch>>, NEW i \in Ids,
         Untouched(i) => outcome'[i] = outcome[i],
         actor[i] # "none" => actor'[i] # "none"
  PROVE  Decided(i)'
<1>1. Queued(i)' <=> Queued(i)
  BY DEF Queued, IsAdd
<1>2. InHand(i)' <=> InHand(i)
  BY DEF InHand
<1> QED
  BY <1>1, <1>2, PendingUntouched, RejectedUntouched DEF PromiseInvariant, Decided

\* A step of i's removal owner keeps the promises.
LEMMA OwnerPromise ==
  ASSUME PromiseInvariant, RegistryInvariant', NEW i \in Ids, Owner(i)
  PROVE  PromiseInvariant'
<1> USE DEF PromiseInvariant, RegistryInvariant, TypeOK
<1>1. PhaseUnowned(i) /\ PhaseJoining(i) /\ PhaseResolved(i) /\ PhaseReleased(i)
  BY DEF Phases
<1>2. Told(i) /\ Evidence(i)
  OBVIOUS
<1>3. /\ UNCHANGED <<cmdq, gate, fresh, stops, waiters, listenerVars, actor, result>>
      /\ UNCHANGED <<via, sd, fence, stuck, token, deadline>>
      /\ \A j \in Ids : j # i => /\ own'[j] = own[j] /\ entry'[j] = entry[j] /\ join'[j] = join[j]
                                 /\ logical'[j] = logical[j] /\ outcome'[j] = outcome[j]
                                 /\ aborted'[j] = aborted[j] /\ pending'[j] = pending[j]
  BY DEF Owner, SweepNext, JoinExit, AbortReserve, AbortCount, CommitRemoval, Report,
         AttachTerminal, DecPending, CompleteLogical, NotifyEmpty, RemovalTypes,
         MemberTypes, ActorTypes
<1>4. \A j \in Ids : j # i => Told(j)' /\ Evidence(j)'
  BY <1>3 DEF Told, Evidence
<1>5. /\ Told(i)' /\ Evidence(i)' /\ (Untouched(i) => outcome'[i] = outcome[i])
      /\ entry'[i] # "registered" /\ entry[i] # "registered"
  <2> USE DEF RemovalTypes, MemberTypes, ActorTypes
  <2>1. CASE SweepNext(i)
    BY <1>1, <1>2, <1>3, <2>1 DEF SweepNext, Told, Evidence, PhaseJoining
  <2>2. CASE JoinExit(i)
    BY <1>1, <1>2, <1>3, <2>2 DEF JoinExit, Told, Evidence, PhaseJoining
  <2>3. CASE AbortReserve(i)
    BY <1>1, <1>2, <1>3, <2>3 DEF AbortReserve, GraceOver, Told, Evidence, PhaseJoining
  <2>4. CASE AbortCount(i)
    BY <1>1, <1>2, <1>3, <2>4 DEF AbortCount, Told, Evidence, PhaseJoining
  <2>5. CASE CommitRemoval(i)
    BY <1>1, <1>2, <1>3, <2>5 DEF CommitRemoval, Told, Evidence, PhaseResolved
  <2>6. CASE Report(i)
    BY <1>1, <1>2, <1>3, <2>6 DEF Report, Told, Evidence, PhaseResolved, Untouched
  <2>7. CASE AttachTerminal(i)
    BY <1>1, <1>2, <1>3, <2>7 DEF AttachTerminal, Told, Evidence, PhaseResolved
  <2>8. CASE DecPending(i)
    BY <1>1, <1>2, <1>3, <2>8 DEF DecPending, Told, Evidence, PhaseReleased
  <2>9. CASE CompleteLogical(i)
    BY <1>1, <1>2, <1>3, <2>9 DEF CompleteLogical, Told, Evidence, PhaseReleased
  <2>10. CASE NotifyEmpty(i)
    BY <1>1, <1>2, <1>3, <2>10 DEF NotifyEmpty, Told, Evidence, PhaseReleased
  <2> QED
    BY <2>1, <2>2, <2>3, <2>4, <2>5, <2>6, <2>7, <2>8, <2>9, <2>10 DEF Owner
<1>6. \A j \in Ids : Decided(j)'
  BY <1>3, <1>5, DecidedFrame
<1>7. /\ pending'[i] <= pending[i] /\ forced \subseteq forced'
      /\ ~token /\ join'[i] = "forced" /\ via[i] = "sweep" => i \in forced'
      /\ Drained => forced' = forced
  <2>1. mode = "sweep" => token
    BY DEF Course
  <2>2. pending[i] = 1 \/ UNCHANGED <<pending, forced>>
    BY DEF Owner, SweepNext, JoinExit, AbortReserve, AbortCount, CommitRemoval, Report,
           AttachTerminal, DecPending, CompleteLogical, NotifyEmpty, Phases
  <2>3. ~Drained \/ UNCHANGED <<pending, forced>>
    BY <2>2 DEF Drained
  <2>4. pending'[i] \in {0, 1}
    BY DEF Phases
  <2>5. forced \subseteq forced'
    BY DEF Owner, SweepNext, JoinExit, AbortReserve, AbortCount, CommitRemoval, Report,
           AttachTerminal, DecPending, CompleteLogical, NotifyEmpty
  <2>6. ~token /\ join'[i] = "forced" /\ via[i] = "sweep" => i \in forced'
    <3>1. CASE AbortReserve(i)
      BY <2>1, <3>1 DEF AbortReserve
    <3>2. CASE JoinExit(i)
      BY <3>2 DEF JoinExit, RemovalTypes
    <3>3. CASE ~AbortReserve(i) /\ ~JoinExit(i)
      BY <2>5, <3>3 DEF Owner, SweepNext, AbortCount, CommitRemoval, Report,
             AttachTerminal, DecPending, CompleteLogical, NotifyEmpty, Course
    <3> QED
      BY <3>1, <3>2, <3>3
  <2>7. pending'[i] <= pending[i]
    BY <2>2, <2>4 DEF Phases
  <2> QED
    BY <2>3, <2>5, <2>6, <2>7
<1>8. Course'
  <2>1. NoneRegistered => NoneRegistered'
    BY <1>3, <1>5 DEF NoneRegistered
  <2>2. Drained => Drained'
    <3>1. pending[i] = 1 \/ UNCHANGED pending
      BY DEF Owner, SweepNext, JoinExit, AbortReserve, AbortCount, CommitRemoval, Report,
             AttachTerminal, DecPending, CompleteLogical, NotifyEmpty, Phases
    <3> QED
      BY <3>1 DEF Drained
  <2>3. \A j \in Ids : ~token /\ join'[j] = "forced" /\ via[j] = "sweep" => j \in forced'
    BY <1>3, <1>7 DEF Course
  <2> QED
    BY <1>3, <1>7, <2>1, <2>2, <2>3 DEF Course
<1> QED
  BY <1>4, <1>5, <1>6, <1>8

\* So does a step of the reaper or of i's actor task: neither tells anybody
\* anything, and an unaborted task reaches its exit past its result.
LEMMA TaskPromise ==
  ASSUME PromiseInvariant, RegistryInvariant', NEW i \in Ids, Reaper(i) \/ Actor(i)
  PROVE  PromiseInvariant'
<1> USE DEF PromiseInvariant, RegistryInvariant, TypeOK
<1>1. /\ UNCHANGED <<callerVars, mode, lpc, batch, shutdownVars, memberVars, removalVars, aborted>>
      /\ \A j \in Ids : j # i => actor'[j] = actor[j] /\ result'[j] = result[j]
      /\ actor[i] # "none" => actor'[i] # "none"
      /\ actor[i] = "none" => actor'[i] = "none"
      /\ result[i] => result'[i]
      /\ actor'[i] \in {"sent", "tail"} => result'[i]
      /\ actor'[i] = "gone" => result'[i] \/ aborted[i]
  <2> USE DEF ActorTypes, Evidence
  <2>1. CASE Reaper(i)
    BY <2>1 DEF Reaper, Reap, SubmitReady
  <2>2. CASE Actor(i)
    BY <2>2 DEF Actor, ActorStep, StartAttempt, EndAttempt, SendResult, SendCompletion, TaskExit,
       DropAborted
  <2> QED
    BY <2>1, <2>2
<1>2. \A j \in Ids : Told(j)'
  BY <1>1 DEF Told
<1>3. \A j \in Ids : Evidence(j)'
  BY <1>1 DEF Evidence
<1>4. \A j \in Ids : Decided(j)'
  BY <1>1, DecidedFrame
<1>5. Course'
  BY <1>1 DEF Course, NoneRegistered, Drained
<1> QED
  BY <1>2, <1>3, <1>4, <1>5

\* A submitted command keeps the promises: an add moves its identities from
\* the caller to the queue.
LEMMA CallersPromise ==
  ASSUME PromiseInvariant, RegistryInvariant', Callers
  PROVE  PromiseInvariant'
<1> USE DEF PromiseInvariant, RegistryInvariant, TypeOK
<1>1. /\ UNCHANGED <<listenerVars, shutdownVars, memberVars, removalVars, actorVars, reaperVars>>
      /\ gate = "open" /\ UNCHANGED <<gate, waiters>>
  BY DEF Callers, SubmitAdd, SubmitStop, Commit
<1>2. PICK c : /\ cmdq' = Append(cmdq, c)
               /\ \/ c.op = "add" /\ c.ids \subseteq fresh /\ fresh' = fresh \ c.ids
                  \/ c.op # "add" /\ fresh' = fresh
  <2>1. CASE \E B \in SUBSET Ids : SubmitAdd(B)
    BY <2>1 DEF SubmitAdd, Commit
  <2>2. CASE \E op \in StopOps, i \in Ids \ fresh : SubmitStop([op |-> op, id |-> i])
    BY <2>2 DEF SubmitStop, Commit, StopOps
  <2>3. CASE \E op \in StopOps, n \in Names : SubmitStop([op |-> op, name |-> n])
    BY <2>3 DEF SubmitStop, Commit, StopOps
  <2> QED
    BY <2>1, <2>2, <2>3 DEF Callers
<1>3. /\ Len(cmdq') = Len(cmdq) + 1 /\ Len(cmdq) \in Nat
      /\ \A k \in 1..Len(cmdq) : cmdq'[k] = cmdq[k]
      /\ cmdq'[Len(cmdq) + 1] = c
  BY <1>2 DEF CallerTypes
<1>4. \A i \in Ids : Told(i)' /\ Evidence(i)'
  BY <1>1 DEF Told, Evidence
<1>5. ASSUME NEW i \in Ids
      PROVE  Decided(i)'
  <2>1. Queued(i) => Queued(i)'
    BY <1>3 DEF Queued, IsAdd
  <2>2. Queued(i)' => Queued(i) \/ i \in fresh
    BY <1>2, <1>3 DEF Queued, IsAdd
  <2>3. i \in fresh => i \in fresh' \/ Queued(i)'
    BY <1>2, <1>3 DEF Queued, IsAdd
  <2>4. fresh' \subseteq fresh
    BY <1>2
  <2> QED
    BY <1>1, <2>1, <2>2, <2>3, <2>4 DEF Decided, InHand
<1>6. Course'
  BY <1>1 DEF Course, NoneRegistered, Drained
<1> QED
  BY <1>4, <1>5, <1>6

\* Taking an add leaves the rest of the queue queued.
LEMMA QueuedTake ==
  ASSUME RegistryInvariant, cmdq # <<>>, cmdq' = Tail(cmdq), NEW i \in Ids
  PROVE  /\ Queued(i)' => Queued(i)
         /\ Queued(i) => Queued(i)' \/ (Head(cmdq).op = "add" /\ i \in Head(cmdq).ids)
         /\ Queued(i)' /\ Head(cmdq).op = "add" => i \notin Head(cmdq).ids
<1>1. /\ Len(cmdq) \in Nat \ {0} /\ Len(cmdq') = Len(cmdq) - 1
      /\ \A k \in 1..Len(cmdq') : k + 1 \in 1..Len(cmdq) /\ cmdq'[k] = cmdq[k + 1]
      /\ Head(cmdq) = cmdq[1]
  BY DEF RegistryInvariant, TypeOK, CallerTypes
<1>2. Queued(i)' => \E k \in 1..Len(cmdq) : k # 1 /\ IsAdd(k) /\ i \in cmdq[k].ids
  BY <1>1 DEF Queued, IsAdd
<1>3. ASSUME Queued(i), ~(Head(cmdq).op = "add" /\ i \in Head(cmdq).ids)
      PROVE  Queued(i)'
  <2>1. PICK k \in 1..Len(cmdq) : IsAdd(k) /\ i \in cmdq[k].ids
    BY <1>3 DEF Queued
  <2>2. k # 1 /\ k - 1 \in 1..Len(cmdq') /\ cmdq'[k - 1] = cmdq[k]
    BY <1>1, <1>3, <2>1 DEF IsAdd
  <2> QED
    BY <2>1, <2>2 DEF Queued, IsAdd
<1> QED
  BY <1>1, <1>2, <1>3 DEF RegistryInvariant, Queue, Queued, IsAdd

\* The listener's admission steps keep the promises: every identity it takes
\* is rejected, without a trace, or ends up with an actor.
LEMMA AdmissionPromise ==
  ASSUME PromiseInvariant, RegistryInvariant', LTakeAdd \/ LInsert \/ LSpawn \/ LOpen
  PROVE  PromiseInvariant'
<1> USE DEF PromiseInvariant, RegistryInvariant, TypeOK
<1>0. UNCHANGED <<gate, fresh, stops, waiters, mode, doneq, shutdownVars, reaperVars>>
  BY DEF LTakeAdd, LInsert, LSpawn, LOpen
<1>1. CASE LTakeAdd
  <2> DEFINE B == Head(cmdq).ids
  <2>1. /\ lpc = "idle" /\ cmdq # <<>> /\ Head(cmdq).op = "add" /\ cmdq' = Tail(cmdq)
        /\ mode \in {"run", "fence", "final"}
        /\ UNCHANGED <<memberVars, actorVars, pending, own, via, join, logical>>
    BY <1>1 DEF LTakeAdd, Taking, Reject
  <2>2. \/ /\ lpc' = lpc /\ batch' = batch
           /\ outcome' = [i \in Ids |-> IF i \in B THEN "rejected" ELSE outcome[i]]
        \/ lpc' = "checked" /\ batch' = B /\ outcome' = outcome
    BY <1>1 DEF LTakeAdd, Reject, SetAll, RemovalTypes
  <2>3. \A i \in Ids : i \in B => Untouched(i) /\ Queued(i)
    <3>1. 1 \in 1..Len(cmdq) /\ Head(cmdq) = cmdq[1] /\ IsAdd(1)
      BY <2>1 DEF CallerTypes, IsAdd
    <3> QED
      BY <3>1 DEF Queue, Queued
  <2>4. batch = {}
    BY <2>1 DEF Admitting
  <2>5. ASSUME NEW i \in Ids PROVE Told(i)' /\ Evidence(i)'
    BY <1>0, <2>1, <2>2, <2>3 DEF Told, Evidence, Untouched
  <2>6. ASSUME NEW i \in Ids PROVE Decided(i)'
    <3>1. /\ Queued(i)' => Queued(i) /\ i \notin B
          /\ Queued(i) => Queued(i)' \/ i \in B
      BY <2>1, QueuedTake
    <3>2. i \in B => i \notin fresh
      BY <2>1, <2>3 DEF Queue, Queued
    <3>3. CASE i \in B
      BY <1>0, <2>1, <2>2, <2>3, <2>4, <3>1, <3>2, <3>3 DEF Decided, InHand
    <3>4. CASE i \notin B
      BY <1>0, <2>1, <2>2, <2>4, <3>1, <3>4 DEF Decided, InHand
    <3> QED
      BY <3>3, <3>4
  <2>7. Course'
    BY <1>0, <2>1 DEF Course, NoneRegistered, Drained
  <2> QED
    BY <2>5, <2>6, <2>7
<1>2. CASE LInsert /\ (Conflicts(batch) \/ OverLimit(batch))
  <2>1. /\ lpc' = "idle" /\ batch' = {} /\ lpc = "checked"
        /\ outcome' = [i \in Ids |-> IF i \in batch THEN "rejected" ELSE outcome[i]]
        /\ UNCHANGED <<cmdq, memberVars, actorVars, pending, own, via, join, logical>>
    BY <1>2 DEF LInsert, Reject, SetAll, RemovalTypes
  <2>2. \A i \in batch : Untouched(i) /\ i \notin fresh /\ ~Queued(i)
    BY <2>1 DEF Admitting, Queue, Queued
  <2>3. ASSUME NEW i \in Ids PROVE Told(i)' /\ Evidence(i)'
    BY <1>0, <2>1, <2>2 DEF Told, Evidence, Untouched
  <2>4. ASSUME NEW i \in Ids PROVE Decided(i)'
    <3>1. Queued(i)' <=> Queued(i)
      BY <2>1 DEF Queued, IsAdd
    <3> QED
      BY <1>0, <2>1, <2>2, <3>1 DEF Decided, InHand
  <2>5. Course'
    BY <1>0, <2>1 DEF Course, NoneRegistered, Drained
  <2> QED
    BY <2>3, <2>4, <2>5
<1>3. CASE LInsert /\ ~(Conflicts(batch) \/ OverLimit(batch))
  <2>1. /\ entry' = [i \in Ids |-> IF i \in batch THEN "registered" ELSE entry[i]]
        /\ lpc = "checked" /\ lpc' = "inserted"
        /\ UNCHANGED <<cmdq, batch, removalVars, actorVars>>
    BY <1>3 DEF LInsert, SetAll, MemberTypes
  <2>2. ASSUME NEW i \in Ids PROVE Told(i)' /\ Evidence(i)'
    BY <1>0, <2>1 DEF Told, Evidence, Decided, InHand
  <2>3. ASSUME NEW i \in Ids PROVE Decided(i)'
    <3>1. Queued(i)' <=> Queued(i)
      BY <2>1 DEF Queued, IsAdd
    <3> QED
      BY <1>0, <2>1, <3>1 DEF Decided, InHand
  <2>4. Course'
    BY <1>0, <2>1 DEF Course, NoneRegistered, Drained, Fenced
  <2> QED
    BY <2>2, <2>3, <2>4
<1>4. CASE LSpawn \/ LOpen
  <2>1. /\ UNCHANGED <<cmdq, memberVars, removalVars, result, aborted>>
        /\ lpc \in {"inserted", "spawned"} /\ lpc' \in {"spawned", "idle"}
        /\ \A i \in Ids : /\ actor[i] # "none" => actor'[i] # "none"
                          /\ actor'[i] = actor[i] \/ actor'[i] \in {"gated", "live"}
                          /\ InHand(i) => actor'[i] # "none"
                          /\ actor[i] = "none" /\ ~InHand(i) => actor'[i] = "none"
    BY <1>4 DEF LSpawn, LOpen, SetAll, ActorTypes, InHand, ListenerTypes
  <2>2. \A i \in Ids : InHand(i) => entry[i] # "absent"
    BY <2>1 DEF Admitting, InHand
  <2>3. ASSUME NEW i \in Ids PROVE Told(i)' /\ Evidence(i)'
    BY <1>0, <2>1, <2>2 DEF Told, Evidence
  <2>4. ASSUME NEW i \in Ids PROVE Decided(i)'
    <3>1. Queued(i)' <=> Queued(i)
      BY <2>1 DEF Queued, IsAdd
    <3> QED
      BY <1>0, <2>1, <3>1 DEF Decided, InHand
  <2>5. Course'
    BY <1>0, <2>1 DEF Course, NoneRegistered, Drained
  <2> QED
    BY <2>3, <2>4, <2>5
<1> QED
  BY <1>1, <1>2, <1>3, <1>4

\* A claim of registered members keeps what each identity was told.
LEMMA ClaimPromise ==
  ASSUME PromiseInvariant, NEW S, NEW C, NEW v, NEW s \in {"queued", "join"},
         Claim(S, v, s, C), UNCHANGED <<actorVars, reaperVars>>, waiters' \subseteq waiters \cup Members,
         \A i \in waiters' \ waiters : entry[i] = "registered" => i \in S,
         \A i \in S : entry[i] = "registered", S \subseteq Ids
  PROVE  /\ \A i \in Ids : Told(i)' /\ Evidence(i)'
         /\ NoneRegistered => S = {} /\ UNCHANGED <<entry, pending>>
         /\ NoneRegistered => NoneRegistered'
         /\ \A i \in Ids : join'[i] = "forced" /\ via'[i] = "sweep"
                             => join[i] = "forced" /\ via[i] = "sweep"
<1> USE DEF PromiseInvariant, RegistryInvariant, TypeOK, Claim, SetAll, MemberTypes, RemovalTypes
<1>1. \A i \in S : own[i] = "none" /\ own'[i] = s
  BY DEF Phases, PhaseJoining, PhaseResolved, PhaseReleased, OwnState
<1>2. \A i \in Ids \ S : own'[i] = own[i] /\ entry'[i] = entry[i] /\ via'[i] = via[i]
  OBVIOUS
<1>3. UNCHANGED <<join, logical, outcome, actorVars>>
  OBVIOUS
<1>4. \A i \in waiters' : own'[i] # "none"
  <2> SUFFICES ASSUME NEW i \in Ids, i \in waiters', i \notin S PROVE own[i] # "none"
    BY <1>1, <1>2 DEF Members, Told, CallerTypes
  <2>1. i \in waiters \/ entry[i] = "removing"
    BY DEF Members, EntryState
  <2> QED
    BY <2>1 DEF Told, Phases, PhaseUnowned
<1>5. ASSUME NEW i \in Ids PROVE Told(i)' /\ Evidence(i)'
  <2> HIDE DEF Claim
  <2>0. Told(i) /\ Evidence(i)
    OBVIOUS
  <2>1. CASE i \in S
    <3>1. own[i] = "none" /\ own'[i] \in {"queued", "join"} /\ entry[i] = "registered"
      BY <1>1, <2>1
    <3> QED
      BY <1>3, <2>0, <3>1 DEF Told, Evidence
  <2>2. CASE i \notin S
    <3>1. own'[i] = own[i] /\ entry'[i] = entry[i] /\ via'[i] = via[i]
      BY <1>2, <2>2
    <3> QED
      BY <1>3, <1>4, <2>0, <3>1 DEF Told, Evidence
  <2> QED
    BY <2>1, <2>2
<1>6. NoneRegistered => S = {} /\ UNCHANGED <<entry, pending>>
  BY DEF NoneRegistered
<1>7. NoneRegistered => NoneRegistered'
  BY <1>6 DEF NoneRegistered
<1>8. \A i \in S : join[i] = "none"
  BY <1>1 DEF Evidence
<1> QED
  BY <1>2, <1>3, <1>5, <1>6, <1>7, <1>8

\* The listener's claims keep the promises: a cancel caller is given the
\* completion of a removal that is under way once the command is decided.
LEMMA ListenerClaimPromise ==
  ASSUME PromiseInvariant, RegistryInvariant', LStop \/ LSweep \/ \E i \in Ids : LCompletion(i)
  PROVE  PromiseInvariant'
<1> USE DEF PromiseInvariant, RegistryInvariant, TypeOK
<1>1. CASE LStop
  <2> DEFINE c == Head(cmdq)
             S == Claimable(Target(c))
  <2>1. /\ Claim(S, "detached", "join", S) /\ S \subseteq Ids /\ \A i \in S : entry[i] = "registered"
        /\ UNCHANGED <<gate, fresh, stops, listenerVars, shutdownVars, actorVars, reaperVars>>
        /\ cmdq # <<>> /\ cmdq' = Tail(cmdq) /\ c.op # "add"
        /\ lpc = "idle" /\ mode \in {"run", "fence", "final"}
    <3>1. Target(c) \subseteq Ids
      <4>1. c \in Command /\ c.op \in StopOps
        BY <1>1 DEF LStop, Taking, CallerTypes
      <4>2. c \in [op : StopOps, id : Ids] \/ c \in [op : StopOps, name : Names]
        BY <4>1 DEF Command, StopOps
      <4> QED
        BY <4>2 DEF Target, MemberTypes
    <3> QED
      BY <1>1, <3>1 DEF LStop, Taking, Claimable, StopOps
  <2>2. waiters' \subseteq waiters \cup (Target(c) \cap Members)
    BY <1>1 DEF LStop
  <2>3. \A i \in waiters' \ waiters : entry[i] = "registered" => i \in S
    BY <2>2 DEF Claimable
  <2> HIDE DEF S, c
  <2>4. /\ \A i \in Ids : Told(i)' /\ Evidence(i)'
        /\ NoneRegistered => NoneRegistered' /\ UNCHANGED pending
        /\ \A i \in Ids : join'[i] = "forced" /\ via'[i] = "sweep"
                            => join[i] = "forced" /\ via[i] = "sweep"
    BY <2>1, <2>2, <2>3, ClaimPromise
  <2>5. UNCHANGED outcome
    BY <2>1 DEF Claim
  <2>6. ASSUME NEW i \in Ids PROVE Decided(i)'
    <3>1. Queued(i)' <=> Queued(i)
      BY <2>1, QueuedTake DEF c
    <3> QED
      BY <2>1, <2>5, <3>1 DEF Decided, InHand
  <2>7. Course'
    BY <2>1, <2>4 DEF Course, Drained, Fenced
  <2> QED
    BY <2>4, <2>6, <2>7
<1>2. CASE LSweep
  <2> DEFINE S == Claimable(Ids)
  <2>1. /\ Claim(S, "sweep", "queued", S) /\ S \subseteq Ids /\ \A i \in S : entry[i] = "registered"
        /\ UNCHANGED <<callerVars, lpc, batch, actorVars, reaperVars, sd, forced, stuck, token>>
        /\ lpc = "idle" /\ mode = "final" /\ mode' = "sweep" /\ cmdq = <<>>
        /\ fence = "acked" => fence' = "acked"
    BY <1>2 DEF LSweep, Claimable
  <2>2. NoneRegistered'
    BY <2>1 DEF Claim, SetAll, MemberTypes, Claimable, NoneRegistered
  <2> HIDE DEF S
  <2>3. /\ \A i \in Ids : Told(i)' /\ Evidence(i)'
        /\ NoneRegistered => UNCHANGED pending
        /\ \A i \in Ids : join'[i] = "forced" /\ via'[i] = "sweep"
                            => join[i] = "forced" /\ via[i] = "sweep"
    BY <2>1, ClaimPromise
  <2>4. UNCHANGED outcome
    BY <2>1 DEF Claim
  <2>5. ASSUME NEW i \in Ids PROVE Decided(i)'
    BY <2>1, <2>4, DecidedFrame
  <2>6. Course'
    BY <2>1, <2>2, <2>3 DEF Course, Drained
  <2> QED
    BY <2>3, <2>5, <2>6
<1>3. ASSUME NEW i \in Ids, LCompletion(i)
      PROVE  PromiseInvariant'
  <2> DEFINE S == Claimable({i})
             v == IF S # {} /\ result[i] THEN "inline" ELSE "detached"
  <2>1. /\ Claim(S, v, "join", {}) /\ S \subseteq Ids /\ \A j \in S : entry[j] = "registered"
        /\ UNCHANGED <<callerVars, mode, shutdownVars, actorVars, reaperVars>>
        /\ lpc = "idle" /\ mode = "run" /\ lpc' \in {"idle", "inline"}
    BY <1>3 DEF LCompletion, Claimable
  <2> HIDE DEF S, v
  <2>2. /\ \A j \in Ids : Told(j)' /\ Evidence(j)'
        /\ NoneRegistered => NoneRegistered' /\ UNCHANGED pending
        /\ \A j \in Ids : join'[j] = "forced" /\ via'[j] = "sweep"
                            => join[j] = "forced" /\ via[j] = "sweep"
    BY <2>1, ClaimPromise
  <2>3. UNCHANGED outcome
    BY <2>1 DEF Claim
  <2>4. ASSUME NEW j \in Ids PROVE Decided(j)'
    <3>1. Queued(j)' <=> Queued(j)
      BY <2>1 DEF Queued, IsAdd
    <3> QED
      BY <2>1, <2>3, <3>1 DEF Decided, InHand
  <2>5. Course'
    BY <2>1, <2>2 DEF Course, Drained
  <2> QED
    BY <2>2, <2>4, <2>5
<1> QED
  BY <1>1, <1>2, <1>3

\* The listener's other steps keep the promises.
LEMMA ListenerLoopPromise ==
  ASSUME PromiseInvariant, RegistryInvariant',
         \/ LInlineDone \/ LFenceTake \/ LFenceReply \/ LBreak \/ LSweepDone \/ LEnd
  PROVE  PromiseInvariant'
<1> USE DEF PromiseInvariant, LInlineDone, LFenceTake, LFenceReply, LBreak, LSweepDone, LEnd
<1>1. /\ UNCHANGED <<callerVars, memberVars, removalVars, actorVars, reaperVars>>
      /\ UNCHANGED <<sd, deadline, forced, stuck, token>>
  OBVIOUS
<1>2. \A i \in Ids : Told(i)' /\ Evidence(i)'
  BY <1>1 DEF Told, Evidence
<1>3. ASSUME NEW i \in Ids PROVE Decided(i)'
  <2>1. Queued(i)' <=> Queued(i)
    BY <1>1 DEF Queued, IsAdd
  <2>2. InHand(i)' <=> InHand(i)
    BY DEF InHand
  <2>3. InHand(i) => lpc' = lpc
    BY DEF InHand
  <2> QED
    BY <1>1, <2>1, <2>2, <2>3 DEF Decided
<1>4. Course'
  <2>1. (NoneRegistered' <=> NoneRegistered) /\ (Drained' <=> Drained)
    BY <1>1 DEF NoneRegistered, Drained
  <2> QED
    BY <1>1, <2>1 DEF Course
<1> QED
  BY <1>2, <1>3, <1>4

\* A step of the shutdown drain keeps the promises.
LEMMA ShutdownPromise ==
  ASSUME PromiseInvariant, RegistryInvariant', Shutdown
  PROVE  PromiseInvariant'
<1> USE DEF PromiseInvariant, RegistryInvariant, TypeOK
<1>1. CASE SdSweep
  <2> DEFINE S == Claimable(Ids)
  <2>1. /\ Claim(S, "sweep", "queued", S) /\ S \subseteq Ids /\ \A i \in S : entry[i] = "registered"
        /\ UNCHANGED <<callerVars, listenerVars, actorVars, reaperVars, fence, forced, stuck, token>>
        /\ sd = "fencing" /\ sd' = "sweeping" /\ fence = "acked"
    BY <1>1 DEF SdSweep, Claimable
  <2>2. NoneRegistered'
    BY <2>1 DEF Claim, SetAll, MemberTypes, Claimable, NoneRegistered
  <2> HIDE DEF S
  <2>3. /\ \A i \in Ids : Told(i)' /\ Evidence(i)'
        /\ NoneRegistered => UNCHANGED pending
        /\ \A i \in Ids : join'[i] = "forced" /\ via'[i] = "sweep"
                            => join[i] = "forced" /\ via[i] = "sweep"
    BY <2>1, ClaimPromise
  <2>4. UNCHANGED outcome
    BY <2>1 DEF Claim
  <2>5. ASSUME NEW i \in Ids PROVE Decided(i)'
    BY <2>1, <2>4, DecidedFrame
  <2>6. Course'
    BY <2>1, <2>2, <2>3 DEF Course, Drained
  <2> QED
    BY <2>3, <2>5, <2>6
<1>2. CASE Shutdown /\ ~SdSweep
  <2> USE <1>2 DEF Shutdown, SdFence, SdSkip, SdDeadline, SdVerdict, SdCancelToken, SdJoin, Abandon
  <2>1. /\ UNCHANGED <<cmdq, fresh, stops, waiters, listenerVars, memberVars>>
        /\ UNCHANGED <<removalVars, actorVars, reaperVars>>
    OBVIOUS
  <2>2. \A i \in Ids : Told(i)' /\ Evidence(i)'
    BY <2>1 DEF Told, Evidence
  <2>3. ASSUME NEW i \in Ids PROVE Decided(i)'
    BY <2>1, DecidedFrame
  <2>4. (NoneRegistered' <=> NoneRegistered) /\ (Drained' <=> Drained)
    BY <2>1 DEF NoneRegistered, Drained
  <2>5. CASE SdVerdict
    <3>1. stuck' = {} => forced = {} /\ Drained
      BY <2>5 DEF Drained, RemovalTypes
    <3> QED
      BY <2>1, <2>2, <2>3, <2>4, <2>5, <3>1 DEF Course
  <2>6. CASE ~SdVerdict
    <3>1. Course'
      BY <2>1, <2>4, <2>6 DEF Course
    <3> QED
      BY <2>2, <2>3, <3>1
  <2> QED
    BY <2>5, <2>6
<1> QED
  BY <1>1, <1>2

\* Every step keeps the promises.
LEMMA NextPromise == PromiseInvariant /\ [Next]_vars => PromiseInvariant'
<1> SUFFICES ASSUME PromiseInvariant, [Next]_vars
             PROVE  PromiseInvariant'
  OBVIOUS
<1>0. RegistryInvariant'
  BY NextInv DEF PromiseInvariant
<1>1. CASE Callers
  BY <1>0, <1>1, CallersPromise
<1>2. CASE Listener
  BY <1>0, <1>2, AdmissionPromise, ListenerClaimPromise, ListenerLoopPromise DEF Listener
<1>3. CASE Shutdown
  BY <1>0, <1>3, ShutdownPromise
<1>4. CASE \E i \in Ids : Owner(i) \/ Reaper(i) \/ Actor(i)
  BY <1>0, <1>4, OwnerPromise, TaskPromise
<1>5. CASE UNCHANGED vars
  BY <1>0, <1>5 DEF vars, PromiseInvariant, Told, Evidence, Decided, Queued, InHand, IsAdd,
     Course, NoneRegistered, Drained
<1> QED
  BY <1>1, <1>2, <1>3, <1>4, <1>5 DEF Next, Terminated

\* What callers rely on holds of every behaviour of the registry.
THEOREM PromisesKept == Spec => []PromiseInvariant
BY InitPromise, NextPromise, PTL DEF Spec

\* A completed latch means what its waiters take it to mean, and a cancel
\* caller still waiting has an owner at work on its latch.
THEOREM LatchesAreHonest == Spec => []LatchesHonest
<1>1. PromiseInvariant => LatchesHonest
  <2> SUFFICES ASSUME PromiseInvariant, NEW i \in Ids
               PROVE  /\ logical[i] => entry[i] = "absent" /\ outcome[i] # "none" /\ pending[i] = 0
                      /\ physical[i] => /\ actor[i] = "gone" /\ i \notin reserved[NameOf[i]]
                                        /\ handing[i] = "none"
                      /\ i \in waiters /\ ~logical[i] => own[i] \notin {"none", "done"}
    BY DEF LatchesHonest
  <2>1. /\ PhaseUnowned(i) /\ PhaseJoining(i) /\ PhaseResolved(i) /\ PhaseReleased(i) /\ Told(i)
        /\ pending[i] = IF own[i] \in {"none"} \cup Discharged THEN 0 ELSE 1
    BY DEF PromiseInvariant, RegistryInvariant, Phases
  <2>2. own[i] \in OwnState /\ NameOf[i] \in Names
    BY NamesAssumption DEF PromiseInvariant, RegistryInvariant, TypeOK, RemovalTypes
  <2>3. i \in reserved[NameOf[i]] => rec[i] # "none"
    BY <2>2 DEF PromiseInvariant, RegistryInvariant, Indexes
  <2> QED
    BY <2>1, <2>2, <2>3 DEF Told, PhaseUnowned, PhaseJoining, PhaseResolved, PhaseReleased, OwnState
<1> QED
  BY <1>1, PromisesKept, PTL

\* What a watcher is told is true of the actor.
THEOREM OutcomesAreHonest == Spec => []OutcomeHonest
<1>1. PromiseInvariant => OutcomeHonest
  <2> SUFFICES ASSUME PromiseInvariant, NEW i \in Ids
               PROVE  /\ outcome[i] = "rejected" => actor[i] = "none" /\ entry[i] = "absent"
                      /\ outcome[i] = "exit" => actor[i] = "gone" /\ result[i] /\ ~aborted[i]
                      /\ outcome[i] = "aborted" => aborted[i]
    BY DEF OutcomeHonest
  <2>1. Told(i) /\ Evidence(i) /\ PhaseResolved(i) /\ PhaseReleased(i)
    BY DEF PromiseInvariant, RegistryInvariant, Phases
  <2>2. own[i] \in OwnState
    BY DEF PromiseInvariant, RegistryInvariant, TypeOK, RemovalTypes
  <2> QED
    BY <2>1, <2>2 DEF Told, Evidence, PhaseResolved, PhaseReleased, OwnState
<1> QED
  BY <1>1, PromisesKept, PTL

\* What shutdown concludes from the fence, from its drain and from the end of
\* the listener is so: every submitted task was told its outcome, whether or
\* not its owner has come to the cancel callers' latch.
THEOREM VerdictsAreSound == Spec => []VerdictSound
<1>1. PromiseInvariant => VerdictSound
  <2> SUFFICES ASSUME PromiseInvariant PROVE VerdictSound
    OBVIOUS
  <2> USE DEF PromiseInvariant, RegistryInvariant, TypeOK
  <2>1. ASSUME fence = "acked"
        PROVE  /\ cmdq = <<>> /\ lpc \in {"idle", "inline"}
               /\ \A i \in Ids \ fresh : outcome[i] = "rejected" \/ actor[i] # "none"
    BY <2>1 DEF Fenced, Decided, Queued, InHand
  <2>2. ASSUME Drained, NoneRegistered, cmdq = <<>>, lpc \in {"idle", "inline"}
        PROVE  /\ Members = {} /\ \A i \in Ids : own[i] \in {"none"} \cup Discharged
               /\ \A i \in Ids \ fresh : outcome[i] # "none"
    <3>1. \A i \in Ids : own[i] \in {"none"} \cup Discharged
      BY <2>2 DEF Drained, Phases
    <3>2. Members = {}
      BY <2>2, <3>1 DEF NoneRegistered, Members, Phases, PhaseUnowned, PhaseReleased
    <3>3. ASSUME NEW i \in Ids \ fresh PROVE outcome[i] # "none"
      <4>1. CASE own[i] = "none"
        <5>1. actor[i] = "none"
          BY <3>2, <4>1 DEF Phases, PhaseUnowned, Members
        <5> QED
          BY <2>2, <5>1 DEF Decided, Queued, InHand
      <4>2. CASE own[i] \in Discharged
        BY <4>2 DEF Told
      <4> QED
        BY <3>1, <4>1, <4>2
    <3> QED
      BY <3>1, <3>2, <3>3
  <2>3. ASSUME sd = "drained", stuck = {}
        PROVE  /\ Members = {} /\ Drained /\ cmdq = <<>>
               /\ \A i \in Ids \ fresh : outcome[i] # "none"
               /\ \A i \in Ids : Alive(i) => aborted[i] /\ via[i] = "detached"
    <3>1. Drained /\ NoneRegistered /\ forced = {} /\ ~token /\ fence = "acked"
      BY <2>3 DEF Course
    <3>2. cmdq = <<>> /\ lpc \in {"idle", "inline"}
      BY <2>1, <3>1
    <3>3. /\ Members = {} /\ \A i \in Ids : own[i] \in {"none"} \cup Discharged
          /\ \A i \in Ids \ fresh : outcome[i] # "none"
      BY <2>2, <3>1, <3>2
    <3>4. ASSUME NEW i \in Ids, Alive(i) PROVE aborted[i] /\ via[i] = "detached"
      <4>1. PhaseUnowned(i) /\ PhaseReleased(i) /\ Evidence(i) /\ entry[i] = "absent"
        BY <3>3 DEF Phases, Members
      <4>2. own[i] \in Discharged /\ aborted[i]
        BY <3>3, <3>4, <4>1 DEF PhaseUnowned, PhaseReleased, Alive
      <4>3. join[i] = "forced" /\ via[i] \in {"detached", "sweep"}
        BY <4>1, <4>2 DEF Evidence
      <4> QED
        BY <3>1, <4>2, <4>3 DEF Course
    <3> QED
      BY <3>1, <3>2, <3>3, <3>4
  <2>4. ASSUME mode = "ended"
        PROVE  /\ Members = {} /\ Drained /\ cmdq = <<>>
               /\ \A i \in Ids \ fresh : outcome[i] # "none"
    BY <2>2, <2>4 DEF Course
  <2> QED
    BY <2>1, <2>3, <2>4 DEF VerdictSound
<1> QED
  BY <1>1, PromisesKept, PTL

\* No step retracts or changes a delivered outcome: admission rejects only
\* what is undecided, and a removal reports once.
LEMMA OutcomeKept ==
  ASSUME PromiseInvariant, [Next]_vars, NEW i \in Ids, outcome[i] # "none"
  PROVE  outcome'[i] = outcome[i]
<1> USE DEF PromiseInvariant, RegistryInvariant, TypeOK, RemovalTypes
<1>1. CASE LTakeAdd
  <2>1. 1 \in 1..Len(cmdq) /\ Head(cmdq) = cmdq[1] /\ IsAdd(1)
    BY <1>1 DEF LTakeAdd, Taking, CallerTypes, IsAdd
  <2>2. i \notin Head(cmdq).ids
    BY <2>1 DEF Decided, Queued
  <2> QED
    BY <1>1, <2>2 DEF LTakeAdd, Reject, SetAll
<1>2. CASE LInsert
  <2>1. i \notin batch
    BY <1>2 DEF LInsert, Decided, InHand
  <2> QED
    BY <1>2, <2>1 DEF LInsert, Reject, SetAll
<1>3. CASE \E j \in Ids : Report(j)
  BY <1>3 DEF Report, Told
<1>4. CASE Callers \/ Shutdown
  BY <1>4 DEF Callers, SubmitAdd, SubmitStop, Shutdown, SdFence, SdSweep, SdSkip, SdDeadline,
     SdVerdict, SdCancelToken, SdJoin, Abandon, Claim
<1>5. CASE Listener /\ ~LTakeAdd /\ ~LInsert
  BY <1>5 DEF Listener, LSpawn, LOpen, LStop, LCompletion, LInlineDone, LFenceTake, LFenceReply,
     LBreak, LSweep, LSweepDone, LEnd, Claim
<1>6. CASE \E j \in Ids : (Owner(j) /\ ~Report(j)) \/ Reaper(j) \/ Actor(j)
  BY <1>6 DEF Owner, SweepNext, JoinExit, AbortReserve, AbortCount, CommitRemoval, AttachTerminal,
     DecPending, CompleteLogical, NotifyEmpty, Reaper, Reap, SubmitReady, Actor, StartAttempt,
     EndAttempt, SendResult, SendCompletion, TaskExit, DropAborted
<1>7. CASE UNCHANGED vars
  BY <1>7 DEF vars
<1> QED
  BY <1>1, <1>2, <1>3, <1>4, <1>5, <1>6, <1>7 DEF Next, Terminated

\* A terminal outcome is delivered once, and its identity never becomes a
\* member again.
THEOREM OutcomesAreFinal == Spec => TerminalIsFinal
<1>1. PromiseInvariant /\ PromiseInvariant' /\ [Next]_vars
        => [\A i \in Ids : outcome[i] # "none" =>
              outcome'[i] = outcome[i] /\ entry'[i] = "absent"]_vars
  <2> SUFFICES ASSUME PromiseInvariant, PromiseInvariant', [Next]_vars,
                      NEW i \in Ids, outcome[i] # "none"
               PROVE  outcome'[i] = outcome[i] /\ entry'[i] = "absent"
    OBVIOUS
  <2>1. outcome'[i] = outcome[i]
    BY OutcomeKept
  <2>2. Told(i)' /\ PhaseResolved(i)' /\ PhaseReleased(i)' /\ own'[i] \in OwnState
    BY DEF PromiseInvariant, RegistryInvariant, Phases, TypeOK, RemovalTypes
  <2> QED
    BY <2>1, <2>2 DEF Told, PhaseResolved, PhaseReleased, OwnState
<1> QED
  BY <1>1, PromisesKept, PTL DEF Spec, TerminalIsFinal

-----------------------------------------------------------------------------
(* is_alive beside the registry.                                           *)

\* An actor without an entry is past its membership: it never regains one.
LEMMA NoReentry ==
  ASSUME RegistryInvariant, [Next]_vars, NEW i \in Ids, entry[i] = "absent", actor[i] # "none"
  PROVE  entry'[i] = "absent"
<1> USE DEF RegistryInvariant, TypeOK
<1>1. CASE lpc = "checked" /\ lpc' = "inserted"
  <2>1. i \notin batch
    BY <1>1 DEF Admitting, Untouched
  <2>2. entry' = SetAll(entry, batch, "registered") \/ entry' = entry
    BY <1>1, InsertStep DEF LInsert
  <2> QED
    BY <2>1, <2>2 DEF SetAll, MemberTypes
<1>2. CASE ~(lpc = "checked" /\ lpc' = "inserted")
  BY <1>2, MembersOnlyByInsert
<1> QED
  BY <1>1, <1>2

\* At most one identity of a name has an existing actor, and it is owned.
LEMMA OneAlive ==
  ASSUME RegistryInvariant
  PROVE  NameExclusive /\ ActorsOwned
BY AliveOwned DEF RegistryInvariant, ActorsOwned, NameExclusive, Indexes, Keeps

\* Between its two reads a query that has not missed a moment of activity has
\* its attempt in the reaper, where the second read finds it.
QueryInv ==
    /\ RegistryInvariant /\ qname \in Names
    /\ qmissed = FALSE
    /\ qlive => \E i \in Ids : NameOf[i] = qname /\ actor[i] = "body" /\ entry[i] = "absent"

\* No step of the registry moves the attempt out of the second read's sight
\* while activity under the name goes on.
LEMMA SightKept ==
  ASSUME RegistryInvariant, RegistryInvariant', [Next]_vars, NEW i \in Ids,
         actor[i] = "body", entry[i] = "absent", NEW j \in Ids, NameOf[j] = NameOf[i],
         actor'[j] = "body"
  PROVE  actor'[i] = "body" /\ entry'[i] = "absent"
<1>1. entry'[i] = "absent"
  BY NoReentry
<1>2. actor[j] \in {"live", "body"}
  <2> USE DEF RegistryInvariant, TypeOK, ActorTypes
  <2>1. CASE LSpawn \/ LOpen
    BY <2>1 DEF LSpawn, LOpen, SetAll
  <2>2. CASE \E k \in Ids : Actor(k)
    BY <2>2 DEF Actor, ActorStep, StartAttempt, EndAttempt, SendResult, SendCompletion, TaskExit,
       DropAborted
  <2>3. CASE UNCHANGED actor
    BY <2>3
  <2>4. [Next]_vars => LSpawn \/ LOpen \/ (\E k \in Ids : Actor(k)) \/ UNCHANGED actor
    BY DEF Next, Callers, SubmitAdd, SubmitStop, Listener, LTakeAdd, LInsert,
     LStop, LCompletion, LInlineDone, LFenceTake, LFenceReply, LBreak, LSweep, LSweepDone, LEnd,
     Shutdown, SdFence, SdSweep, SdSkip, SdDeadline, SdVerdict, SdCancelToken, SdJoin,
     Abandon, Owner, SweepNext, JoinExit, AbortReserve, AbortCount, CommitRemoval, Report,
     AttachTerminal, DecPending, CompleteLogical, NotifyEmpty, Reaper, Reap, SubmitReady,
     Terminated, vars
  <2> QED
    BY <2>1, <2>2, <2>3, <2>4
<1>3. i = j
  BY <1>2, OneAlive DEF NameExclusive, Alive
<1> QED
  BY <1>1, <1>3

\* "Not alive" is never the answer when an attempt under the name ran from
\* the query's first read to its last.
THEOREM QueriesSee == QuerySpec => []NeverOverlooked
<1>1. QueryInit => QueryInv
  BY InitInv DEF QueryInit, QueryInv
<1>2. QueryInv /\ [QueryNext]_<<vars, queryVars>> => QueryInv'
  <2> SUFFICES ASSUME QueryInv, [QueryNext]_<<vars, queryVars>> PROVE QueryInv'
    OBVIOUS
  <2>1. CASE QueryState
    <3>1. RegistryInvariant' /\ UNCHANGED <<actor, entry>>
      BY <2>1, NextInv DEF QueryState, QueryInv, vars
    <3>2. ASSUME Running(qname)
          PROVE  \E i \in Ids : NameOf[i] = qname /\ actor[i] = "body" /\ entry[i] = "absent"
      <4>1. PICK i \in Ids : NameOf[i] = qname /\ actor[i] = "body"
        BY <3>2 DEF Running
      <4>2. byName[qname] # i
        BY <2>1, <4>1 DEF QueryState
      <4> QED
        BY <4>1, <4>2 DEF QueryInv, RegistryInvariant, Indexes
    <3> QED
      BY <2>1, <3>1, <3>2 DEF QueryState, QueryInv
  <2>2. CASE QueryReaper
    <3>1. RegistryInvariant'
      BY <2>2, NextInv DEF QueryReaper, QueryInv
    <3>2. ASSUME qlive
          PROVE  \E i \in reserved[qname] : actor[i] = "body"
      <4>1. PICK i \in Ids : NameOf[i] = qname /\ actor[i] = "body" /\ entry[i] = "absent"
        BY <3>2 DEF QueryInv
      <4>2. rec[i] # "none"
        BY <4>1, OneAlive DEF QueryInv, ActorsOwned, Alive
      <4> QED
        BY <4>1, <4>2 DEF QueryInv, RegistryInvariant, Indexes
    <3> QED
      BY <2>2, <3>1, <3>2 DEF QueryReaper, QueryInv
  <2>3. CASE Next /\ UNCHANGED <<qpc, qname, qmissed>> /\ qlive' = (qlive /\ Running(qname)')
    <3>1. RegistryInvariant'
      BY <2>3, NextInv DEF QueryInv
    <3>2. ASSUME qlive'
          PROVE  \E i \in Ids : NameOf[i] = qname /\ actor'[i] = "body" /\ entry'[i] = "absent"
      <4>1. PICK i \in Ids : NameOf[i] = qname /\ actor[i] = "body" /\ entry[i] = "absent"
        BY <2>3, <3>2 DEF QueryInv
      <4>2. PICK j \in Ids : NameOf[j] = qname /\ actor'[j] = "body"
        BY <2>3, <3>2 DEF Running
      <4> QED
        BY <2>3, <3>1, <4>1, <4>2, SightKept DEF QueryInv
    <3> QED
      BY <2>3, <3>1, <3>2 DEF QueryInv
  <2>4. CASE UNCHANGED <<vars, queryVars>>
    <3>1. RegistryInvariant' /\ UNCHANGED <<actor, entry, queryVars>>
      BY <2>4, NextInv DEF QueryInv, vars
    <3> QED
      BY <3>1 DEF QueryInv, queryVars
  <2> QED
    BY <2>1, <2>2, <2>3, <2>4 DEF QueryNext
<1>3. QueryInv => NeverOverlooked
  BY DEF QueryInv, NeverOverlooked
<1> QED
  BY <1>1, <1>2, <1>3, PTL DEF QuerySpec

-----------------------------------------------------------------------------
(* The refinement of NameLease.                                            *)

\* The keepers of distinct names hold them; a name nobody keeps is free.
LEMMA HolderValue ==
  ASSUME NEW K \in SUBSET Ids, \A i, j \in K : NameOf[i] = NameOf[j] => i = j
  PROVE  /\ \A i \in Ids : HolderOf(K)[NameOf[i]] = i <=> i \in K
         /\ \A n \in Names : HolderOf(K)[n] = NoId <=> ~\E i \in K : NameOf[i] = n
         /\ \A i \in K, n \in Names : NameOf[i] = n => HolderOf(K)[n] = i
<1>1. ASSUME NEW i \in K PROVE HolderOf(K)[NameOf[i]] = i
  BY NamesAssumption DEF HolderOf
<1>2. ASSUME NEW i \in Ids, HolderOf(K)[NameOf[i]] = i PROVE i \in K
  <2>1. CASE \E j \in K : NameOf[j] = NameOf[i]
    <3>1. PICK j \in K : NameOf[j] = NameOf[i]
      BY <2>1
    <3> QED
      BY <1>1, <1>2, <3>1
  <2>2. CASE ~\E j \in K : NameOf[j] = NameOf[i]
    BY <1>2, <2>2, NamesAssumption, IdsAssumption DEF HolderOf
  <2> QED
    BY <2>1, <2>2
<1>3. ASSUME NEW n \in Names PROVE HolderOf(K)[n] = NoId <=> ~\E i \in K : NameOf[i] = n
  <2>1. CASE \E i \in K : NameOf[i] = n
    <3>1. PICK i \in K : NameOf[i] = n
      BY <2>1
    <3> QED
      BY <1>1, <2>1, <3>1, IdsAssumption
  <2>2. CASE ~\E i \in K : NameOf[i] = n
    BY <2>2 DEF HolderOf
  <2> QED
    BY <2>1, <2>2
<1> QED
  BY <1>1, <1>2, <1>3

\* In the registry the holders of the leases are the keepers.
LEMMA KeepersHold ==
  ASSUME RegistryInvariant
  PROVE  /\ Keepers \subseteq Ids /\ \A i, j \in Keepers : NameOf[i] = NameOf[j] => i = j
         /\ Lease!Held = Keepers
<1>1. Keepers \subseteq Ids /\ \A i, j \in Keepers : NameOf[i] = NameOf[j] => i = j
  BY DEF RegistryInvariant, Indexes, Keepers
<1>2. Lease!Held = Keepers
  BY <1>1, HolderValue DEF Lease!Held, LeaseHolder
<1> QED
  BY <1>1, <1>2

\* What keeps a name counts towards the limit: through its entry or as an
\* attempt that is not collected.
LEMMA KeepersOccupied ==
  ASSUME RegistryInvariant
  PROVE  Keepers \subseteq Members \cup Uncollected
<1> SUFFICES ASSUME NEW i \in Ids, Keeps(i), entry[i] = "absent"
             PROVE  aborted[i] /\ ~physical[i]
  BY DEF Keepers, Members, Uncollected
<1>1. PhaseUnowned(i) /\ PhaseJoining(i) /\ PhaseResolved(i) /\ PhaseReleased(i)
  BY DEF RegistryInvariant, Phases
<1>2. own[i] \in OwnState
  BY DEF RegistryInvariant, TypeOK, RemovalTypes
<1> QED
  BY <1>1, <1>2 DEF Keeps, OwnState, PhaseUnowned, PhaseJoining, PhaseResolved, PhaseReleased

\* A step that changes neither keepers, existing actors nor used identities
\* leaves the leases alone.
LEMMA LeaseStutter ==
  ASSUME UNCHANGED <<Keepers, LeaseRunning, LeaseUsed>>
  PROVE  UNCHANGED Lease!leaseVars
BY DEF Lease!leaseVars, LeaseHolder

\* The two specifications count alike.
LEMMA SameCount == \A S : Lease!Cardinality(S) = Cardinality(S)
BY DEF Cardinality, Lease!Cardinality

\* An insertion acquires the names of its batch.
LEMMA InsertAcquires ==
  ASSUME RegistryInvariant, RegistryInvariant', LInsert,
         ~(Conflicts(batch) \/ OverLimit(batch)), batch # {}
  PROVE  Lease!Acquire(batch)
<1> USE DEF RegistryInvariant, TypeOK
<1>1. /\ entry' = [i \in Ids |-> IF i \in batch THEN "registered" ELSE entry[i]]
      /\ lpc = "checked" /\ UNCHANGED <<actorVars, reaperVars, own>>
  BY DEF LInsert, SetAll, MemberTypes
<1>2. batch \subseteq Ids /\ \A i \in batch : Untouched(i)
  BY <1>1 DEF ListenerTypes, Admitting
<1>3. Keepers' = Keepers \cup batch
  BY <1>1, <1>2 DEF Keepers, Keeps
<1>4. \A i \in batch, j \in Keepers : NameOf[i] # NameOf[j]
  BY <1>2, NamesAssumption, IdsAssumption DEF Conflicts, Indexes, Keeps, Keepers
<1>5. \A i, j \in batch : NameOf[i] = NameOf[j] => i = j
  BY DEF Conflicts
<1>6. /\ \A i, j \in Keepers : NameOf[i] = NameOf[j] => i = j
      /\ Keepers \subseteq Ids /\ Lease!Held = Keepers
  BY KeepersHold
<1>7. \A i \in batch : LeaseHolder[NameOf[i]] = NoId
  BY <1>2, <1>4, <1>6, HolderValue, NamesAssumption DEF LeaseHolder
<1>8. Cardinality(Lease!Held) + Cardinality(batch) <= Limit
  <2>1. IsFiniteSet(Members \cup Uncollected) /\ IsFiniteSet(batch)
    BY <1>2, IdsAssumption, FS_Subset DEF Members, Uncollected
  <2>2. IsFiniteSet(Keepers) /\ Cardinality(Keepers) <= Cardinality(Members \cup Uncollected)
    BY <2>1, KeepersOccupied, FS_Subset
  <2>3. Cardinality(Members \cup Uncollected) <= Cardinality(Members) + Cardinality(Uncollected)
    BY OccupiedFinite, UncollectedFinite, UnionBound
  <2>4. /\ Cardinality(Members) \in Nat /\ Cardinality(Uncollected) \in Nat
        /\ Cardinality(batch) \in Nat /\ Cardinality(Keepers) \in Nat
        /\ Cardinality(Members \cup Uncollected) \in Nat
    BY <2>1, <2>2, OccupiedFinite, UncollectedFinite, FS_CardinalityType
  <2>5. Cardinality(Members) + Cardinality(Uncollected) + Cardinality(batch) <= Limit
    BY <2>4, LimitAssumption DEF OverLimit, Counted
  <2> QED
    BY <1>6, <2>2, <2>3, <2>4, <2>5, LimitAssumption
<1>9. LeaseHolder' = [n \in Names |-> IF \E i \in batch : NameOf[i] = n
                                      THEN CHOOSE i \in batch : NameOf[i] = n
                                      ELSE LeaseHolder[n]]
  <2> DEFINE K == Keepers \cup batch
             pick(n) == CHOOSE i \in batch : NameOf[i] = n
  <2>1. LeaseHolder' = HolderOf(K)
    BY <1>3 DEF LeaseHolder
  <2>2. K \in SUBSET Ids /\ \A i, j \in K : NameOf[i] = NameOf[j] => i = j
    BY <1>2, <1>4, <1>5, <1>6
  <2>3. ASSUME NEW n \in Names
        PROVE  HolderOf(K)[n] = IF \E i \in batch : NameOf[i] = n THEN pick(n) ELSE HolderOf(Keepers)[n]
    <3>1. CASE \E i \in batch : NameOf[i] = n
      <4>1. pick(n) \in batch /\ NameOf[pick(n)] = n
        BY <3>1
      <4> HIDE DEF pick
      <4>2. HolderOf(K)[n] = pick(n)
        BY <2>2, <4>1, HolderValue
      <4> QED
        BY <3>1, <4>2
    <3>2. CASE ~(\E i \in batch : NameOf[i] = n) /\ \E i \in Keepers : NameOf[i] = n
      <4>1. PICK i \in Keepers : NameOf[i] = n
        BY <3>2
      <4>2. HolderOf(K)[n] = i
        BY <2>2, <4>1, HolderValue
      <4>3. HolderOf(Keepers)[n] = i
        BY <1>6, <4>1, HolderValue
      <4> QED
        BY <3>2, <4>2, <4>3
    <3>3. CASE ~\E i \in K : NameOf[i] = n
      <4>1. HolderOf(K)[n] = NoId
        BY <2>2, <3>3, HolderValue
      <4>2. HolderOf(Keepers)[n] = NoId
        BY <1>6, <3>3, HolderValue
      <4> QED
        BY <3>3, <4>1, <4>2
    <3> QED
      BY <3>1, <3>2, <3>3
  <2> HIDE DEF K
  <2> QED
    BY <2>1, <2>3 DEF HolderOf, LeaseHolder
<1>10. LeaseUsed' = LeaseUsed \cup batch /\ batch \cap LeaseUsed = {} /\ LeaseRunning' = LeaseRunning
  BY <1>1, <1>2 DEF LeaseUsed, LeaseRunning, Alive, Untouched
<1> QED
  BY <1>5, <1>7, <1>8, <1>9, <1>10, SameCount DEF Lease!Acquire

\* A step that ends i's hold on its name, its actor gone, releases the lease.
LEMMA ReleaseStep ==
  ASSUME RegistryInvariant, NEW i \in Ids, i \in Keepers, actor[i] = "gone",
         Keepers' = Keepers \ {i}, UNCHANGED <<LeaseRunning, LeaseUsed>>
  PROVE  Lease!Release(i)
<1>1. /\ Keepers \subseteq Ids /\ \A j, k \in Keepers : NameOf[j] = NameOf[k] => j = k
      /\ Lease!Held = Keepers
  BY KeepersHold
<1> DEFINE K == Keepers \ {i}
<1>2. K \in SUBSET Ids /\ \A j, k \in K : NameOf[j] = NameOf[k] => j = k
  BY <1>1
<1>3. NameOf[i] \in Names
  BY NamesAssumption
<1>4. ASSUME NEW n \in Names
      PROVE  HolderOf(K)[n] = IF n = NameOf[i] THEN NoId ELSE HolderOf(Keepers)[n]
  <2>1. CASE n = NameOf[i]
    BY <1>1, <1>2, <2>1, HolderValue
  <2>2. CASE n # NameOf[i] /\ \E j \in Keepers : NameOf[j] = n
    <3>1. PICK j \in Keepers : NameOf[j] = n
      BY <2>2
    <3>2. HolderOf(K)[n] = j
      BY <1>2, <2>2, <3>1, HolderValue
    <3>3. HolderOf(Keepers)[n] = j
      BY <1>1, <3>1, HolderValue
    <3> QED
      BY <2>2, <3>2, <3>3
  <2>3. CASE n # NameOf[i] /\ ~\E j \in Keepers : NameOf[j] = n
    <3>1. HolderOf(K)[n] = NoId
      BY <1>2, <2>3, HolderValue
    <3>2. HolderOf(Keepers)[n] = NoId
      BY <1>1, <2>3, HolderValue
    <3> QED
      BY <2>3, <3>1, <3>2
  <2> QED
    BY <2>1, <2>2, <2>3
<1>5. LeaseHolder' = [LeaseHolder EXCEPT ![NameOf[i]] = NoId]
  <2>1. LeaseHolder' = HolderOf(K) /\ LeaseHolder = HolderOf(Keepers)
    BY DEF LeaseHolder
  <2> HIDE DEF K
  <2> QED
    BY <1>3, <1>4, <2>1 DEF HolderOf
<1>6. i \notin LeaseRunning
  BY DEF LeaseRunning, Alive
<1> QED
  BY <1>1, <1>5, <1>6 DEF Lease!Release

\* A step of i's removal owner frees a lease or leaves the leases alone: the
\* membership commit of a joined actor frees its name, that of an aborted one
\* leaves it to the record, and the hand-off frees it when the actor is gone.
LEMMA OwnerLease ==
  ASSUME RegistryInvariant, NEW i \in Ids, Owner(i)
  PROVE  Lease!Release(i) \/ UNCHANGED Lease!leaseVars
<1> USE DEF RegistryInvariant, TypeOK, MemberTypes, RemovalTypes, ReaperTypes
<1>1. PhaseUnowned(i) /\ PhaseJoining(i) /\ PhaseResolved(i) /\ PhaseReleased(i)
  BY DEF Phases
<1>2. LeaseRunning' = LeaseRunning
  BY DEF Owner, SweepNext, JoinExit, AbortReserve, AbortCount, CommitRemoval, Report,
     AttachTerminal, DecPending, CompleteLogical, NotifyEmpty, LeaseRunning, Alive
<1>3. LeaseUsed' = LeaseUsed
  <2>1. /\ own[i] # "none" /\ own'[i] # "none"
        /\ \A j \in Ids : j # i => own'[j] = own[j] /\ entry'[j] = entry[j]
    BY DEF Owner, SweepNext, JoinExit, AbortReserve, AbortCount, CommitRemoval, Report,
       AttachTerminal, DecPending, CompleteLogical, NotifyEmpty
  <2> QED
    BY <2>1 DEF LeaseUsed
<1>4. CASE CommitRemoval(i)
  <2>1. /\ entry[i] = "removing" /\ entry' = [entry EXCEPT ![i] = "absent"] /\ UNCHANGED rec
    BY <1>1, <1>4 DEF CommitRemoval, PhaseResolved
  <2>2. CASE rec[i] = "none"
    <3>1. actor[i] = "gone"
      BY <1>1, <1>4, <2>2 DEF CommitRemoval, PhaseResolved
    <3>2. i \in Keepers /\ Keepers' = Keepers \ {i}
      BY <2>1, <2>2 DEF Keepers, Keeps
    <3> QED
      BY <1>2, <1>3, <3>1, <3>2, ReleaseStep
  <2>3. CASE rec[i] # "none"
    <3>1. Keepers' = Keepers
      BY <2>1, <2>3 DEF Keepers, Keeps
    <3> QED
      BY <1>2, <1>3, <3>1, LeaseStutter
  <2> QED
    BY <2>2, <2>3
<1>5. CASE AttachTerminal(i)
  <2>1. entry[i] = "absent" /\ UNCHANGED entry
    BY <1>1, <1>5 DEF AttachTerminal, PhaseResolved
  <2>2. CASE rec[i] = "exited"
    <3>1. actor[i] = "gone" /\ rec' = [rec EXCEPT ![i] = "none"]
      BY <1>1, <1>5, <2>2 DEF AttachTerminal, PhaseResolved
    <3>2. i \in Keepers /\ Keepers' = Keepers \ {i}
      BY <2>1, <2>2, <3>1 DEF Keepers, Keeps
    <3> QED
      BY <1>2, <1>3, <3>1, <3>2, ReleaseStep
  <2>3. CASE rec[i] # "exited"
    <3>1. \A j \in Ids : rec[j] = "none" <=> rec'[j] = "none"
      BY <1>5, <2>3 DEF AttachTerminal
    <3>2. Keepers' = Keepers
      BY <2>1, <3>1 DEF Keepers, Keeps
    <3> QED
      BY <1>2, <1>3, <3>2, LeaseStutter
  <2> QED
    BY <2>2, <2>3
<1>6. CASE AbortReserve(i)
  <2>1. /\ entry[i] # "absent" /\ UNCHANGED entry
        /\ \A j \in Ids : j # i => rec'[j] = rec[j]
    BY <1>1, <1>6 DEF AbortReserve, PhaseJoining
  <2>2. Keepers' = Keepers
    BY <2>1 DEF Keepers, Keeps
  <2> QED
    BY <1>2, <1>3, <2>2, LeaseStutter
<1>7. CASE Owner(i) /\ ~CommitRemoval(i) /\ ~AttachTerminal(i) /\ ~AbortReserve(i)
  <2>1. UNCHANGED <<entry, rec>>
    BY <1>7 DEF Owner, SweepNext, JoinExit, AbortCount, Report, DecPending,
       CompleteLogical, NotifyEmpty
  <2>2. Keepers' = Keepers
    BY <2>1 DEF Keepers, Keeps
  <2> QED
    BY <1>2, <1>3, <2>2, LeaseStutter
<1> QED
  BY <1>4, <1>5, <1>6, <1>7

\* So does a step of the reaper; a step of i's actor ends its run or leaves
\* the leases alone.
LEMMA TaskLease ==
  ASSUME RegistryInvariant, NEW i \in Ids, Reaper(i) \/ Actor(i)
  PROVE  Lease!Release(i) \/ Lease!End(i) \/ UNCHANGED Lease!leaseVars
<1> USE DEF RegistryInvariant, TypeOK, ReaperTypes, ActorTypes
<1>1. CASE Reap(i) /\ rec[i] = "terminal"
  <2>1. /\ actor[i] = "gone" /\ rec' = [rec EXCEPT ![i] = "none"]
        /\ UNCHANGED <<entry, own, actor>>
    BY <1>1 DEF Reap
  <2>2. entry[i] = "absent"
    <3>1. PhaseUnowned(i) /\ PhaseJoining(i) /\ PhaseResolved(i) /\ PhaseReleased(i)
      BY DEF Phases
    <3>2. own[i] \in OwnState
      BY DEF RemovalTypes
    <3> QED
      BY <1>1, <3>1, <3>2 DEF OwnState, PhaseUnowned, PhaseJoining, PhaseResolved, PhaseReleased
  <2>3. i \in Keepers /\ Keepers' = Keepers \ {i}
    BY <1>1, <2>1, <2>2 DEF Keepers, Keeps
  <2>4. LeaseRunning' = LeaseRunning /\ LeaseUsed' = LeaseUsed
    BY <2>1 DEF LeaseRunning, LeaseUsed, Alive
  <2> QED
    BY <2>1, <2>3, <2>4, ReleaseStep
<1>2. CASE Reaper(i) /\ ~(Reap(i) /\ rec[i] = "terminal")
  <2>1. /\ \A j \in Ids : rec[j] = "none" <=> rec'[j] = "none"
        /\ UNCHANGED <<entry, own, actor>>
    BY <1>2 DEF Reaper, Reap, SubmitReady
  <2> QED
    BY <2>1, LeaseStutter DEF Keepers, Keeps, LeaseRunning, LeaseUsed, Alive
<1>3. CASE Actor(i)
  <2>1. UNCHANGED <<entry, own, rec>>
    BY <1>3 DEF Actor, StartAttempt, EndAttempt, SendResult, SendCompletion, TaskExit, DropAborted
  <2>2. Keepers' = Keepers /\ LeaseUsed' = LeaseUsed
    BY <2>1 DEF Keepers, Keeps, LeaseUsed
  <2>3. /\ Alive(i) /\ actor'[i] # "none"
        /\ \A j \in Ids : j # i => actor'[j] = actor[j]
    BY <1>3 DEF Actor, ActorStep, StartAttempt, EndAttempt, SendResult, SendCompletion, TaskExit,
       DropAborted, Alive
  <2>4. CASE actor'[i] = "gone"
    <3>1. i \in LeaseRunning /\ LeaseRunning' = LeaseRunning \ {i}
      BY <2>3, <2>4 DEF LeaseRunning, Alive
    <3> QED
      BY <2>2, <3>1 DEF Lease!End, LeaseHolder
  <2>5. CASE actor'[i] # "gone"
    <3>1. LeaseRunning' = LeaseRunning
      BY <2>3, <2>5 DEF LeaseRunning, Alive
    <3> QED
      BY <2>2, <3>1, LeaseStutter
  <2> QED
    BY <2>4, <2>5
<1> QED
  BY <1>1, <1>2, <1>3 DEF Reaper

\* A claim takes only members: no lease changes hands.
LEMMA ClaimLease ==
  ASSUME RegistryInvariant, NEW S \in SUBSET Ids, NEW v, NEW s, NEW C, Claim(S, v, s, C),
         \A i \in S : entry[i] = "registered", UNCHANGED <<actor, rec>>
  PROVE  UNCHANGED Lease!leaseVars
<1> USE DEF RegistryInvariant, TypeOK, MemberTypes, RemovalTypes
<1>1. \A i \in Ids : entry'[i] = IF i \in S THEN "removing" ELSE entry[i]
  BY DEF Claim, SetAll
<1>2. \A i \in Ids : i \notin S => own'[i] = own[i]
  BY DEF Claim, SetAll
<1>3. Keepers' = Keepers /\ LeaseUsed' = LeaseUsed /\ LeaseRunning' = LeaseRunning
  BY <1>1, <1>2 DEF Keepers, Keeps, LeaseUsed, LeaseRunning, Alive
<1> QED
  BY <1>3, LeaseStutter

\* A listener step acquires the batch's names together, begins the batch's
\* runs together, or leaves the leases alone.
LEMMA ListenerLease ==
  ASSUME RegistryInvariant, RegistryInvariant', Listener
  PROVE  \/ \E B \in SUBSET Ids : Lease!Acquire(B) \/ Lease!Begin(B)
         \/ UNCHANGED Lease!leaseVars
<1> USE DEF RegistryInvariant, TypeOK
<1>0. batch \in SUBSET Ids
  BY DEF ListenerTypes
<1>1. CASE LInsert /\ ~(Conflicts(batch) \/ OverLimit(batch)) /\ batch # {}
  BY <1>0, <1>1, InsertAcquires
<1>2. CASE LInsert /\ ~(~(Conflicts(batch) \/ OverLimit(batch)) /\ batch # {})
  <2>1. UNCHANGED <<entry, own, actor, rec>>
    BY <1>2 DEF LInsert, Reject, SetAll, MemberTypes
  <2> QED
    BY <2>1, LeaseStutter DEF Keepers, Keeps, LeaseUsed, LeaseRunning, Alive
<1>3. CASE LSpawn
  <2>1. /\ actor' = [i \in Ids |-> IF i \in batch THEN "gated" ELSE actor[i]]
        /\ UNCHANGED <<entry, own, rec>> /\ lpc = "inserted"
    BY <1>3 DEF LSpawn, SetAll, ActorTypes
  <2>2. Keepers' = Keepers /\ LeaseUsed' = LeaseUsed
    BY <2>1 DEF Keepers, Keeps, LeaseUsed
  <2>3. LeaseRunning' = LeaseRunning \cup batch
    BY <1>0, <2>1 DEF LeaseRunning, Alive
  <2>4. batch \subseteq Lease!Held
    <3>1. batch \subseteq Keepers
      BY <1>0, <2>1 DEF Admitting, Keepers, Keeps
    <3> QED
      BY <3>1, KeepersHold
  <2>5. CASE batch # {}
    <3>1. Lease!Begin(batch)
      BY <2>2, <2>3, <2>4, <2>5 DEF Lease!Begin, LeaseHolder
    <3> QED
      BY <1>0, <3>1
  <2>6. CASE batch = {}
    BY <2>2, <2>3, <2>6, LeaseStutter
  <2> QED
    BY <2>5, <2>6
<1>4. CASE LOpen
  <2>1. /\ \A i \in Ids : Alive(i)' <=> Alive(i)
        /\ UNCHANGED <<entry, own, rec>>
    BY <1>4 DEF LOpen, Alive
  <2> QED
    BY <2>1, LeaseStutter DEF Keepers, Keeps, LeaseUsed, LeaseRunning
<1>5. CASE LStop
  <2> DEFINE S == Claimable(Target(Head(cmdq)))
  <2>1. Claim(S, "detached", "join", S) /\ \A i \in S : entry[i] = "registered"
    BY <1>5 DEF LStop, Claimable
  <2>2. Target(Head(cmdq)) \subseteq Ids
    <3>1. Head(cmdq) \in Command /\ Head(cmdq).op \in StopOps
      BY <1>5 DEF LStop, Taking, CallerTypes
    <3>2. Head(cmdq) \in [op : StopOps, id : Ids] \/ Head(cmdq) \in [op : StopOps, name : Names]
      BY <3>1 DEF Command, StopOps
    <3> QED
      BY <3>2 DEF Target, MemberTypes
  <2>3. S \in SUBSET Ids
    BY <2>2 DEF Claimable
  <2> HIDE DEF S
  <2> QED
    BY <1>5, <2>1, <2>3, ClaimLease DEF LStop
<1>6. CASE LSweep
  <2> DEFINE S == Claimable(Ids)
  <2>1. Claim(S, "sweep", "queued", S) /\ S \in SUBSET Ids /\ \A i \in S : entry[i] = "registered"
    BY <1>6 DEF LSweep, Claimable
  <2> HIDE DEF S
  <2> QED
    BY <1>6, <2>1, ClaimLease DEF LSweep
<1>7. ASSUME NEW i \in Ids, LCompletion(i) PROVE UNCHANGED Lease!leaseVars
  <2> DEFINE S == Claimable({i})
             v == IF S # {} /\ result[i] THEN "inline" ELSE "detached"
  <2>1. Claim(S, v, "join", {}) /\ S \in SUBSET Ids /\ \A j \in S : entry[j] = "registered"
    BY <1>7 DEF LCompletion, Claimable
  <2> HIDE DEF S, v
  <2> QED
    BY <1>7, <2>1, ClaimLease DEF LCompletion
<1>8. CASE LTakeAdd \/ LInlineDone \/ LFenceTake \/ LFenceReply \/ LBreak \/ LSweepDone \/ LEnd
  <2>1. UNCHANGED <<entry, own, actor, rec>>
    BY <1>8 DEF LTakeAdd, Reject, LInlineDone, LFenceTake, LFenceReply, LBreak, LSweepDone, LEnd
  <2> QED
    BY <2>1, LeaseStutter DEF Keepers, Keeps, LeaseUsed, LeaseRunning, Alive
<1> QED
  BY <1>1, <1>2, <1>3, <1>4, <1>5, <1>6, <1>7, <1>8 DEF Listener

\* Every step of the registry is a step of NameLease or a stutter.
LEMMA LeaseStep ==
  ASSUME RegistryInvariant, RegistryInvariant', [Next]_vars
  PROVE  [Lease!LeaseNext]_(Lease!leaseVars)
<1>1. CASE Listener
  BY <1>1, ListenerLease DEF Lease!LeaseNext
<1>2. ASSUME NEW i \in Ids, Owner(i) PROVE [Lease!LeaseNext]_(Lease!leaseVars)
  BY <1>2, OwnerLease DEF Lease!LeaseNext
<1>3. ASSUME NEW i \in Ids, Reaper(i) \/ Actor(i) PROVE [Lease!LeaseNext]_(Lease!leaseVars)
  BY <1>3, TaskLease DEF Lease!LeaseNext
<1>4. CASE SdSweep
  <2> DEFINE S == Claimable(Ids)
  <2>1. Claim(S, "sweep", "queued", S) /\ S \in SUBSET Ids /\ \A i \in S : entry[i] = "registered"
    BY <1>4 DEF SdSweep, Claimable
  <2> HIDE DEF S
  <2> QED
    BY <1>4, <2>1, ClaimLease DEF SdSweep
<1>5. CASE Callers \/ (Shutdown /\ ~SdSweep) \/ UNCHANGED vars
  <2>1. UNCHANGED <<entry, own, actor, rec>>
    BY <1>5 DEF Callers, SubmitAdd, SubmitStop, Shutdown, SdFence, SdSkip, SdDeadline, SdVerdict,
       SdCancelToken, SdJoin, Abandon, vars
  <2> QED
    BY <2>1, LeaseStutter DEF Keepers, Keeps, LeaseUsed, LeaseRunning, Alive
<1> QED
  BY <1>1, <1>2, <1>3, <1>4, <1>5 DEF Next, Terminated

\* The registry implements the lease specification: names are granted all or
\* none, within the limit and never twice to one identity, and freed only
\* after the physical exit.
THEOREM LeasesImplemented == Spec => ImplementsLease
<1>1. Init => Lease!LeaseInit
  <2> SUFFICES ASSUME Init PROVE Lease!LeaseInit
    OBVIOUS
  <2>1. Keepers = {} /\ LeaseRunning = {} /\ LeaseUsed = {}
    BY DEF Init, Keepers, Keeps, LeaseRunning, Alive, LeaseUsed
  <2>2. LeaseHolder = [n \in Names |-> NoId]
    BY <2>1 DEF LeaseHolder, HolderOf
  <2> QED
    BY <2>1, <2>2 DEF Lease!LeaseInit
<1>2. RegistryInvariant /\ RegistryInvariant' /\ [Next]_vars => [Lease!LeaseNext]_(Lease!leaseVars)
  BY LeaseStep
<1> QED
  BY <1>1, <1>2, Invariance, PTL DEF Spec, ImplementsLease, Lease!LeaseSpec
=============================================================================
