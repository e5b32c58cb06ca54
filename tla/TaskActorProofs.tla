---------------------------- MODULE TaskActorProofs ----------------------------
(***************************************************************************)
(* The restart loop and the attempt semaphore, for every number of actors, *)
(* permits and retries.  ActorInvariant ties what an actor holds to where  *)
(* it is in its loop, the semaphore's queue to the actors that wait, and   *)
(* the retry counter to the failures that happened.  At the end, the       *)
(* bounds of the delays between retries, for every policy a caller can     *)
(* build and whatever the floating-point growth comes to.                  *)
(***************************************************************************)
EXTENDS TaskActorLife, Backoff, TLAPS, FiniteSetTheorems, SequenceTheorems

\* Where the permit guard is held, the activity flag is up, the user future
\* exists.  A waiting actor may have been granted its permit already.
Holding == {"running", "disposing", "classify", "release", "unwinding", "guards"}
Active == {"running", "disposing", "classify", "unwinding", "guards"}
InUserCode == {"running", "disposing", "unwinding"}

Guarded(i) ==
    /\ pc[i] \in Holding => permit[i]
    /\ permit[i] => pc[i] \in Holding \cup {"waiting"}
    /\ activity[i] <=> pc[i] \in Active
    /\ future[i] <=> pc[i] \in InUserCode

Holders == {i \in Actors : permit[i]}

\* The permits add up, and the queue holds each waiting actor without a
\* permit exactly once, and nobody while a permit is free.
Semaphore ==
    /\ free + Cardinality(Holders) = Permits
    /\ free > 0 => waitq = <<>>
    /\ \A k \in 1..Len(waitq) : pc[waitq[k]] = "waiting" /\ ~permit[waitq[k]]
    /\ \A k, l \in 1..Len(waitq) : waitq[k] = waitq[l] => k = l
    /\ \A i \in Actors : pc[i] = "waiting" /\ ~permit[i] => \E k \in 1..Len(waitq) : waitq[k] = i

\* Before a decision the retry counter is the number of failures in a row,
\* within the budget; it neither saturates nor runs ahead of them.
Budgeted(i) ==
    /\ MaxRetries[i] # 0 => streak[i] <= MaxRetries[i] + 1
    /\ MaxRetries[i] # 0 /\ pc[i] \notin {"release", "exited", "dropped"}
         => backoff[i] = streak[i] /\ streak[i] <= MaxRetries[i]

\* What the last attempt's result and its classification say, while they wait
\* to be applied.
Classifies(i) ==
    /\ pc[i] \in {"disposing", "classify"} => res[i] # "none"
    /\ pc[i] = "release" =>
         /\ decision[i] # "none"
         /\ decision[i] = "ok" => res[i] = "ok" /\ streak[i] = 0
         /\ decision[i] = "panicked" => res[i] \in {"cleanup", "fail", "timeout"}
         /\ decision[i] = "retry" /\ MaxRetries[i] # 0
              => streak[i] = backoff[i] + 1 /\ backoff[i] < MaxRetries[i]
         /\ decision[i] = "final" =>
              /\ res[i] \in {"fail", "timeout", "fatal", "canceled"}
              /\ res[i] \in {"fail", "timeout"}
                   => Restart[i] = "never" \/ streak[i] = MaxRetries[i] + 1

\* Why an exited actor exited.
Exited(i) ==
    pc[i] = "exited" =>
        /\ exit[i] # "none"
        /\ exit[i] = "Completed" => res[i] = "ok" /\ Restart[i] # "always" /\ backoff[i] = 0
        /\ exit[i] = "Canceled" => token[i] \/ res[i] = "canceled"
        /\ exit[i] = "Fatal" => res[i] = "fatal"
        /\ exit[i] = "Panicked" => res[i] \in {"cleanup", "fail", "timeout"}
        /\ exit[i] = "Exhausted" =>
             /\ res[i] \in {"fail", "timeout"}
             /\ Restart[i] = "never" \/ streak[i] = MaxRetries[i] + 1

\* The inductive invariant of the restart loop.
ActorInvariant ==
    /\ ActorTypeOK /\ Semaphore
    /\ \A i \in Actors : Guarded(i) /\ Budgeted(i) /\ Classifies(i) /\ Exited(i)

-----------------------------------------------------------------------------
(* The semaphore.                                                          *)

\* A sequence without its k-th element.
LEMMA RemoveAtProperties ==
  ASSUME NEW S, NEW s \in Seq(S), NEW k \in 1..Len(s)
  PROVE  /\ RemoveAt(s, k) \in Seq(S) /\ Len(RemoveAt(s, k)) = Len(s) - 1
         /\ \A j \in 1..(Len(s) - 1) :
              RemoveAt(s, k)[j] = IF j < k THEN s[j] ELSE s[j + 1]
<1> DEFINE a == SubSeq(s, 1, k - 1)
           b == SubSeq(s, k + 1, Len(s))
<1>0. Len(s) \in Nat /\ k \in Int /\ \A j \in 1..Len(s) : s[j] \in S
  OBVIOUS
<1>1. /\ a \in Seq(S) /\ Len(a) = k - 1 /\ \A j \in 1..(k - 1) : a[j] = s[j]
  <2>1. \A j \in 1..(k - 1) : s[j] \in S
    BY <1>0
  <2> QED
    BY <1>0, <2>1, SubSeqProperties
<1>2. /\ b \in Seq(S) /\ Len(b) = Len(s) - k /\ \A j \in 1..(Len(s) - k) : b[j] = s[k + j]
  <2>1. \A j \in (k + 1)..Len(s) : s[j] \in S
    BY <1>0
  <2>2. /\ b \in Seq(S) /\ Len(b) = IF k + 1 <= Len(s) THEN Len(s) - (k + 1) + 1 ELSE 0
        /\ \A j \in 1..(Len(s) - (k + 1) + 1) : b[j] = s[(k + 1) + j - 1]
    BY <1>0, <2>1, SubSeqProperties
  <2> QED
    BY <1>0, <2>2
<1> HIDE DEF a, b
<1>3. /\ a \o b \in Seq(S) /\ Len(a \o b) = Len(a) + Len(b)
      /\ \A j \in 1..(Len(a) + Len(b)) : (a \o b)[j] = IF j <= Len(a) THEN a[j] ELSE b[j - Len(a)]
  BY <1>1, <1>2, ConcatProperties
<1>4. Len(a) + Len(b) = Len(s) - 1
  BY <1>0, <1>1, <1>2
<1>5. ASSUME NEW j \in 1..(Len(s) - 1)
      PROVE  (a \o b)[j] = IF j < k THEN s[j] ELSE s[j + 1]
  <2>1. CASE j < k
    BY <1>0, <1>1, <1>3, <1>4, <2>1
  <2>2. CASE ~(j < k)
    <3>1. j - (k - 1) \in 1..(Len(s) - k) /\ k + (j - (k - 1)) = j + 1 /\ ~(j <= k - 1)
      BY <1>0, <2>2
    <3>2. b[j - (k - 1)] = s[j + 1]
      BY <1>2, <3>1
    <3> QED
      BY <1>1, <1>3, <1>4, <2>2, <3>1, <3>2
  <2> QED
    BY <2>1, <2>2
<1> QED
  BY <1>3, <1>4, <1>5 DEF RemoveAt, a, b

\* Every holder is one of the actors, of which there are finitely many.
LEMMA HoldersFinite == IsFiniteSet(Holders) /\ Cardinality(Holders) \in Nat
BY ActorAssumption, FS_Subset, FS_CardinalityType DEF Holders

\* The part of the types that the semaphore is about.
PermitTypes ==
    /\ permit \in [Actors -> BOOLEAN] /\ free \in 0..Permits /\ waitq \in Seq(Actors)

\* A granted permit comes from the free ones, and one given back goes to the
\* oldest waiter or becomes free: what i leaves behind is conserved.
LEMMA ReleaseKeeps ==
  ASSUME PermitTypes, Semaphore, NEW i \in Actors, permit[i], ReleasePermit(i),
         pc'[i] # "waiting", \A j \in Actors : j # i => pc'[j] = pc[j]
  PROVE  /\ Semaphore' /\ PermitTypes'
         /\ ~permit'[i]
         /\ \A j \in Actors : j # i => /\ permit[j] => permit'[j]
                                       /\ permit'[j] /\ ~permit[j] => pc[j] = "waiting"
<1> USE DEF PermitTypes
<1>1. CASE waitq = <<>>
  <2>1. /\ free' = free + 1 /\ permit' = [permit EXCEPT ![i] = FALSE] /\ waitq' = waitq
    BY <1>1 DEF ReleasePermit
  <2>2. i \in Holders /\ Holders' = Holders \ {i}
    BY <2>1 DEF Holders
  <2>3. Cardinality(Holders') = Cardinality(Holders) - 1 /\ Cardinality(Holders') \in Nat
    <3>1. IsFiniteSet(Holders')
      BY <2>2, HoldersFinite, FS_RemoveElement
    <3> QED
      BY <2>2, <3>1, HoldersFinite, FS_RemoveElement, FS_CardinalityType
  <2>4. free' + Cardinality(Holders') = Permits /\ free' \in 0..Permits
    BY <2>1, <2>3, HoldersFinite, ActorAssumption DEF Semaphore
  <2>5. \A j \in Actors : pc'[j] = "waiting" => permit'[j]
    BY <1>1, <2>1 DEF Semaphore
  <2> QED
    BY <1>1, <2>1, <2>4, <2>5 DEF Semaphore
<1>2. CASE waitq # <<>>
  <2> DEFINE h == Head(waitq)
  <2>1. /\ permit' = [permit EXCEPT ![i] = FALSE, ![h] = TRUE]
        /\ waitq' = Tail(waitq) /\ free' = free
    BY <1>2 DEF ReleasePermit
  <2>2. /\ Len(waitq) \in Nat \ {0} /\ Len(waitq') = Len(waitq) - 1 /\ waitq' \in Seq(Actors)
        /\ \A k \in 1..Len(waitq') : k + 1 \in 1..Len(waitq) /\ waitq'[k] = waitq[k + 1]
        /\ h = waitq[1] /\ 1 \in 1..Len(waitq) /\ h \in Actors
    BY <1>2, <2>1
  <2>3. pc[h] = "waiting" /\ ~permit[h] /\ h # i
    BY <2>2 DEF Semaphore
  <2> HIDE DEF h
  <2>4. \A j \in Actors : permit'[j] = IF j = h THEN TRUE ELSE IF j = i THEN FALSE ELSE permit[j]
    BY <2>1, <2>2, <2>3
  <2>5. Cardinality(Holders') = Cardinality(Holders)
    <3>1. i \in Holders /\ h \notin Holders /\ h \notin Holders \ {i}
      BY <2>2, <2>3 DEF Holders
    <3>2. Holders' = (Holders \ {i}) \cup {h}
      BY <2>2, <2>3, <2>4 DEF Holders
    <3>3. IsFiniteSet(Holders \ {i}) /\ Cardinality(Holders \ {i}) = Cardinality(Holders) - 1
      BY <3>1, HoldersFinite, FS_RemoveElement
    <3>4. Cardinality(Holders') = Cardinality(Holders \ {i}) + 1
      BY <3>1, <3>2, <3>3, FS_AddElement
    <3> QED
      BY <3>3, <3>4, HoldersFinite
  <2>6. free = 0
    BY <1>2, ActorAssumption DEF Semaphore
  <2>7. ASSUME NEW k \in 1..Len(waitq')
        PROVE  pc'[waitq'[k]] = "waiting" /\ ~permit'[waitq'[k]]
    <3>1. k + 1 \in 1..Len(waitq) /\ k + 1 # 1 /\ waitq'[k] = waitq[k + 1] /\ waitq[k + 1] \in Actors
      BY <2>2
    <3>2. pc[waitq[k + 1]] = "waiting" /\ ~permit[waitq[k + 1]]
      BY <3>1 DEF Semaphore
    <3>3. waitq[k + 1] # h /\ waitq[k + 1] # i
      BY <2>2, <3>1, <3>2 DEF Semaphore
    <3> QED
      BY <2>4, <3>1, <3>2, <3>3
  <2>8. \A k, m \in 1..Len(waitq') : waitq'[k] = waitq'[m] => k = m
    BY <2>2 DEF Semaphore
  <2>9. ASSUME NEW j \in Actors, pc'[j] = "waiting", ~permit'[j]
        PROVE  \E k \in 1..Len(waitq') : waitq'[k] = j
    <3>1. j # i /\ j # h /\ pc[j] = "waiting" /\ ~permit[j]
      BY <2>4, <2>9
    <3>2. PICK k \in 1..Len(waitq) : waitq[k] = j
      BY <3>1 DEF Semaphore
    <3>3. k # 1 /\ k - 1 \in 1..Len(waitq') /\ waitq'[k - 1] = waitq[k]
      BY <2>2, <3>1, <3>2
    <3> QED
      BY <3>2, <3>3
  <2>10. Semaphore'
    <3>1. free' + Cardinality(Holders') = Permits /\ ~(free' > 0)
      BY <2>1, <2>5, <2>6 DEF Semaphore
    <3> HIDE DEF PermitTypes
    <3> QED
      BY <2>7, <2>8, <2>9, <3>1 DEF Semaphore
  <2>11. permit' \in [Actors -> BOOLEAN]
    BY <2>1, <2>2
  <2>12. ~permit'[i]
    BY <2>3, <2>4
  <2>13. \A j \in Actors : j # i => /\ permit[j] => permit'[j]
                                    /\ permit'[j] /\ ~permit[j] => pc[j] = "waiting"
    BY <2>3, <2>4
  <2> QED
    BY <2>1, <2>2, <2>10, <2>11, <2>12, <2>13
<1> QED
  BY <1>1, <1>2

\* So is a dropped acquire, granted or still queued.
LEMMA DropKeeps ==
  ASSUME PermitTypes, Semaphore, NEW i \in Actors, pc[i] = "waiting", DropAcquire(i),
         pc'[i] # "waiting", \A j \in Actors : j # i => pc'[j] = pc[j]
  PROVE  /\ Semaphore' /\ PermitTypes'
         /\ ~permit'[i]
         /\ \A j \in Actors : j # i => /\ permit[j] => permit'[j]
                                       /\ permit'[j] /\ ~permit[j] => pc[j] = "waiting"
<1> USE DEF PermitTypes
<1>1. CASE permit[i]
  BY <1>1, ReleaseKeeps DEF DropAcquire
<1>2. CASE ~permit[i]
  <2>1. PICK r \in 1..Len(waitq) : waitq[r] = i /\ waitq' = RemoveAt(waitq, r)
    BY <1>2 DEF DropAcquire
  <2>2. UNCHANGED <<free, permit>>
    BY <1>2 DEF DropAcquire
  <2> DEFINE old(k) == IF k < r THEN k ELSE k + 1
  <2>3. /\ waitq' \in Seq(Actors) /\ Len(waitq') = Len(waitq) - 1 /\ Len(waitq) \in Nat
        /\ \A k \in 1..Len(waitq') : waitq'[k] = waitq[old(k)]
    BY <2>1, RemoveAtProperties
  <2>4. \A k \in 1..Len(waitq') : old(k) \in 1..Len(waitq) /\ old(k) # r
    BY <2>3
  <2>5. \A k, m \in 1..Len(waitq') : old(k) = old(m) => k = m
    BY <2>3
  <2>6. ASSUME NEW k \in 1..Len(waitq), k # r PROVE \E m \in 1..Len(waitq') : old(m) = k
    <3>1. CASE k < r
      BY <2>3, <3>1
    <3>2. CASE k > r
      <4>1. k - 1 \in 1..Len(waitq') /\ old(k - 1) = k
        BY <2>3, <3>2
      <4> QED
        BY <4>1
    <3> QED
      BY <2>3, <2>6, <3>1, <3>2
  <2> HIDE DEF old
  <2>7. \A k \in 1..Len(waitq') : waitq'[k] \in Actors /\ waitq'[k] # i
    BY <2>1, <2>3, <2>4 DEF Semaphore
  <2>8. ASSUME NEW k \in 1..Len(waitq')
        PROVE  pc'[waitq'[k]] = "waiting" /\ ~permit'[waitq'[k]]
    <3>1. pc[waitq[old(k)]] = "waiting" /\ ~permit[waitq[old(k)]]
      BY <2>4 DEF Semaphore
    <3> QED
      BY <2>2, <2>3, <2>7, <3>1
  <2>9. \A k, m \in 1..Len(waitq') : waitq'[k] = waitq'[m] => k = m
    BY <2>3, <2>4, <2>5 DEF Semaphore
  <2>10. ASSUME NEW j \in Actors, pc'[j] = "waiting", ~permit'[j]
         PROVE  \E k \in 1..Len(waitq') : waitq'[k] = j
    <3>1. j # i /\ pc[j] = "waiting" /\ ~permit[j]
      BY <2>2, <2>10
    <3>2. PICK k \in 1..Len(waitq) : waitq[k] = j
      BY <3>1 DEF Semaphore
    <3>3. PICK m \in 1..Len(waitq') : old(m) = k
      BY <2>1, <2>6, <3>1, <3>2
    <3> QED
      BY <2>3, <3>2, <3>3
  <2>11. free' + Cardinality(Holders') = Permits
    BY <2>2 DEF Semaphore, Holders
  <2>12. free' = 0
    <3>1. waitq # <<>>
      BY <2>1
    <3> QED
      BY <2>2, <3>1, ActorAssumption DEF Semaphore
  <2>13. Semaphore'
    BY <2>8, <2>9, <2>10, <2>11, <2>12 DEF Semaphore
  <2> QED
    BY <1>2, <2>2, <2>3, <2>13
<1> QED
  BY <1>1, <1>2

\* Taking a free permit or joining the queue keeps the semaphore's state.
LEMMA AcquireKeeps ==
  ASSUME PermitTypes, Semaphore, NEW i \in Actors, pc[i] # "waiting", ~permit[i], Acquire(i),
         pc'[i] = "waiting", \A j \in Actors : j # i => pc'[j] = pc[j]
  PROVE  /\ Semaphore' /\ PermitTypes'
         /\ \A j \in Actors : j # i => permit'[j] = permit[j]
<1> USE DEF PermitTypes
<1>1. CASE free > 0
  <2>1. /\ free' = free - 1 /\ permit' = [permit EXCEPT ![i] = TRUE] /\ waitq' = waitq
        /\ waitq = <<>>
    BY <1>1 DEF Acquire, Semaphore
  <2>2. i \notin Holders /\ Holders' = Holders \cup {i}
    BY <2>1 DEF Holders
  <2>3. Cardinality(Holders') = Cardinality(Holders) + 1
    BY <2>2, HoldersFinite, FS_AddElement
  <2>4. free' + Cardinality(Holders') = Permits /\ free' \in 0..Permits
    BY <1>1, <2>1, <2>3, HoldersFinite, ActorAssumption DEF Semaphore
  <2>5. \A j \in Actors : pc'[j] = "waiting" => permit'[j]
    BY <2>1 DEF Semaphore
  <2> QED
    BY <2>1, <2>4, <2>5 DEF Semaphore
<1>2. CASE ~(free > 0)
  <2>1. free = 0 /\ free' = free /\ permit' = permit /\ waitq' = Append(waitq, i)
    BY <1>2, ActorAssumption DEF Acquire
  <2>2. /\ waitq' \in Seq(Actors) /\ Len(waitq') = Len(waitq) + 1 /\ Len(waitq) \in Nat
        /\ \A k \in 1..Len(waitq) : waitq'[k] = waitq[k] /\ waitq[k] \in Actors
        /\ waitq'[Len(waitq) + 1] = i
    BY <2>1
  <2>3. \A k \in 1..Len(waitq) : waitq[k] # i
    BY DEF Semaphore
  <2>4. \A k \in 1..Len(waitq') : pc'[waitq'[k]] = "waiting" /\ ~permit'[waitq'[k]]
    BY <2>1, <2>2, <2>3 DEF Semaphore
  <2>5. \A k, m \in 1..Len(waitq') : waitq'[k] = waitq'[m] => k = m
    BY <2>2, <2>3 DEF Semaphore
  <2>6. ASSUME NEW j \in Actors, pc'[j] = "waiting", ~permit'[j]
        PROVE  \E k \in 1..Len(waitq') : waitq'[k] = j
    <3>1. CASE j = i
      BY <2>2, <3>1
    <3>2. CASE j # i
      <4>1. PICK k \in 1..Len(waitq) : waitq[k] = j
        BY <2>1, <2>6, <3>2 DEF Semaphore
      <4>2. k \in 1..Len(waitq') /\ waitq'[k] = j
        BY <2>2, <4>1
      <4> QED
        BY <4>2
    <3> QED
      BY <3>1, <3>2
  <2>7. free' + Cardinality(Holders') = Permits
    BY <2>1 DEF Semaphore, Holders
  <2> QED
    BY <2>1, <2>2, <2>4, <2>5, <2>6, <2>7 DEF Semaphore
<1> QED
  BY <1>1, <1>2

\* The queue survives a step that leaves the semaphore alone and moves i
\* neither into the wait nor, without a permit, out of it.
LEMMA QueueStays ==
  ASSUME PermitTypes, Semaphore, NEW i \in Actors, UNCHANGED semaphore,
         \A j \in Actors : j # i => pc'[j] = pc[j],
         pc[i] = "waiting" /\ pc'[i] # "waiting" => permit[i],
         pc'[i] = "waiting" => pc[i] = "waiting"
  PROVE  Semaphore' /\ PermitTypes'
<1>1. UNCHANGED <<free, permit, waitq>>
  BY DEF semaphore
<1>2. \A k \in 1..Len(waitq) : waitq[k] \in Actors
  BY DEF PermitTypes
<1>3. Holders' = Holders
  BY <1>1 DEF Holders
<1>4. \A k \in 1..Len(waitq) : pc'[waitq[k]] = "waiting" /\ ~permit[waitq[k]]
  BY <1>2 DEF Semaphore
<1>5. \A j \in Actors : pc'[j] = "waiting" /\ ~permit[j] => pc[j] = "waiting"
  OBVIOUS
<1>6. PermitTypes'
  BY <1>1 DEF PermitTypes
<1> QED
  BY <1>1, <1>3, <1>4, <1>5, <1>6 DEF Semaphore

-----------------------------------------------------------------------------
(* The loop.                                                               *)

\* The types of what an actor keeps for itself.
LocalTypes ==
    /\ pc \in [Actors -> {"top", "waiting", "running", "disposing", "classify",
                          "release", "sleep", "unwinding", "guards", "exited", "dropped"}]
    /\ token \in [Actors -> BOOLEAN] /\ abort \in [Actors -> BOOLEAN]
    /\ child \in [Actors -> BOOLEAN]
    /\ activity \in [Actors -> BOOLEAN] /\ future \in [Actors -> BOOLEAN]
    /\ attempt \in [Actors -> 0..U32Max] /\ backoff \in [Actors -> 0..U32Max]
    /\ res \in [Actors -> Results] /\ decision \in [Actors -> Decisions]
    /\ exit \in [Actors -> Exits]
    /\ streak \in [Actors -> 0..StreakCap]

\* The two parts of the types.
LEMMA TypesSplit == ActorTypeOK <=> LocalTypes /\ PermitTypes
BY DEF ActorTypeOK, LocalTypes, PermitTypes

\* A step of actor i.
ActorStep(i) == Loop(i) \/ UserCode(i) \/ Dropping(i) \/ Cancel(i) \/ RequestAbort(i)

USE DEF Goto, Exit

\* An actor's step is about that actor alone.
LEMMA OthersKept ==
  ASSUME LocalTypes, NEW i \in Actors, ActorStep(i), NEW j \in Actors, j # i
  PROVE  /\ pc'[j] = pc[j] /\ token'[j] = token[j] /\ activity'[j] = activity[j]
         /\ future'[j] = future[j] /\ backoff'[j] = backoff[j] /\ res'[j] = res[j]
         /\ decision'[j] = decision[j] /\ exit'[j] = exit[j] /\ streak'[j] = streak[j]
<1>1. CASE Loop(i)
  BY <1>1 DEF Loop, LocalTypes, LoopTop, WaitCanceled, BeginAttempt, SpawnPanics, ClassifyAttempt,
     ApplyDecision, SleepOver, SleepCanceled
<1>2. CASE UserCode(i)
  BY <1>2 DEF UserCode, LocalTypes, AttemptReady, AttemptTimeout, DisposeFuture, UnwindFuture
<1>3. CASE Dropping(i) \/ Cancel(i) \/ RequestAbort(i)
  BY <1>3 DEF Dropping, LocalTypes, DropIdle, DropRunning, UnwindGuards, Cancel, RequestAbort
<1> QED
  BY <1>1, <1>2, <1>3 DEF ActorStep

\* The saturating addition stays within u32, and adds below the limit.
LEMMA Saturates ==
  ASSUME NEW x \in 0..U32Max
  PROVE  SaturatingAdd(x) \in 0..U32Max /\ (x < U32Max => SaturatingAdd(x) = x + 1)
BY ActorAssumption DEF SaturatingAdd

\* An actor's step keeps the local types.
LEMMA LocalTypesKept ==
  ASSUME LocalTypes, NEW i \in Actors, ActorStep(i)
  PROVE  LocalTypes'
<1>1. CASE LoopTop(i) \/ WaitCanceled(i) \/ SleepOver(i) \/ SleepCanceled(i) \/ DropIdle(i) \/ DropRunning(i)
  BY <1>1 DEF LocalTypes, Exits, LoopTop, WaitCanceled, SleepOver, SleepCanceled, DropIdle, DropRunning
<1>2. CASE BeginAttempt(i) \/ SpawnPanics(i)
  <2>1. attempt[i] \in 0..U32Max
    BY DEF LocalTypes
  <2>2. SaturatingAdd(attempt[i]) \in 0..U32Max
    BY <2>1, Saturates
  <2>3. attempt' \in [Actors -> 0..U32Max]
    BY <1>2, <2>2 DEF LocalTypes, BeginAttempt, SpawnPanics
  <2>4. res' \in [Actors -> Results]
    <3>1. \E r \in {"none", "fail", "cleanup"} : res' = [res EXCEPT ![i] = r]
      BY <1>2 DEF BeginAttempt, SpawnPanics
    <3> QED
      BY <3>1 DEF LocalTypes, Results
  <2> QED
    BY <1>2, <2>3, <2>4 DEF LocalTypes, BeginAttempt, SpawnPanics
<1>3. CASE ClassifyAttempt(i)
  <2>1. Classified(i) \subseteq Decisions
    BY DEF Classified, Retryable, RetriesExhausted, Decisions
  <2>2. streak' \in [Actors -> 0..StreakCap]
    <3>1. StreakCap \in Nat
      BY ActorAssumption DEF StreakCap
    <3>2. streak[i] \in 0..StreakCap
      BY DEF LocalTypes
    <3>3. (IF res[i] = "ok" THEN 0 ELSE IF streak[i] < StreakCap THEN streak[i] + 1 ELSE streak[i])
            \in 0..StreakCap
      BY <3>1, <3>2
    <3> QED
      BY <1>3, <3>3 DEF ClassifyAttempt, LocalTypes
  <2>3. decision' \in [Actors -> Decisions]
    BY <1>3, <2>1 DEF ClassifyAttempt, LocalTypes
  <2> QED
    BY <1>3, <2>2, <2>3 DEF ClassifyAttempt, LocalTypes
<1>4. CASE ApplyDecision(i)
  <2>1. backoff[i] \in 0..U32Max
    BY DEF LocalTypes
  <2>2. SaturatingAdd(backoff[i]) \in 0..U32Max /\ 0 \in 0..U32Max
    BY <2>1, Saturates, ActorAssumption
  <2>3. backoff' \in [Actors -> 0..U32Max]
    BY <1>4, <2>1, <2>2 DEF ApplyDecision, LocalTypes
  <2>4. exit' \in [Actors -> Exits]
    <3>1. ExitOf(i) \in Exits
      BY DEF ExitOf, Exits
    <3> QED
      BY <1>4, <3>1 DEF ApplyDecision, LocalTypes
  <2> QED
    BY <1>4, <2>3, <2>4 DEF ApplyDecision, LocalTypes
<1>5. CASE UserCode(i)
  <2>1. \E r \in Results : res' = [res EXCEPT ![i] = r] \/ res' = res
    <3>1. res[i] \in Results /\ {"ok", "fail", "fatal", "canceled", "timeout", "cleanup"} \subseteq Results
      BY DEF LocalTypes, Results
    <3> QED
      BY <1>5, <3>1 DEF UserCode, AttemptReady, AttemptTimeout, DisposeFuture, UnwindFuture
  <2>2. res' \in [Actors -> Results]
    BY <2>1 DEF LocalTypes
  <2> QED
    BY <1>5, <2>2 DEF LocalTypes, UserCode, AttemptReady, AttemptTimeout, DisposeFuture, UnwindFuture
<1>6. CASE UnwindGuards(i) \/ Cancel(i) \/ RequestAbort(i)
  BY <1>6 DEF LocalTypes, UnwindGuards, Cancel, RequestAbort
<1> QED
  BY <1>1, <1>2, <1>3, <1>4, <1>5, <1>6 DEF ActorStep, Loop, Dropping

\* What a classification says of the result it was made from.
LEMMA ClassifiedMeans ==
  ASSUME NEW i \in Actors, NEW d \in Classified(i)
  PROVE  /\ d \in {"ok", "retry", "final", "panicked"}
         /\ d = "ok" => res[i] = "ok"
         /\ d # "ok" => res[i] # "ok"
         /\ d = "panicked" => res[i] \in {"cleanup", "fail", "timeout"}
         /\ d = "retry" => Retryable(i) /\ ~RetriesExhausted(i)
         /\ d = "final" => res[i] # "cleanup" /\ ~(Retryable(i) /\ ~RetriesExhausted(i))
<1>1. CASE res[i] = "ok"
  <2>1. Classified(i) = {"ok"}
    <3>1. res[i] # "cleanup" /\ ~Retryable(i)
      BY <1>1 DEF Retryable
    <3> QED
      BY <1>1, <3>1 DEF Classified
  <2> QED
    BY <1>1, <2>1
<1>2. CASE res[i] = "cleanup"
  <2>1. Classified(i) = {"panicked"}
    <3>1. res[i] # "ok" /\ ~Retryable(i)
      BY <1>2 DEF Retryable
    <3> QED
      BY <1>2, <3>1 DEF Classified
  <2> QED
    BY <1>2, <2>1
<1>3. CASE res[i] # "ok" /\ res[i] # "cleanup" /\ Retryable(i) /\ ~RetriesExhausted(i)
  <2>1. Classified(i) = {"retry", "panicked"}
    BY <1>3 DEF Classified
  <2> QED
    BY <1>3, <2>1 DEF Retryable
<1>4. CASE res[i] # "ok" /\ res[i] # "cleanup" /\ ~(Retryable(i) /\ ~RetriesExhausted(i))
  <2>1. Classified(i) = {"final"}
    BY <1>4 DEF Classified
  <2> QED
    BY <1>4, <2>1
<1> QED
  BY <1>1, <1>2, <1>3, <1>4

\* A step of i conserves the permits, leaves i with a permit exactly where its
\* place in the loop has one, takes none from the others and grants one to
\* waiting actors only.
LEMMA SemaphoreKept ==
  ASSUME LocalTypes, PermitTypes, Semaphore, NEW i \in Actors, Guarded(i), ActorStep(i)
  PROVE  /\ Semaphore' /\ PermitTypes'
         /\ pc'[i] \in Holding => permit'[i]
         /\ permit'[i] => pc'[i] \in Holding \cup {"waiting"}
         /\ \A j \in Actors : j # i => /\ permit[j] => permit'[j]
                                       /\ permit'[j] /\ ~permit[j] => pc[j] = "waiting"
<1>0. \A j \in Actors : j # i => pc'[j] = pc[j]
  BY OthersKept
<1>p. \A l : pc' = [pc EXCEPT ![i] = l] => pc'[i] = l
  BY DEF LocalTypes
<1>1. CASE ApplyDecision(i) \/ UnwindGuards(i)
  <2>1. pc'[i] \in {"sleep", "exited", "dropped"} /\ permit[i] /\ ReleasePermit(i)
    BY <1>1, <1>p DEF ApplyDecision, UnwindGuards, Guarded, Holding
  <2> QED
    BY <1>0, <2>1, ReleaseKeeps DEF Holding
<1>2. CASE WaitCanceled(i) \/ (DropIdle(i) /\ pc[i] = "waiting")
  <2>1. pc'[i] \in {"exited", "dropped"} /\ pc[i] = "waiting" /\ DropAcquire(i)
    BY <1>2, <1>p DEF WaitCanceled, DropIdle
  <2> QED
    BY <1>0, <2>1, DropKeeps DEF Holding
<1>3. CASE LoopTop(i) /\ ~token[i]
  <2>1. pc'[i] = "waiting" /\ pc[i] = "top" /\ Acquire(i)
    BY <1>3, <1>p DEF LoopTop
  <2>2. ~permit[i]
    BY <2>1 DEF Guarded, Holding
  <2> QED
    BY <1>0, <2>1, <2>2, AcquireKeeps DEF Holding
<1>4. CASE BeginAttempt(i) \/ SpawnPanics(i)
  <2>1. pc'[i] \in {"running", "classify"} /\ permit[i] /\ UNCHANGED semaphore
    BY <1>4, <1>p DEF BeginAttempt, SpawnPanics
  <2>2. permit' = permit
    BY <2>1 DEF semaphore
  <2> QED
    BY <1>0, <2>1, <2>2, QueueStays DEF Holding
<1>5. ASSUME pc[i] \in Holding /\ pc'[i] \in Holding /\ UNCHANGED semaphore
      PROVE  Semaphore' /\ PermitTypes' /\ permit'[i] /\ permit' = permit
  <2>1. permit[i] /\ permit' = permit
    BY <1>5 DEF Guarded, semaphore
  <2> QED
    BY <1>0, <1>5, <2>1, QueueStays DEF Holding
<1>6. CASE UserCode(i) \/ ClassifyAttempt(i) \/ DropRunning(i)
  <2>1. pc[i] \in Holding /\ pc'[i] \in Holding /\ UNCHANGED semaphore
    BY <1>6, <1>p DEF UserCode, AttemptReady, AttemptTimeout, DisposeFuture, UnwindFuture,
                      ClassifyAttempt, DropRunning, Holding
  <2> QED
    BY <1>5, <2>1
<1>7. CASE SleepOver(i) \/ SleepCanceled(i) \/ (LoopTop(i) /\ token[i])
           \/ (DropIdle(i) /\ pc[i] # "waiting")
  <2>1. /\ pc[i] \in {"sleep", "top"} /\ pc'[i] \in {"top", "exited", "dropped"}
        /\ UNCHANGED semaphore
    BY <1>7, <1>p DEF SleepOver, SleepCanceled, LoopTop, DropIdle
  <2>2. ~permit[i] /\ permit' = permit
    BY <2>1 DEF Guarded, Holding, semaphore
  <2> QED
    BY <1>0, <2>1, <2>2, QueueStays DEF Holding
<1>8. CASE Cancel(i) \/ RequestAbort(i)
  <2>1. pc' = pc /\ UNCHANGED semaphore /\ permit' = permit
    BY <1>8 DEF Cancel, RequestAbort, semaphore
  <2> QED
    BY <1>0, <2>1, QueueStays DEF Guarded
<1> QED
  BY <1>1, <1>2, <1>3, <1>4, <1>6, <1>7, <1>8 DEF ActorStep, Loop, Dropping

\* The activity flag and the user future follow the loop.
LEMMA GuardsKept ==
  ASSUME LocalTypes, NEW i \in Actors, Guarded(i), ActorStep(i)
  PROVE  (activity'[i] <=> pc'[i] \in Active) /\ (future'[i] <=> pc'[i] \in InUserCode)
<1> USE DEF Guarded, Active, InUserCode
<1>p. \A l : pc' = [pc EXCEPT ![i] = l] => pc'[i] = l
  BY DEF LocalTypes
<1>a. \A b : activity' = [activity EXCEPT ![i] = b] => activity'[i] = b
  BY DEF LocalTypes
<1>f. \A b : future' = [future EXCEPT ![i] = b] => future'[i] = b
  BY DEF LocalTypes
<1>1. CASE LoopTop(i) \/ WaitCanceled(i) \/ SleepOver(i) \/ SleepCanceled(i) \/ DropIdle(i)
  <2>1. /\ pc[i] \in {"top", "waiting", "sleep"}
        /\ pc'[i] \in {"top", "waiting", "sleep", "exited", "dropped"}
        /\ activity' = activity /\ future' = future
    BY <1>1, <1>p DEF LoopTop, WaitCanceled, SleepOver, SleepCanceled, DropIdle
  <2> QED
    BY <2>1
<1>2. CASE BeginAttempt(i) \/ SpawnPanics(i)
  <2>1. CASE BeginAttempt(i)
    BY <1>p, <1>a, <1>f, <2>1 DEF BeginAttempt
  <2>2. CASE SpawnPanics(i)
    BY <1>p, <1>a, <2>2 DEF SpawnPanics
  <2> QED
    BY <1>2, <2>1, <2>2
<1>3. CASE UserCode(i)
  <2>1. CASE AttemptReady(i) \/ AttemptTimeout(i)
    BY <1>p, <2>1 DEF AttemptReady, AttemptTimeout
  <2>2. CASE DisposeFuture(i) \/ UnwindFuture(i)
    BY <1>p, <1>f, <2>2 DEF DisposeFuture, UnwindFuture
  <2> QED
    BY <1>3, <2>1, <2>2 DEF UserCode
<1>4. CASE ClassifyAttempt(i) \/ UnwindGuards(i)
  BY <1>4, <1>p, <1>a DEF ClassifyAttempt, UnwindGuards
<1>5. CASE ApplyDecision(i) \/ DropRunning(i)
  BY <1>5, <1>p DEF ApplyDecision, DropRunning
<1>6. CASE Cancel(i) \/ RequestAbort(i)
  BY <1>6 DEF Cancel, RequestAbort
<1> QED
  BY <1>1, <1>2, <1>3, <1>4, <1>5, <1>6 DEF ActorStep, Loop, Dropping

\* The retry counter counts the failures in a row, and the classification is
\* that of the last result: an attempt adds one failure and its decision one
\* retry, so the counter meets the budget exactly and never saturates on the way.
LEMMA RetriesKept ==
  ASSUME LocalTypes, NEW i \in Actors, Budgeted(i), Classifies(i), ActorStep(i)
  PROVE  Budgeted(i)' /\ Classifies(i)'
<1>p. \A l : pc' = [pc EXCEPT ![i] = l] => pc'[i] = l
  BY DEF LocalTypes
<1>r. \A r : res' = [res EXCEPT ![i] = r] => res'[i] = r
  BY DEF LocalTypes
<1>m. MaxRetries[i] \in 0..U32Max /\ U32Max \in Nat
  BY ActorAssumption
<1>t. streak[i] \in Nat /\ backoff[i] \in 0..U32Max /\ res[i] \in Results
  BY ActorAssumption DEF LocalTypes, StreakCap
<1>1. CASE ClassifyAttempt(i)
  <2>1. PICK d \in Classified(i) : decision' = [decision EXCEPT ![i] = d]
    BY <1>1 DEF ClassifyAttempt
  <2>2. /\ pc[i] = "classify" /\ pc'[i] = "release" /\ decision'[i] = d
        /\ res' = res /\ backoff' = backoff
    BY <1>1, <1>p, <2>1 DEF ClassifyAttempt, LocalTypes
  <2>3. streak'[i] = IF res[i] = "ok" THEN 0
                     ELSE IF streak[i] < StreakCap THEN streak[i] + 1 ELSE streak[i]
    BY <1>1 DEF ClassifyAttempt, LocalTypes
  <2>4. MaxRetries[i] # 0 => backoff[i] = streak[i] /\ streak[i] <= MaxRetries[i]
    BY <2>2 DEF Budgeted
  <2>5. MaxRetries[i] # 0 /\ d # "ok" => streak'[i] = streak[i] + 1
    BY <1>m, <1>t, <2>1, <2>3, <2>4, ClassifiedMeans DEF StreakCap
  <2>6. d = "ok" => streak'[i] = 0
    BY <2>1, <2>3, ClassifiedMeans
  <2>7. MaxRetries[i] # 0 => streak'[i] <= MaxRetries[i] + 1
    BY <1>m, <1>t, <2>4, <2>5, <2>6
  <2>8. Budgeted(i)'
    BY <2>2, <2>7 DEF Budgeted
  <2>9. d = "retry" /\ MaxRetries[i] # 0 => backoff[i] < MaxRetries[i] /\ streak'[i] = backoff[i] + 1
    BY <1>m, <1>t, <2>1, <2>4, <2>5, ClassifiedMeans DEF RetriesExhausted
  <2>10. d = "final" => res[i] \in {"fail", "timeout", "fatal", "canceled"}
    <3>1. res[i] # "none"
      BY <2>2 DEF Classifies
    <3> QED
      BY <1>t, <2>1, <3>1, ClassifiedMeans DEF Results
  <2>11. d = "final" /\ res[i] \in {"fail", "timeout"}
           => Restart[i] = "never" \/ streak'[i] = MaxRetries[i] + 1
    <3> SUFFICES ASSUME d = "final", res[i] \in {"fail", "timeout"}, Restart[i] # "never"
                 PROVE  streak'[i] = MaxRetries[i] + 1
      OBVIOUS
    <3>1. RetriesExhausted(i)
      BY <2>1, ClassifiedMeans DEF Retryable
    <3> QED
      BY <1>m, <1>t, <2>4, <2>5, <3>1 DEF RetriesExhausted
  <2>12. d # "none" /\ (d = "ok" => res[i] = "ok") /\ (d = "panicked" => res[i] \in {"cleanup", "fail", "timeout"})
    BY <2>1, ClassifiedMeans
  <2>13. Classifies(i)'
    BY <2>2, <2>6, <2>9, <2>10, <2>11, <2>12 DEF Classifies
  <2> QED
    BY <2>8, <2>13
<1>2. CASE ApplyDecision(i)
  <2>1. /\ pc[i] = "release" /\ streak' = streak
        /\ pc'[i] \in {"sleep", "exited"}
        /\ pc'[i] = "sleep" => decision[i] \in {"retry", "ok"}
    BY <1>2, <1>p DEF ApplyDecision
  <2>2. /\ decision[i] = "retry" => backoff'[i] = SaturatingAdd(backoff[i])
        /\ decision[i] = "ok" => backoff'[i] = 0
    BY <1>2 DEF ApplyDecision, LocalTypes
  <2>3. MaxRetries[i] # 0 /\ pc'[i] = "sleep" => backoff'[i] = streak[i] /\ streak[i] <= MaxRetries[i]
    <3> SUFFICES ASSUME MaxRetries[i] # 0, pc'[i] = "sleep"
                 PROVE  backoff'[i] = streak[i] /\ streak[i] <= MaxRetries[i]
      OBVIOUS
    <3>1. CASE decision[i] = "retry"
      <4>1. streak[i] = backoff[i] + 1 /\ backoff[i] < MaxRetries[i]
        BY <2>1, <3>1 DEF Classifies
      <4>2. SaturatingAdd(backoff[i]) = backoff[i] + 1
        BY <1>m, <1>t, <4>1, Saturates
      <4> QED
        BY <1>m, <1>t, <2>2, <3>1, <4>1, <4>2
    <3>2. CASE decision[i] = "ok"
      BY <1>m, <2>1, <2>2, <3>2 DEF Classifies
    <3> QED
      BY <2>1, <3>1, <3>2
  <2> QED
    BY <2>1, <2>3 DEF Budgeted, Classifies
<1>3. CASE BeginAttempt(i) \/ SpawnPanics(i) \/ UserCode(i)
  <2>1. /\ pc[i] \in {"waiting", "running", "disposing", "unwinding"}
        /\ pc'[i] \in {"running", "disposing", "classify", "guards"}
        /\ backoff' = backoff /\ streak' = streak /\ decision' = decision
    BY <1>3, <1>p DEF BeginAttempt, SpawnPanics, UserCode, AttemptReady, AttemptTimeout,
                      DisposeFuture, UnwindFuture
  <2>2. pc'[i] \in {"disposing", "classify"} => res'[i] # "none"
    <3>1. CASE SpawnPanics(i)
      BY <1>r, <3>1 DEF SpawnPanics
    <3>2. CASE AttemptReady(i) \/ AttemptTimeout(i)
      BY <1>r, <3>2 DEF AttemptReady, AttemptTimeout
    <3>3. CASE DisposeFuture(i)
      BY <1>r, <3>3 DEF DisposeFuture, Classifies
    <3>4. CASE BeginAttempt(i) \/ UnwindFuture(i)
      BY <1>p, <3>4 DEF BeginAttempt, UnwindFuture
    <3> QED
      BY <1>3, <3>1, <3>2, <3>3, <3>4 DEF UserCode
  <2> QED
    BY <2>1, <2>2 DEF Budgeted, Classifies
<1>4. CASE LoopTop(i) \/ WaitCanceled(i) \/ SleepOver(i) \/ SleepCanceled(i) \/ Dropping(i)
  <2>1. /\ pc[i] \in {"top", "waiting", "sleep", "running", "guards"}
        /\ pc'[i] \in {"top", "waiting", "exited", "dropped", "unwinding"}
        /\ backoff' = backoff /\ streak' = streak
    BY <1>4, <1>p DEF LoopTop, WaitCanceled, SleepOver, SleepCanceled, Dropping, DropIdle, DropRunning,
                      UnwindGuards
  <2> QED
    BY <2>1 DEF Budgeted, Classifies
<1>5. CASE Cancel(i) \/ RequestAbort(i)
  <2>1. pc' = pc /\ backoff' = backoff /\ streak' = streak /\ decision' = decision /\ res' = res
    BY <1>5 DEF Cancel, RequestAbort
  <2> QED
    BY <2>1 DEF Budgeted, Classifies
<1> QED
  BY <1>1, <1>2, <1>3, <1>4, <1>5 DEF ActorStep, Loop

\* The exit reason that a decision other than "go on" leads to.
LEMMA ExitMeans ==
  ASSUME NEW i \in Actors, Classifies(i), pc[i] = "release"
  PROVE  /\ ExitOf(i) # "none"
         /\ ExitOf(i) = "Panicked" => decision[i] = "panicked"
         /\ ExitOf(i) = "Completed" => decision[i] = "ok"
         /\ ExitOf(i) = "Canceled" => token[i] \/ res[i] = "canceled"
         /\ ExitOf(i) = "Fatal" => res[i] = "fatal"
         /\ ExitOf(i) = "Exhausted" => decision[i] \notin {"panicked", "ok"} /\ res[i] \notin {"fatal", "canceled"}
<1>1. CASE decision[i] = "panicked"
  <2>1. decision[i] # "ok" /\ res[i] # "fatal" /\ res[i] # "canceled"
    BY <1>1 DEF Classifies
  <2>2. ExitOf(i) = "Panicked"
    BY <1>1, <2>1 DEF ExitOf
  <2> QED
    BY <1>1, <2>2
<1>2. CASE decision[i] = "ok"
  <2>1. decision[i] # "panicked" /\ res[i] # "fatal" /\ res[i] # "canceled"
    BY <1>2 DEF Classifies
  <2>2. ExitOf(i) = IF token[i] THEN "Canceled" ELSE "Completed"
    BY <1>2, <2>1 DEF ExitOf
  <2> QED
    BY <1>2, <2>2
<1>3. CASE decision[i] # "panicked" /\ decision[i] # "ok"
  <2>1. CASE res[i] = "fatal"
    <3>1. res[i] # "canceled"
      BY <2>1
    <3>2. ExitOf(i) = "Fatal"
      BY <1>3, <2>1, <3>1 DEF ExitOf
    <3> QED
      BY <2>1, <3>2
  <2>2. CASE res[i] = "canceled"
    <3>1. res[i] # "fatal"
      BY <2>2
    <3>2. ExitOf(i) = "Canceled"
      BY <1>3, <2>2, <3>1 DEF ExitOf
    <3> QED
      BY <2>2, <3>2
  <2>3. CASE res[i] # "fatal" /\ res[i] # "canceled"
    <3>1. ExitOf(i) = "Exhausted"
      BY <1>3, <2>3 DEF ExitOf
    <3> QED
      BY <1>3, <2>3, <3>1
  <2> QED
    BY <2>1, <2>2, <2>3
<1> QED
  BY <1>1, <1>2, <1>3

\* The exit reason is the one that the last attempt and the token give.
LEMMA ExitKept ==
  ASSUME LocalTypes, NEW i \in Actors, Classifies(i), Exited(i), ActorStep(i)
  PROVE  Exited(i)'
<1>p. \A l : pc' = [pc EXCEPT ![i] = l] => pc'[i] = l
  BY DEF LocalTypes
<1>e. \A r : exit' = [exit EXCEPT ![i] = r] => exit'[i] = r
  BY DEF LocalTypes
<1>1. CASE ApplyDecision(i)
  <2> SUFFICES ASSUME pc'[i] = "exited" PROVE Exited(i)'
    BY DEF Exited
  <2>1. /\ pc[i] = "release" /\ exit'[i] = ExitOf(i)
        /\ token' = token /\ res' = res /\ streak' = streak
        /\ decision[i] # "retry" /\ (decision[i] = "ok" => Restart[i] # "always")
    BY <1>1, <1>p, <1>e DEF ApplyDecision
  <2>2. decision[i] = "ok" => backoff'[i] = 0
    BY <1>1 DEF ApplyDecision, LocalTypes
  <2>3. decision[i] \in {"ok", "final", "panicked"}
    BY <2>1 DEF Classifies, LocalTypes, Decisions
  <2>4. exit'[i] = "Completed" => res[i] = "ok" /\ Restart[i] # "always" /\ backoff'[i] = 0
    BY <2>1, <2>2, ExitMeans DEF Classifies
  <2>5. exit'[i] = "Panicked" => res[i] \in {"cleanup", "fail", "timeout"}
    BY <2>1, ExitMeans DEF Classifies
  <2>6. exit'[i] = "Exhausted" => /\ res[i] \in {"fail", "timeout"}
                                  /\ Restart[i] = "never" \/ streak[i] = MaxRetries[i] + 1
    BY <2>1, <2>3, ExitMeans DEF Classifies
  <2>7. /\ exit'[i] # "none" /\ (exit'[i] = "Canceled" => token[i] \/ res[i] = "canceled")
        /\ exit'[i] = "Fatal" => res[i] = "fatal"
    BY <2>1, ExitMeans
  <2> QED
    BY <2>1, <2>4, <2>5, <2>6, <2>7 DEF Exited
<1>2. CASE (LoopTop(i) /\ token[i]) \/ WaitCanceled(i) \/ SleepCanceled(i)
  <2>1. exit'[i] = "Canceled" /\ token[i] /\ token' = token
    BY <1>2, <1>e DEF LoopTop, WaitCanceled, SleepCanceled
  <2> QED
    BY <2>1 DEF Exited
<1>3. CASE (LoopTop(i) /\ ~token[i]) \/ BeginAttempt(i) \/ SpawnPanics(i) \/ ClassifyAttempt(i)
           \/ SleepOver(i) \/ UserCode(i) \/ Dropping(i)
  <2>1. pc'[i] # "exited"
    BY <1>3, <1>p DEF LoopTop, BeginAttempt, SpawnPanics, ClassifyAttempt, SleepOver, UserCode,
       AttemptReady, AttemptTimeout, DisposeFuture, UnwindFuture, Dropping, DropIdle, DropRunning, UnwindGuards
  <2> QED
    BY <2>1 DEF Exited
<1>4. CASE Cancel(i) \/ RequestAbort(i)
  <2>1. pc' = pc /\ backoff' = backoff /\ streak' = streak /\ exit' = exit /\ res' = res
    BY <1>4 DEF Cancel, RequestAbort
  <2>2. token[i] => token'[i]
    BY <1>4 DEF Cancel, RequestAbort, LocalTypes
  <2> QED
    BY <2>1, <2>2 DEF Exited
<1> QED
  BY <1>1, <1>2, <1>3, <1>4 DEF ActorStep, Loop

-----------------------------------------------------------------------------
(* The theorems.                                                           *)

\* A step of one actor keeps the invariant.
LEMMA ActorStepKeeps ==
  ASSUME ActorInvariant, NEW i \in Actors, ActorStep(i)
  PROVE  ActorInvariant'
<1>1. LocalTypes /\ PermitTypes /\ Semaphore
  BY TypesSplit DEF ActorInvariant
<1>2. \A j \in Actors : Guarded(j) /\ Budgeted(j) /\ Classifies(j) /\ Exited(j)
  BY DEF ActorInvariant
<1>3. LocalTypes'
  BY <1>1, LocalTypesKept
<1>4. /\ Semaphore' /\ PermitTypes'
      /\ pc'[i] \in Holding => permit'[i]
      /\ permit'[i] => pc'[i] \in Holding \cup {"waiting"}
      /\ \A j \in Actors : j # i => /\ permit[j] => permit'[j]
                                    /\ permit'[j] /\ ~permit[j] => pc[j] = "waiting"
  BY <1>1, <1>2, SemaphoreKept
<1>5. Guarded(i)'
  BY <1>1, <1>2, <1>4, GuardsKept DEF Guarded
<1>6. Budgeted(i)' /\ Classifies(i)' /\ Exited(i)'
  BY <1>1, <1>2, RetriesKept, ExitKept
<1>7. ASSUME NEW j \in Actors, j # i
      PROVE  Guarded(j)' /\ Budgeted(j)' /\ Classifies(j)' /\ Exited(j)'
  <2>1. /\ pc'[j] = pc[j] /\ token'[j] = token[j] /\ activity'[j] = activity[j]
        /\ future'[j] = future[j] /\ backoff'[j] = backoff[j] /\ res'[j] = res[j]
        /\ decision'[j] = decision[j] /\ exit'[j] = exit[j] /\ streak'[j] = streak[j]
    BY <1>1, <1>7, OthersKept
  <2>2. Guarded(j)'
    BY <1>2, <1>4, <1>7, <2>1 DEF Guarded
  <2>3. Budgeted(j)' /\ Classifies(j)'
    BY <1>2, <2>1 DEF Budgeted, Classifies
  <2>4. Exited(j)'
    BY <1>2, <2>1 DEF Exited
  <2> QED
    BY <2>2, <2>3, <2>4
<1>8. ActorTypeOK'
  BY <1>3, <1>4 DEF ActorTypeOK, LocalTypes, PermitTypes
<1> QED
  BY <1>4, <1>5, <1>6, <1>7, <1>8 DEF ActorInvariant

\* The invariant holds before any actor has moved.
LEMMA ActorInitEstablishes == ActorInit => ActorInvariant
<1> SUFFICES ASSUME ActorInit PROVE ActorInvariant
  OBVIOUS
<1>1. ActorTypeOK
  BY ActorAssumption DEF ActorInit, ActorTypeOK, Results, Decisions, Exits, StreakCap
<1>2. Holders = {}
  BY DEF ActorInit, Holders
<1>3. Semaphore
  BY <1>2, FS_EmptySet, ActorAssumption DEF ActorInit, Semaphore
<1>4. \A i \in Actors : Guarded(i) /\ Budgeted(i) /\ Classifies(i) /\ Exited(i)
  BY ActorAssumption DEF ActorInit, Guarded, Budgeted, Classifies, Exited, Holding, Active, InUserCode
<1> QED
  BY <1>1, <1>3, <1>4 DEF ActorInvariant

\* The invariant of the restart loop: however the actors' loops, user panics,
\* timeouts, cancellations and force-aborts interleave, what each actor holds
\* follows from its place in the loop, the semaphore's queue is the set of
\* actors that wait for a permit, and the retry counter is the number of
\* failures in a row.
THEOREM LoopInvariance == ActorSpec => []ActorInvariant
<1>1. ActorInvariant /\ [ActorNext]_actorVars => ActorInvariant'
  <2> SUFFICES ASSUME ActorInvariant, [ActorNext]_actorVars PROVE ActorInvariant'
    OBVIOUS
  <2>1. CASE \E i \in Actors : ActorStep(i)
    BY <2>1, ActorStepKeeps
  <2>2. CASE UNCHANGED actorVars
    BY <2>2 DEF actorVars, ActorInvariant, ActorTypeOK, Semaphore, Holders, Guarded, Budgeted,
                Classifies, Exited
  <2> QED
    BY <2>1, <2>2 DEF ActorNext, ActorStep
<1> QED
  BY <1>1, ActorInitEstablishes, PTL DEF ActorSpec

\* max_concurrent is a physical bound: permits are neither leaked nor
\* duplicated, a free permit has no waiter, and a user future exists only
\* under a permit and with the activity flag up.
THEOREM PermitsAreConserved == ActorSpec => []PermitsConserved
<1>1. ActorInvariant => PermitsConserved
  BY DEF ActorInvariant, Semaphore, Holders, Guarded, Holding, Active, InUserCode, PermitsConserved
<1> QED
  BY <1>1, LoopInvariance, PTL

\* The exit reason an actor reports is what happened to it, and a retry budget
\* of m allows exactly m + 1 failures in a row.
THEOREM ExitsAreHonest == ActorSpec => []ExitHonest
<1>1. ASSUME ActorInvariant PROVE ExitHonest
  <2>1. \A i \in Actors : MaxRetries[i] # 0 => streak[i] <= MaxRetries[i] + 1
    BY <1>1 DEF ActorInvariant, Budgeted
  <2>2. ASSUME NEW i \in Actors, pc[i] = "exited"
        PROVE  CASE exit[i] = "Completed" -> res[i] = "ok" /\ Restart[i] # "always" /\ backoff[i] = 0
                 [] exit[i] = "Canceled"  -> token[i] \/ res[i] = "canceled"
                 [] exit[i] = "Fatal"     -> res[i] = "fatal"
                 [] exit[i] = "Panicked"  -> res[i] \in {"cleanup", "fail", "timeout"}
                 [] exit[i] = "Exhausted" ->
                      /\ res[i] \in {"fail", "timeout"}
                      /\ Restart[i] = "never" \/ streak[i] = MaxRetries[i] + 1
                 [] OTHER -> FALSE
    <3>1. Exited(i)
      BY <1>1 DEF ActorInvariant
    <3>2. exit[i] \in {"Completed", "Exhausted", "Canceled", "Panicked", "Fatal"}
      BY <1>1, <2>2, <3>1 DEF ActorInvariant, ActorTypeOK, Exits, Exited
    <3>3. CASE exit[i] = "Completed"
      BY <2>2, <3>1, <3>3 DEF Exited
    <3>4. CASE exit[i] = "Canceled"
      BY <2>2, <3>1, <3>4 DEF Exited
    <3>5. CASE exit[i] = "Fatal"
      BY <2>2, <3>1, <3>5 DEF Exited
    <3>6. CASE exit[i] = "Panicked"
      BY <2>2, <3>1, <3>6 DEF Exited
    <3>7. CASE exit[i] = "Exhausted"
      BY <2>2, <3>1, <3>7 DEF Exited
    <3> QED
      BY <3>2, <3>3, <3>4, <3>5, <3>6, <3>7
  <2>3. ActorTypeOK
    BY <1>1 DEF ActorInvariant
  <2> QED
    BY <2>1, <2>2, <2>3 DEF ExitHonest
<1> QED
  BY <1>1, LoopInvariance, PTL

-----------------------------------------------------------------------------
(* The registry's view of an actor.                                        *)

\* The activity flag is down in both final places, so the cases are disjoint.
LEMMA LifeMeans ==
  ASSUME NEW place, NEW busy \in BOOLEAN, busy <=> place \in Active
  PROVE  LifeAt(place, busy) = IF place = "exited" THEN "sent" ELSE IF place = "dropped" THEN "gone"
                               ELSE IF place \in Active THEN "body" ELSE "live"
<1>1. CASE place = "exited"
  <2>1. place # "dropped" /\ ~busy
    BY <1>1 DEF Active
  <2> QED
    BY <1>1, <2>1 DEF LifeAt
<1>2. CASE place = "dropped"
  <2>1. place # "exited" /\ ~busy
    BY <1>2 DEF Active
  <2> QED
    BY <1>2, <2>1 DEF LifeAt
<1>3. CASE place # "exited" /\ place # "dropped" /\ busy
  BY <1>3 DEF LifeAt
<1>4. CASE place # "exited" /\ place # "dropped" /\ ~busy
  BY <1>4 DEF LifeAt
<1> QED
  BY <1>1, <1>2, <1>3, <1>4

\* A step of one actor is a step of ActorLife, or invisible there: an attempt
\* starts with BeginAttempt or a spawn that panics and pauses when its
\* classification drops the activity guard; exits send, aborts drop.
LEMMA LifeStep ==
  ASSUME ActorInvariant, ActorInvariant', NEW i \in Actors, ActorStep(i)
  PROVE  [Life!LifeNext]_(Life!lifeVars)
<1> DEFINE was == [j \in Actors |-> LifeOf(j)]
           now == [j \in Actors |-> LifeOf(j)']
           halted == {j \in Actors : token[j]}
           halting == {j \in Actors : token'[j]}
<1>0. LocalTypes /\ Guarded(i) /\ Guarded(i)'
  BY TypesSplit DEF ActorInvariant
<1>b. \A j \in Actors : /\ activity[j] \in BOOLEAN /\ activity'[j] \in BOOLEAN
                        /\ activity[j] <=> pc[j] \in Active
                        /\ activity'[j] <=> pc'[j] \in Active
  <2>1. activity \in [Actors -> BOOLEAN] /\ activity' \in [Actors -> BOOLEAN]
    BY DEF ActorInvariant, ActorTypeOK
  <2>2. \A j \in Actors : Guarded(j) /\ Guarded(j)'
    BY DEF ActorInvariant
  <2> QED
    BY <2>1, <2>2 DEF Guarded
<1>1. ASSUME NEW j \in Actors, j # i PROVE LifeOf(j)' = LifeOf(j) /\ token'[j] = token[j]
  BY <1>0, <1>1, OthersKept DEF LifeOf
<1>2. now = [was EXCEPT ![i] = LifeOf(i)']
  BY <1>1
<1>3. /\ LifeOf(i) = IF pc[i] = "exited" THEN "sent" ELSE IF pc[i] = "dropped" THEN "gone"
                      ELSE IF pc[i] \in Active THEN "body" ELSE "live"
      /\ LifeOf(i)' = IF pc'[i] = "exited" THEN "sent" ELSE IF pc'[i] = "dropped" THEN "gone"
                       ELSE IF pc'[i] \in Active THEN "body" ELSE "live"
  BY <1>b, LifeMeans DEF LifeOf
<1>p. \A l : pc' = [pc EXCEPT ![i] = l] => pc'[i] = l
  BY <1>0 DEF LocalTypes
<1>4. was[i] = LifeOf(i)
  OBVIOUS
<1>m. Life!LifeNext <=> \E j \in Actors :
        \/ j \notin halted /\ was[j] = "live" /\ now = [was EXCEPT ![j] = "body"] /\ halting = halted
        \/ was[j] = "body" /\ now = [was EXCEPT ![j] = "live"] /\ halting = halted
        \/ was[j] = "live" /\ now = [was EXCEPT ![j] = "sent"] /\ halting = halted
        \/ /\ \/ was[j] = "live" /\ now = [was EXCEPT ![j] = "gone"]
              \/ was[j] = "body" /\ now = [was EXCEPT ![j] = "gone"]
           /\ halting = halted
        \/ halting = halted \cup {j} /\ now = was
  BY DEF Life!LifeNext, Life!Start, Life!Pause, Life!Send, Life!Drop, Life!Stop, Life!Move
<1>u. now = was /\ halting = halted => UNCHANGED Life!lifeVars
  BY DEF Life!lifeVars
<1>t. token' = token => halting = halted
  OBVIOUS
<1> HIDE DEF was, now, halted, halting
<1>5. CASE BeginAttempt(i) \/ SpawnPanics(i)
  <2>1. /\ pc[i] = "waiting" /\ pc'[i] \in {"running", "classify"} /\ token' = token /\ ~token[i]
    BY <1>5, <1>p DEF BeginAttempt, SpawnPanics
  <2>2. was[i] = "live" /\ LifeOf(i)' = "body" /\ i \notin halted
    BY <1>3, <1>4, <2>1 DEF Active, halted
  <2> QED
    BY <1>2, <1>m, <1>t, <2>1, <2>2
<1>6. CASE ClassifyAttempt(i)
  <2>1. pc[i] = "classify" /\ pc'[i] = "release" /\ token' = token
    BY <1>6, <1>p DEF ClassifyAttempt
  <2>2. was[i] = "body" /\ LifeOf(i)' = "live"
    BY <1>3, <1>4, <2>1 DEF Active
  <2> QED
    BY <1>2, <1>m, <1>t, <2>1, <2>2
<1>7. CASE LoopTop(i) \/ WaitCanceled(i) \/ ApplyDecision(i) \/ SleepOver(i) \/ SleepCanceled(i)
  <2>1. /\ pc[i] \in {"top", "waiting", "release", "sleep"} /\ token' = token
        /\ pc'[i] \in {"top", "waiting", "sleep", "exited"}
    BY <1>7, <1>p DEF LoopTop, WaitCanceled, ApplyDecision, SleepOver, SleepCanceled
  <2>2. was[i] = "live" /\ LifeOf(i)' \in {"live", "sent"}
    BY <1>3, <1>4, <2>1 DEF Active
  <2>3. CASE LifeOf(i)' = "sent"
    BY <1>2, <1>m, <1>t, <2>1, <2>2, <2>3
  <2>4. CASE LifeOf(i)' = "live"
    <3>1. now = was
      BY <1>2, <2>2, <2>4 DEF was
    <3> QED
      BY <1>t, <1>u, <2>1, <3>1
  <2> QED
    BY <2>2, <2>3, <2>4
<1>8. CASE UserCode(i) \/ DropRunning(i)
  <2>1. /\ pc[i] \in Active /\ pc'[i] \in Active /\ token' = token
    BY <1>8, <1>p DEF UserCode, AttemptReady, AttemptTimeout, DisposeFuture, UnwindFuture, DropRunning, Active
  <2>2. was[i] = "body" /\ LifeOf(i)' = "body"
    BY <1>3, <1>4, <2>1 DEF Active
  <2>3. now = was
    BY <1>2, <2>2 DEF was
  <2> QED
    BY <1>t, <1>u, <2>1, <2>3
<1>9. CASE DropIdle(i) \/ UnwindGuards(i)
  <2>1. pc[i] \in {"top", "waiting", "sleep", "guards"} /\ pc'[i] = "dropped" /\ token' = token
    BY <1>9, <1>p DEF DropIdle, UnwindGuards
  <2>2. was[i] \in {"live", "body"} /\ LifeOf(i)' = "gone"
    BY <1>3, <1>4, <2>1 DEF Active
  <2> QED
    BY <1>2, <1>m, <1>t, <2>1, <2>2
<1>10. CASE Cancel(i) \/ RequestAbort(i)
  <2>1. pc' = pc
    BY <1>10 DEF Cancel, RequestAbort
  <2>2. now = was
    BY <1>2, <1>3, <2>1 DEF was
  <2>3. halting = halted \cup {i} \/ halting = halted
    BY <1>0, <1>10 DEF Cancel, RequestAbort, halting, halted, LocalTypes
  <2> QED
    BY <1>m, <1>u, <2>2, <2>3
<1> QED
  BY <1>5, <1>6, <1>7, <1>8, <1>9, <1>10 DEF ActorStep, Loop, Dropping

\* What Registry assumes of its actors is what run and run_once do: attempts
\* do not overlap, none starts under a cancelled token, a result is sent
\* between attempts only, and a dropped task never comes back.
THEOREM LifeImplemented == ActorSpec => ImplementsLife
<1>1. ActorInit => Life!LifeInit
  <2> SUFFICES ASSUME ActorInit PROVE Life!LifeInit
    OBVIOUS
  <2>2. \A i \in Actors : LifeOf(i) = "live"
    BY LifeMeans DEF ActorInit, Active, LifeOf
  <2>3. {i \in Actors : token[i]} = {}
    BY DEF ActorInit
  <2> QED
    BY <2>2, <2>3 DEF Life!LifeInit
<1>2. ActorInvariant /\ ActorInvariant' /\ [ActorNext]_actorVars => [Life!LifeNext]_(Life!lifeVars)
  <2> SUFFICES ASSUME ActorInvariant, ActorInvariant', [ActorNext]_actorVars
               PROVE  [Life!LifeNext]_(Life!lifeVars)
    OBVIOUS
  <2>1. CASE \E i \in Actors : ActorStep(i)
    BY <2>1, LifeStep
  <2>2. CASE UNCHANGED actorVars
    BY <2>2 DEF actorVars, Life!lifeVars, LifeOf
  <2> QED
    BY <2>1, <2>2 DEF ActorNext, ActorStep
<1> QED
  BY <1>1, <1>2, LoopInvariance, PTL DEF ActorSpec, ImplementsLife, Life!LifeSpec

(***************************************************************************)
(* Retry delays.                                                           *)
(***************************************************************************)

\* The smaller of two delays, as min picks it.
LEMMA LesserFacts ==
    ASSUME NEW a \in Nat, NEW b \in Nat
    PROVE  Lesser(a, b) \in Nat /\ Lesser(a, b) <= a /\ Lesser(a, b) <= b
BY DEF Lesser

\* The larger of two delays, as max picks it.
LEMMA GreaterFacts ==
    ASSUME NEW a \in Nat, NEW b \in Nat
    PROVE  /\ Greater(a, b) \in Nat /\ Greater(a, b) >= a /\ Greater(a, b) >= b
           /\ \A m \in Nat : a <= m /\ b <= m => Greater(a, b) <= m
BY DEF Greater

(* Every policy that new accepts, default or a named constructor returns   *)
(* is valid, and with_max, with_floor and with_jitter keep it so in any    *)
(* order: the first delay and the floor never pass the cap.                *)
THEOREM PoliciesValid ==
    ASSUME NEW first \in Nat, NEW max \in Nat, NEW jitter \in Jitters
    PROVE  /\ ~Refused(TRUE, first, max) => Valid(New(first, max, jitter))
           /\ Valid(Default) /\ Valid(Named(first))
           /\ \A p : Valid(p) => /\ Valid(WithMax(p, max))
                                 /\ Valid(WithFloor(p, first))
                                 /\ Valid(WithJitter(p, jitter))
<1>1. ~Refused(TRUE, first, max) => Valid(New(first, max, jitter))
    BY DEF Refused, Valid, New, Policies
<1>2. Valid(Default) /\ Valid(Named(first))
    BY BackoffAssumption DEF Valid, Default, Named, New, Policies, Greater, Jitters
<1>3. ASSUME NEW p, Valid(p) PROVE Valid(WithMax(p, max))
    <2>1. p \in Policies BY <1>3 DEF Valid
    <2>2. p.first \in Nat /\ p.floor \in Nat /\ p.jitter \in Jitters
        BY <2>1 DEF Policies
    <2>3. /\ Lesser(p.first, max) \in Nat /\ Lesser(p.first, max) <= max
          /\ Lesser(p.floor, max) \in Nat /\ Lesser(p.floor, max) <= max
        BY <2>2, LesserFacts
    <2> QED BY <2>2, <2>3 DEF Valid, WithMax, Policies
<1>4. ASSUME NEW p, Valid(p) PROVE Valid(WithFloor(p, first))
    <2>1. p \in Policies /\ p.first <= p.max BY <1>4 DEF Valid
    <2>2. WithFloor(p, first) = [first |-> p.first, max |-> p.max,
                                 floor |-> Lesser(first, p.max), jitter |-> p.jitter]
        BY <2>1 DEF WithFloor, Policies
    <2>3. /\ p.first \in Nat /\ p.max \in Nat /\ p.jitter \in Jitters
        BY <2>1 DEF Policies
    <2> QED BY <2>1, <2>2, <2>3, LesserFacts DEF Valid, Policies
<1>5. ASSUME NEW p, Valid(p) PROVE Valid(WithJitter(p, jitter))
    BY <1>5 DEF Valid, WithJitter, Policies
<1> QED BY <1>1, <1>2, <1>3, <1>4, <1>5

(* What jitter draws lies below the cap whenever the base does.            *)
LEMMA JitterBounded ==
    ASSUME NEW p, Valid(p), NEW base \in Nat, base <= p.max
    PROVE  /\ Jittered(p, base) # {}
           /\ \A d \in Jittered(p, base) : d \in Nat /\ d <= p.max
           /\ p.jitter # "RandomizedBand" => \A d \in Jittered(p, base) : d <= base
<1>1. p.first \in Nat /\ p.max \in Nat /\ p.first <= p.max /\ p.jitter \in Jitters
    BY DEF Valid, Policies
<1>2. CASE p.jitter = "RandomizedBand"
    <2> DEFINE lower == Lesser(Lesser(p.first, p.max), p.max)
               upper == Greater(Lesser(3 * base, p.max), lower)
    <2>1. Jittered(p, base) = IF lower >= upper THEN {lower} ELSE lower .. upper
        BY <1>2 DEF Jittered, ApplyRandomizedBand
    <2>2. lower \in Nat /\ lower <= p.max BY <1>1 DEF Lesser
    <2>3. upper \in Nat /\ upper <= p.max BY <1>1, <2>2 DEF Lesser, Greater
    <2> HIDE DEF lower, upper
    <2> QED BY <1>1, <1>2, <2>1, <2>2, <2>3
<1>3. CASE p.jitter = "None"
    BY <1>1, <1>3 DEF Jittered, Apply
<1>4. CASE p.jitter = "Full"
    BY <1>1, <1>4 DEF Jittered, Apply, FullJitter
<1>5. CASE p.jitter = "Equal"
    <2> DEFINE half == base \div 2
    <2>1. half \in Nat /\ half <= base OBVIOUS
    <2>2. Jittered(p, base) = {half + j : j \in 0 .. (base - half)}
        BY <1>5 DEF Jittered, Apply, EqualJitter
    <2> HIDE DEF half
    <2>3. half \in Jittered(p, base)
        <3>1. 0 \in 0 .. (base - half) /\ half + 0 = half BY <2>1
        <3> QED BY <2>2, <3>1
    <2>4. \A d \in Jittered(p, base) : d \in Nat /\ d <= base
        BY <2>1, <2>2
    <2> QED BY <1>1, <2>3, <2>4
<1> QED BY <1>1, <1>2, <1>3, <1>4, <1>5 DEF Jitters

(* Whatever f64 makes of the growth, every delay the actor sleeps is       *)
(* between the user's floor and the cap, and at least the safety floor (or *)
(* the cap, where that is smaller) unless the base is zero: a retry loop   *)
(* neither spins nor sleeps longer than the policy says.                   *)
THEOREM DelaysBounded ==
    ASSUME NEW p, Valid(p), NEW growth \in Nat
    PROVE  /\ DelayForRetry(p, growth) # {}
           /\ \A d \in DelayForRetry(p, growth) :
                /\ d \in Nat /\ p.floor <= d /\ d <= p.max
                /\ Base(p, growth) # 0 => d >= Lesser(MinNonzeroDelay, p.max)
<1> DEFINE base == Base(p, growth)
           safety == Lesser(MinNonzeroDelay, p.max)
<1>1. p.first \in Nat /\ p.max \in Nat /\ p.floor \in Nat /\ p.floor <= p.max
    BY DEF Valid, Policies
<1>2. base \in Nat /\ base <= p.max
    BY <1>1 DEF Base, Lesser
<1>3. safety \in Nat /\ safety <= p.max
    BY <1>1, BackoffAssumption, LesserFacts
<1>4. DelayForRetry(p, growth) = {Floored(p, base, j) : j \in Jittered(p, base)}
    BY DEF DelayForRetry
<1>5. \A j \in Jittered(p, base) :
         Floored(p, base, j) = IF base = 0 THEN Greater(j, p.floor)
                               ELSE Greater(Greater(j, p.floor), safety)
    BY DEF Floored
<1> HIDE DEF base, safety
<1>6. Jittered(p, base) # {} /\ \A j \in Jittered(p, base) : j \in Nat /\ j <= p.max
    BY <1>2, JitterBounded
<1>7. ASSUME NEW j \in Jittered(p, base)
      PROVE  LET d == Floored(p, base, j)
             IN /\ d \in Nat /\ p.floor <= d /\ d <= p.max
                /\ base # 0 => d >= safety
    BY <1>1, <1>3, <1>5, <1>6 DEF Greater
<1> QED BY <1>4, <1>6, <1>7 DEF base, safety

=============================================================================
