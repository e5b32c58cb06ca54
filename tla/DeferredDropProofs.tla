------------------------- MODULE DeferredDropProofs -------------------------
(***************************************************************************)
(* Proofs about the ownership budget and the cleanup workers: for every    *)
(* set of clients, capacity, number of workers and kinds of jobs, the      *)
(* budget and the worker counters are exact, waiters are served in order   *)
(* and no wakeup is lost.                                                  *)
(***************************************************************************)
EXTENDS DeferredDrop, QueueLemmas

(***************************************************************************)
(* The broker: what holds of its locked state b while the lifetimes are    *)
(* where f says and the executor is in the stage d.                        *)
(***************************************************************************)

ChargedIn(f) == {o \in Owners : f[o] \in {"granted", "held", "queued", "running", "leaked"}}

WaitingIn(f) == {o \in Owners : f[o] = "waiting"}

BrokerTypes(b) ==
    b \in [available : 0..Limit, effective : 0..Limit, waiters : Seq(Owners), closed : BOOLEAN]

\* Everything but that free units have been passed on.
Accounted(b, f, d) ==
    /\ BrokerTypes(b) /\ f \in [Owners -> OwnStates]
    /\ Len(b.waiters) <= Limit
    /\ Lists(Owners, b.waiters, WaitingIn(f))
    /\ ~b.closed => b.available + Cardinality(ChargedIn(f)) = b.effective
    /\ b.closed => b.effective = 0 \/ d = "closed"

Budget(b, f, d) ==
    /\ Accounted(b, f, d)
    /\ b.waiters # <<>> => ~b.closed /\ b.available = 0

\* Sets of clients can be counted.
LEMMA ClientsFinite ==
  ASSUME NEW T, T \subseteq Owners
  PROVE  IsFiniteSet(T) /\ Cardinality(T) \in Nat
BY OwnersAssumption, FS_Subset, FS_CardinalityType

\* The fields of a record of the broker.
LEMMA BrokerFields ==
  ASSUME NEW b, BrokerTypes(b)
  PROVE  /\ b.available \in 0..Limit /\ b.effective \in 0..Limit
         /\ b.waiters \in Seq(Owners) /\ Len(b.waiters) \in Nat /\ b.closed \in BOOLEAN
BY DEF BrokerTypes

\* A lifetime that gives up its unit, or its place, and is over.
LEMMA ChargedLeaves ==
  ASSUME NEW f \in [Owners -> OwnStates], NEW o \in Owners
  PROVE  LET g == [f EXCEPT ![o] = "out"]
         IN /\ g \in [Owners -> OwnStates]
            /\ ChargedIn(g) = ChargedIn(f) \ {o} /\ WaitingIn(g) = WaitingIn(f) \ {o}
            /\ Cardinality(ChargedIn(g)) = IF o \in ChargedIn(f)
                 THEN Cardinality(ChargedIn(f)) - 1 ELSE Cardinality(ChargedIn(f))
<1> DEFINE g == [f EXCEPT ![o] = "out"]
<1>1. g \in [Owners -> OwnStates]
  BY DEF OwnStates
<1>2. ChargedIn(g) = ChargedIn(f) \ {o} /\ WaitingIn(g) = WaitingIn(f) \ {o}
  BY DEF ChargedIn, WaitingIn
<1>3. IsFiniteSet(ChargedIn(f))
  BY ClientsFinite DEF ChargedIn
<1>4. Cardinality(ChargedIn(f) \ {o}) = IF o \in ChargedIn(f)
        THEN Cardinality(ChargedIn(f)) - 1 ELSE Cardinality(ChargedIn(f))
  BY <1>3, FS_RemoveElement
<1> QED
  BY <1>1, <1>2, <1>4

\* Clients of B, not charged before, take their units.
LEMMA ChargedJoin ==
  ASSUME NEW f \in [Owners -> OwnStates], NEW g \in [Owners -> OwnStates],
         NEW B \in SUBSET Owners, B \cap ChargedIn(f) = {},
         ChargedIn(g) = ChargedIn(f) \cup B
  PROVE  Cardinality(ChargedIn(g)) = Cardinality(ChargedIn(f)) + Cardinality(B)
<1>1. /\ IsFiniteSet(ChargedIn(f)) /\ Cardinality(ChargedIn(f)) \in Nat
      /\ IsFiniteSet(B) /\ Cardinality(B) \in Nat
  BY ClientsFinite DEF ChargedIn
<1>2. Cardinality(ChargedIn(f) \cap B) = 0
  BY FS_EmptySet
<1>3. Cardinality(ChargedIn(f) \cup B) =
        Cardinality(ChargedIn(f)) + Cardinality(B) - Cardinality(ChargedIn(f) \cap B)
  BY <1>1, FS_Union
<1> QED
  BY <1>1, <1>2, <1>3

\* dispatch_locked and close_waiters_locked: the free units go to the oldest
\* requests, a closed broker lets everybody go.
LEMMA SettleSettles ==
  ASSUME NEW b, NEW f, NEW d, Accounted(b, f, d), Settle(b, f)
  PROVE  /\ Budget(broker', own', d)
         /\ \A o \in Owners : \/ own'[o] = f[o]
                              \/ f[o] = "waiting" /\ own'[o] \in {"granted", "closed"}
         /\ \A i, j \in DOMAIN b.waiters :
              i < j /\ own'[b.waiters[j]] = "granted" => own'[b.waiters[i]] # "waiting"
<1> DEFINE n    == Grants(b)
           s    == b.waiters
           gets == ToSet(SubSeq(s, 1, n))
           rest == SubSeq(s, n + 1, Len(s))
<1>1. /\ b.available \in 0..Limit /\ b.effective \in 0..Limit /\ b.closed \in BOOLEAN
      /\ s \in Seq(Owners) /\ Len(s) \in Nat /\ Limit \in Nat
  BY BrokerFields, LimitAssumption DEF Accounted
<1>2. /\ n \in 0..Len(s) /\ n <= b.available
      /\ b.closed => n = 0
      /\ ~b.closed => n = b.available \/ n = Len(s)
  BY <1>1 DEF Grants, Least
<1>3. /\ Lists(Owners, rest, ToSet(rest)) /\ Len(rest) = Len(s) - n
      /\ gets \cup ToSet(rest) = WaitingIn(f) /\ gets \cap ToSet(rest) = {}
      /\ IsFiniteSet(gets) /\ Cardinality(gets) = n
      /\ \A i \in DOMAIN s : s[i] \in gets <=> i <= n
  BY <1>2, ListsSplit DEF Accounted
<1>4. /\ broker' = [b EXCEPT !.available = @ - n, !.waiters = IF b.closed THEN <<>> ELSE rest]
      /\ own' = [o \in Owners |->
                   IF o \in gets THEN "granted"
                   ELSE IF b.closed /\ o \in ToSet(rest) THEN "closed" ELSE f[o]]
  BY DEF Settle
<1> HIDE DEF n, gets, rest
<1>5. /\ broker'.available = b.available - n /\ broker'.effective = b.effective
      /\ broker'.closed = b.closed /\ broker'.waiters = IF b.closed THEN <<>> ELSE rest
  BY <1>4 DEF Accounted, BrokerTypes
<1>6. rest \in Seq(Owners) /\ <<>> \in Seq(Owners)
  BY <1>3 DEF Lists
<1>7. BrokerTypes(broker')
  <2>1. b.available - n \in 0..Limit
    BY <1>1, <1>2
  <2> QED
    BY <1>1, <1>4, <1>6, <2>1 DEF Accounted, BrokerTypes
<1>8. own' \in [Owners -> OwnStates] /\ f \in [Owners -> OwnStates]
  BY <1>4 DEF Accounted, OwnStates
<1>9. /\ \A o \in Owners : o \in gets => own'[o] = "granted"
      /\ \A o \in Owners : o \in ToSet(rest) => own'[o] = IF b.closed THEN "closed" ELSE "waiting"
      /\ \A o \in Owners : f[o] # "waiting" => own'[o] = f[o]
      /\ \A o \in Owners : f[o] = "waiting" => o \in gets \/ o \in ToSet(rest)
  BY <1>3, <1>4 DEF WaitingIn
<1>10. gets \subseteq Owners /\ ToSet(rest) \subseteq Owners /\ gets \cap ChargedIn(f) = {}
  BY <1>3 DEF WaitingIn, ChargedIn
<1>11. WaitingIn(own') = IF b.closed THEN {} ELSE ToSet(rest)
  <2>1. CASE b.closed
    BY <1>9, <1>10, <2>1 DEF WaitingIn
  <2>2. CASE ~b.closed
    BY <1>9, <1>10, <2>2 DEF WaitingIn
  <2> QED
    BY <2>1, <2>2
<1>12. Lists(Owners, broker'.waiters, WaitingIn(own'))
  BY <1>3, <1>5, <1>11, ListsNothing
<1>13. ChargedIn(own') = ChargedIn(f) \cup gets
  <2>1. \A o \in ToSet(rest) : own'[o] \in {"closed", "waiting"}
    BY <1>9, <1>10
  <2> QED
    BY <1>9, <1>10, <2>1 DEF ChargedIn
<1>14. Cardinality(ChargedIn(own')) = Cardinality(ChargedIn(f)) + n
  BY <1>3, <1>8, <1>10, <1>13, ChargedJoin
<1>15. Cardinality(ChargedIn(f)) \in Nat
  BY ClientsFinite DEF ChargedIn
<1>16. Len(broker'.waiters) <= Limit
  <2>1. Len(s) <= Limit
    BY DEF Accounted
  <2>2. Len(rest) <= Limit /\ Len(<<>>) <= Limit
    BY <1>1, <1>2, <1>3, <2>1
  <2> QED
    BY <1>5, <2>2
<1>17. ~broker'.closed => broker'.available + Cardinality(ChargedIn(own')) = broker'.effective
  <2>1. ~b.closed => b.available + Cardinality(ChargedIn(f)) = b.effective
    BY DEF Accounted
  <2> QED
    BY <1>1, <1>2, <1>5, <1>14, <1>15, <2>1
<1>18. broker'.waiters # <<>> => ~broker'.closed /\ broker'.available = 0
  <2>1. SUFFICES ASSUME broker'.waiters # <<>>, ~b.closed PROVE b.available - n = 0
    BY <1>5
  <2>2. rest # <<>> /\ rest \in Seq(Owners)
    BY <1>5, <1>6, <2>1
  <2>3. n # Len(s)
    BY <1>1, <1>3, <2>2, EmptySeq
  <2> QED
    BY <1>1, <1>2, <2>1, <2>3
<1>19. Budget(broker', own', d)
  <2>1. broker'.closed => broker'.effective = 0 \/ d = "closed"
    BY <1>5 DEF Accounted
  <2> QED
    BY <1>7, <1>8, <1>12, <1>16, <1>17, <1>18, <2>1 DEF Budget, Accounted
<1>20. \A o \in Owners : \/ own'[o] = f[o]
                         \/ f[o] = "waiting" /\ own'[o] \in {"granted", "closed"}
  <2> TAKE o \in Owners
  <2>1. f[o] = "waiting" => own'[o] = "granted" \/ own'[o] = "closed" \/ own'[o] = f[o]
    BY <1>9
  <2>2. f[o] # "waiting" => own'[o] = f[o]
    BY <1>9
  <2> QED
    BY <2>1, <2>2
<1>21. ASSUME NEW i \in DOMAIN s, NEW j \in DOMAIN s, i < j, own'[s[j]] = "granted"
       PROVE  own'[s[i]] # "waiting"
  <2>1. DOMAIN s = 1..Len(s) /\ s[i] \in Owners /\ s[j] \in Owners
    BY <1>1
  <2>2. s[j] \in WaitingIn(f)
    BY <1>1, <2>1, ListsByPlace DEF Accounted
  <2>3. s[j] \in gets
    BY <1>3, <1>9, <1>21, <2>1, <2>2
  <2>4. j <= n
    BY <1>3, <2>3
  <2>5. i <= n
    BY <1>2, <1>21, <2>1, <2>4
  <2> QED
    BY <1>3, <1>9, <2>1, <2>5
<1> QED
  BY <1>19, <1>20, <1>21

(***************************************************************************)
(* Requests: the actions of a client that has not handed its value over.   *)
(***************************************************************************)

\* Where the executor is: nothing has happened before it is started, and it
\* is closed only when no request, reservation or bundle needs it any more.
Stage ==
    /\ domain \in {"unstarted", "open", "dropped", "closed"}
    /\ domain = "unstarted" => /\ ~lent
                               /\ \A o \in Owners : own[o] = "out"
                               /\ \A w \in Workers : wpc[w] = "off"
    /\ pool.closed <=> domain = "closed"
    /\ domain = "closed" => \A o \in Owners : own[o] \in {"out", "queued", "running"}

Asks == {"out", "waiting", "granted", "closed"}

\* What a request may change: lifetimes that have no bundle yet, and the new
\* bundle of one that gets its unit.
RequestStep ==
    /\ domain \in {"open", "dropped"} /\ domain' = domain
    /\ UNCHANGED poolVars
    /\ \A o \in Owners : \/ own'[o] = own[o]
                         \/ own[o] \in Asks /\ own'[o] \in Asks \cup {"held"}
    /\ \/ bundle' = bundle /\ \A o \in Owners : own'[o] = "held" => own[o] = "held"
       \/ \E B \in SUBSET Owners : Bundle(B) /\ \A o \in B : own'[o] = "held"

\* The state of the broker, after the units of a request have been granted.
LEMMA GrantedUnits ==
  ASSUME Budget(broker, own, domain), NEW B \in SUBSET Owners, NEW n \in Nat,
         Cardinality(B) = n, \A o \in B : own[o] = "out",
         ~broker.closed, n <= broker.available,
         broker' = [broker EXCEPT !.available = @ - n],
         own' = [o \in Owners |-> IF o \in B THEN "held" ELSE own[o]]
  PROVE  Budget(broker', own', domain)
<1>1. /\ broker.available \in 0..Limit /\ broker.effective \in 0..Limit
      /\ broker.waiters \in Seq(Owners) /\ Limit \in Nat
  BY BrokerFields, LimitAssumption DEF Budget, Accounted
<1>2. /\ broker'.available = broker.available - n /\ broker'.effective = broker.effective
      /\ broker'.waiters = broker.waiters /\ broker'.closed = broker.closed
      /\ broker.available - n \in 0..Limit
  BY <1>1 DEF Budget, Accounted, BrokerTypes
<1>3. BrokerTypes(broker')
  BY <1>2 DEF Budget, Accounted, BrokerTypes
<1>4. own \in [Owners -> OwnStates] /\ own' \in [Owners -> OwnStates]
  BY DEF Budget, Accounted, OwnStates
<1>5. /\ ChargedIn(own') = ChargedIn(own) \cup B /\ B \cap ChargedIn(own) = {}
      /\ WaitingIn(own') = WaitingIn(own)
  BY DEF ChargedIn, WaitingIn
<1>6. Cardinality(ChargedIn(own')) = Cardinality(ChargedIn(own)) + n
  BY <1>4, <1>5, ChargedJoin
<1>7. Cardinality(ChargedIn(own)) \in Nat
  BY ClientsFinite DEF ChargedIn
<1>8. broker.available + Cardinality(ChargedIn(own)) = broker.effective
  BY DEF Budget, Accounted
<1>9. broker'.available + Cardinality(ChargedIn(own')) = broker'.effective
  BY <1>1, <1>2, <1>6, <1>7, <1>8
<1>10. broker'.waiters # <<>> => ~broker'.closed /\ broker'.available = 0
  <2>1. broker.waiters # <<>> => broker.available = 0
    BY DEF Budget
  <2> QED
    BY <1>1, <1>2, <2>1
<1> QED
  BY <1>2, <1>3, <1>4, <1>5, <1>9, <1>10 DEF Budget, Accounted

\* While nobody who waits is touched, nothing is granted out of order.
LEMMA OrderUntouched ==
  ASSUME Budget(broker, own, domain),
         \A o \in Owners : own[o] = "waiting" => own'[o] = "waiting",
         \A o \in Owners : own[o] = "out" /\ own'[o] = "held" => broker.waiters = <<>>
  PROVE  ServedInOrder
<1>1. broker.waiters \in Seq(Owners)
  BY BrokerFields DEF Budget, Accounted
<1>2. \A k \in DOMAIN broker.waiters :
        broker.waiters[k] \in Owners /\ own[broker.waiters[k]] = "waiting"
  BY <1>1, ListsByPlace DEF Budget, Accounted, WaitingIn
<1> QED
  BY <1>2 DEF ServedInOrder

\* start_acquire_one with a free unit.
LEMMA AcquireNowStep ==
  ASSUME Stage, Budget(broker, own, domain), NEW o \in Owners, AcquireNow(o)
  PROVE  RequestStep /\ Budget(broker', own', domain') /\ ServedInOrder
<1>1. own \in [Owners -> OwnStates] /\ domain = "open" /\ domain' = domain /\ own[o] = "out"
  BY DEF Budget, Accounted, AcquireNow, Asking
<1>2. own' = [x \in Owners |-> IF x \in {o} THEN "held" ELSE own[x]]
  BY <1>1 DEF AcquireNow
<1>3. Cardinality({o}) = 1
  BY FS_Singleton
<1>4. broker.available \in Nat /\ broker.available > 0
  BY BrokerFields, LimitAssumption DEF Budget, Accounted, AcquireNow
<1>5. Budget(broker', own', domain)
  <2>1. 1 \in Nat /\ 1 <= broker.available
    BY <1>4
  <2>2. ~broker.closed /\ broker' = [broker EXCEPT !.available = @ - 1]
    BY DEF AcquireNow
  <2>3. {o} \in SUBSET Owners /\ \A x \in {o} : own[x] = "out"
    BY <1>1
  <2> QED
    BY <1>2, <1>3, <2>1, <2>2, <2>3, GrantedUnits
<1>6. RequestStep
  <2>1. Bundle({o}) /\ UNCHANGED poolVars
    BY DEF AcquireNow
  <2> QED
    BY <1>1, <1>2, <2>1 DEF RequestStep, Asks
<1>7. ServedInOrder
  BY <1>1, <1>2, OrderUntouched DEF AcquireNow
<1> QED
  BY <1>1, <1>5, <1>6, <1>7

\* try_acquire, for a whole batch.
LEMMA TryAcquireStep ==
  ASSUME Stage, Budget(broker, own, domain), NEW B \in SUBSET Owners, TryAcquire(B)
  PROVE  RequestStep /\ Budget(broker', own', domain') /\ ServedInOrder
<1>1. /\ own \in [Owners -> OwnStates] /\ \A o \in B : own[o] = "out"
      /\ domain' = domain /\ broker.waiters = <<>> /\ ~broker.closed
      /\ own' = [x \in Owners |-> IF x \in B THEN "held" ELSE own[x]]
      /\ Cardinality(B) <= broker.available
      /\ broker' = [broker EXCEPT !.available = @ - Cardinality(B)]
      /\ Bundle(B) /\ UNCHANGED poolVars
  BY DEF Budget, Accounted, TryAcquire, Asking
<1>2. IsFiniteSet(B) /\ Cardinality(B) \in Nat
  BY ClientsFinite
<1>3. domain = "open"
  <2>1. Cardinality(B) > 0
    BY DEF TryAcquire
  <2>2. B # {}
    BY <1>2, <2>1, FS_EmptySet
  <2> QED
    BY <2>2 DEF TryAcquire, Asking
<1>4. Budget(broker', own', domain)
  BY <1>1, <1>2, GrantedUnits
<1>5. RequestStep
  BY <1>1, <1>3 DEF RequestStep, Asks
<1>6. ServedInOrder
  BY <1>1, OrderUntouched
<1> QED
  BY <1>1, <1>4, <1>5, <1>6

\* start_acquire_one without a free unit: the request is parked.
LEMMA AcquireLaterStep ==
  ASSUME Stage, Budget(broker, own, domain), NEW o \in Owners, AcquireLater(o)
  PROVE  RequestStep /\ Budget(broker', own', domain') /\ ServedInOrder
<1> DEFINE s == broker.waiters
<1>1. /\ own \in [Owners -> OwnStates] /\ domain = "open" /\ domain' = domain /\ own[o] = "out"
      /\ ~broker.closed /\ (s # <<>> \/ broker.available = 0)
      /\ broker' = [broker EXCEPT !.waiters = Append(@, o)]
      /\ own' = [own EXCEPT ![o] = "waiting"] /\ bundle' = bundle /\ UNCHANGED poolVars
  BY DEF Budget, Accounted, AcquireLater, Asking
<1>2. Lists(Owners, s, WaitingIn(own)) /\ o \notin WaitingIn(own)
  BY <1>1 DEF Budget, Accounted, WaitingIn
<1>3. Lists(Owners, Append(s, o), WaitingIn(own) \cup {o}) /\ Len(Append(s, o)) = Len(s) + 1
  BY <1>2, ListsAppend
<1>4. WaitingIn(own') = WaitingIn(own) \cup {o} /\ ChargedIn(own') = ChargedIn(own)
  BY <1>1 DEF WaitingIn, ChargedIn
<1>5. /\ broker'.available = broker.available /\ broker'.effective = broker.effective
      /\ broker'.waiters = Append(s, o) /\ broker'.closed = broker.closed
      /\ BrokerTypes(broker')
  <2>1. Append(s, o) \in Seq(Owners)
    BY <1>3 DEF Lists
  <2> QED
    BY <1>1, <2>1 DEF Budget, Accounted, BrokerTypes
<1>6. Len(broker'.waiters) <= Limit
  <2>1. Len(s) < Limit /\ Len(s) \in Nat /\ Limit \in Nat
    BY BrokerFields, LimitAssumption DEF Budget, Accounted, AcquireLater
  <2> QED
    BY <1>3, <1>5, <2>1
<1>7. broker.available = 0
  BY <1>1 DEF Budget
<1>8. own' \in [Owners -> OwnStates]
  BY <1>1 DEF OwnStates
<1>9. Budget(broker', own', domain')
  BY <1>1, <1>3, <1>4, <1>5, <1>6, <1>7, <1>8 DEF Budget, Accounted
<1>10. RequestStep
  BY <1>1 DEF RequestStep, Asks
<1>11. ServedInOrder
  BY <1>1, OrderUntouched
<1> QED
  BY <1>9, <1>10, <1>11

\* CapacityRequest::wait, with a grant or a closed broker.
LEMMA WaitReturns ==
  ASSUME Stage, Budget(broker, own, domain), NEW o \in Owners, TakeGrant(o) \/ FindClosed(o)
  PROVE  RequestStep /\ Budget(broker', own', domain') /\ ServedInOrder
<1>1. /\ own \in [Owners -> OwnStates] /\ own[o] \in {"granted", "closed"}
      /\ domain' = domain /\ broker' = broker /\ UNCHANGED poolVars
      /\ own' = [own EXCEPT ![o] = IF own[o] = "granted" THEN "held" ELSE "out"]
  BY DEF Budget, Accounted, TakeGrant, FindClosed
<1>2. own' \in [Owners -> OwnStates] /\ own'[o] = IF own[o] = "granted" THEN "held" ELSE "out"
  BY <1>1 DEF OwnStates
<1>3. WaitingIn(own') = WaitingIn(own) /\ ChargedIn(own') = ChargedIn(own)
  BY <1>1, <1>2 DEF WaitingIn, ChargedIn
<1>4. Budget(broker', own', domain')
  BY <1>1, <1>2, <1>3 DEF Budget, Accounted
<1>5. domain \in {"open", "dropped"}
  BY <1>1 DEF Stage
<1>6. RequestStep
  <2>1. \A x \in Owners : x # o => own'[x] = own[x]
    BY <1>1
  <2>2. \/ bundle' = bundle /\ own'[o] = "out"
        \/ Bundle({o}) /\ own'[o] = "held"
    BY <1>1, <1>2 DEF TakeGrant, FindClosed
  <2>3. \A x \in Owners : \/ own'[x] = own[x]
                          \/ own[x] \in Asks /\ own'[x] \in Asks \cup {"held"}
    BY <1>1, <1>2, <2>1 DEF Asks
  <2>4. \/ bundle' = bundle /\ \A x \in Owners : own'[x] = "held" => own[x] = "held"
        \/ \E B \in SUBSET Owners : Bundle(B) /\ \A x \in B : own'[x] = "held"
    BY <2>1, <2>2
  <2> QED
    BY <1>1, <1>5, <2>3, <2>4 DEF RequestStep
<1>7. ServedInOrder
  BY <1>1, OrderUntouched
<1> QED
  BY <1>4, <1>6, <1>7

\* return_capacity_locked of a charged unit: it is free, and never one too many.
LEMMA ReturnAccounted ==
  ASSUME NEW d, Budget(broker, own, d), NEW o \in Owners, o \in ChargedIn(own)
  PROVE  Accounted(Returned(broker), [own EXCEPT ![o] = "out"], d)
<1> DEFINE g == [own EXCEPT ![o] = "out"]
           b == Returned(broker)
<1>1. /\ broker.available \in 0..Limit /\ broker.effective \in 0..Limit
      /\ broker.waiters \in Seq(Owners) /\ Limit \in Nat /\ broker.closed \in BOOLEAN
      /\ own \in [Owners -> OwnStates]
  BY BrokerFields, LimitAssumption DEF Budget, Accounted
<1>2. /\ g \in [Owners -> OwnStates] /\ WaitingIn(g) = WaitingIn(own)
      /\ Cardinality(ChargedIn(g)) = Cardinality(ChargedIn(own)) - 1
  <2>1. o \notin WaitingIn(own)
    BY DEF ChargedIn, WaitingIn
  <2>2. /\ g \in [Owners -> OwnStates] /\ WaitingIn(g) = WaitingIn(own) \ {o}
        /\ Cardinality(ChargedIn(g)) = IF o \in ChargedIn(own)
             THEN Cardinality(ChargedIn(own)) - 1 ELSE Cardinality(ChargedIn(own))
    BY <1>1, ChargedLeaves
  <2> HIDE DEF g
  <2> QED
    BY <2>1, <2>2
<1>3. Cardinality(ChargedIn(own)) \in Nat /\ Cardinality(ChargedIn(g)) \in Nat
  BY ClientsFinite DEF ChargedIn
<1>4. /\ b.effective = broker.effective /\ b.waiters = broker.waiters /\ BrokerTypes(b)
      /\ broker.available < broker.effective =>
           b.available = broker.available + 1 /\ b.closed = broker.closed
      /\ ~(broker.available < broker.effective) => b.closed
  <2>1. CASE broker.available < broker.effective
    <3>1. broker.available + 1 \in 0..Limit
      BY <1>1, <2>1
    <3> QED
      BY <1>1, <2>1, <3>1 DEF Returned, Budget, Accounted, BrokerTypes
  <2>2. CASE ~(broker.available < broker.effective)
    BY <1>1, <2>2 DEF Returned, Budget, Accounted, BrokerTypes
  <2> QED
    BY <2>1, <2>2
<1> HIDE DEF g, b
<1>5. ~broker.closed => broker.available < broker.effective
  <2>1. ~broker.closed => broker.available + Cardinality(ChargedIn(own)) = broker.effective
    BY DEF Budget, Accounted
  <2> QED
    BY <1>1, <1>2, <1>3, <2>1
<1>6. ~b.closed => b.available + Cardinality(ChargedIn(g)) = b.effective
  <2>1. ~broker.closed => broker.available + Cardinality(ChargedIn(own)) = broker.effective
    BY DEF Budget, Accounted
  <2>2. SUFFICES ASSUME ~b.closed PROVE b.available + Cardinality(ChargedIn(g)) = b.effective
    OBVIOUS
  <2>3. b.available = broker.available + 1 /\ ~broker.closed
    BY <1>4, <2>2
  <2> QED
    BY <1>1, <1>2, <1>3, <1>4, <2>1, <2>3
<1>7. b.closed => b.effective = 0 \/ d = "closed"
  <2>1. broker.closed => broker.effective = 0 \/ d = "closed"
    BY DEF Budget, Accounted
  <2> QED
    BY <1>4, <1>5, <2>1
<1>8. Lists(Owners, b.waiters, WaitingIn(g)) /\ Len(b.waiters) <= Limit
  BY <1>2, <1>4 DEF Budget, Accounted
<1>9. Accounted(b, g, d)
  BY <1>2, <1>4, <1>6, <1>7, <1>8 DEF Accounted
<1> QED
  BY <1>9 DEF b, g

\* retire of a charged unit: the capacity shrinks, and only the last one
\* closes the broker.
LEMMA RetireAccounted ==
  ASSUME NEW d, Budget(broker, own, d), NEW o \in Owners, o \in ChargedIn(own)
  PROVE  Accounted(RetiredUnit(broker), [own EXCEPT ![o] = "out"], d)
<1> DEFINE g == [own EXCEPT ![o] = "out"]
           b == RetiredUnit(broker)
<1>1. /\ broker.available \in 0..Limit /\ broker.effective \in 0..Limit
      /\ broker.waiters \in Seq(Owners) /\ Limit \in Nat /\ broker.closed \in BOOLEAN
      /\ own \in [Owners -> OwnStates]
  BY BrokerFields, LimitAssumption DEF Budget, Accounted
<1>2. /\ g \in [Owners -> OwnStates] /\ WaitingIn(g) = WaitingIn(own)
      /\ Cardinality(ChargedIn(g)) = Cardinality(ChargedIn(own)) - 1
  <2>1. o \notin WaitingIn(own)
    BY DEF ChargedIn, WaitingIn
  <2>2. /\ g \in [Owners -> OwnStates] /\ WaitingIn(g) = WaitingIn(own) \ {o}
        /\ Cardinality(ChargedIn(g)) = IF o \in ChargedIn(own)
             THEN Cardinality(ChargedIn(own)) - 1 ELSE Cardinality(ChargedIn(own))
    BY <1>1, ChargedLeaves
  <2> HIDE DEF g
  <2> QED
    BY <2>1, <2>2
<1>3. Cardinality(ChargedIn(own)) \in Nat /\ Cardinality(ChargedIn(g)) \in Nat
  BY ClientsFinite DEF ChargedIn
<1>4. /\ ~broker.closed => broker.available + Cardinality(ChargedIn(own)) = broker.effective
      /\ broker.closed => broker.effective = 0 \/ d = "closed"
  BY DEF Budget, Accounted
<1>5. Lists(Owners, broker.waiters, WaitingIn(g)) /\ Len(broker.waiters) <= Limit
  BY <1>2 DEF Budget, Accounted
<1>6. CASE broker.closed
  <2>1. b = broker
    BY <1>6 DEF RetiredUnit
  <2> QED
    BY <1>2, <1>4, <1>5, <1>6, <2>1 DEF Accounted, Budget
<1>7. CASE ~broker.closed
  <2>1. ~(broker.effective = 0 \/ broker.available > broker.effective - 1)
    BY <1>1, <1>2, <1>3, <1>4, <1>7
  <2>2. b = [broker EXCEPT !.effective = @ - 1, !.closed = (broker.effective = 1)]
    BY <1>7, <2>1 DEF RetiredUnit
  <2>3. broker.effective - 1 \in 0..Limit
    BY <1>1, <2>1
  <2>4. /\ b.available = broker.available /\ b.effective = broker.effective - 1
        /\ b.waiters = broker.waiters /\ b.closed = (broker.effective = 1) /\ BrokerTypes(b)
    <3>1. BrokerTypes(broker)
      BY DEF Budget, Accounted
    <3>2. (broker.effective = 1) \in BOOLEAN
      OBVIOUS
    <3> QED
      BY <2>2, <2>3, <3>1, <3>2 DEF BrokerTypes
  <2> HIDE DEF b, g
  <2>5. b.available + Cardinality(ChargedIn(g)) = b.effective
    BY <1>1, <1>2, <1>3, <1>4, <1>7, <2>4
  <2>6. b.closed => b.effective = 0
    <3>1. broker.effective = 1 => broker.effective - 1 = 0
      OBVIOUS
    <3>2. b.closed => broker.effective = 1
      BY <2>4
    <3> QED
      BY <2>4, <3>1, <3>2
  <2>7. Lists(Owners, b.waiters, WaitingIn(g)) /\ Len(b.waiters) <= Limit
    BY <1>5, <2>4
  <2>8. b.closed => b.effective = 0 \/ d = "closed"
    BY <2>6
  <2>9. BrokerTypes(b)
    BY <2>4
  <2>10. Accounted(b, g, d)
    BY <1>2, <2>5, <2>7, <2>8, <2>9 DEF Accounted
  <2> QED
    BY <2>10 DEF b, g
<1> QED
  BY <1>1, <1>6, <1>7

\* A request leaves, whatever has become of it: g is where the lifetimes are
\* without it and b is the broker without its claim.
LEMMA CancelSettles ==
  ASSUME Stage, Budget(broker, own, domain), NEW o \in Owners, NEW b, NEW g,
         own[o] \in {"waiting", "granted", "closed"},
         g[o] = "out", \A x \in Owners : x # o => g[x] = own[x],
         Accounted(b, g, domain), Settle(b, g),
         domain' = domain, bundle' = bundle, UNCHANGED poolVars,
         KeepsOrder(broker.waiters, b.waiters, o)
  PROVE  RequestStep /\ Budget(broker', own', domain') /\ ServedInOrder
<1>1. own \in [Owners -> OwnStates] /\ domain' = domain /\ bundle' = bundle /\ UNCHANGED poolVars
  BY DEF Budget, Accounted
<1>2. g[o] = "out" /\ \A x \in Owners : x # o => g[x] = own[x]
  OBVIOUS
<1>3. /\ Budget(broker', own', domain)
      /\ \A x \in Owners : \/ own'[x] = g[x]
                           \/ g[x] = "waiting" /\ own'[x] \in {"granted", "closed"}
      /\ \A m, n \in DOMAIN b.waiters :
           m < n /\ own'[b.waiters[n]] = "granted" => own'[b.waiters[m]] # "waiting"
  BY SettleSettles
<1>4. own'[o] = "out"
  BY <1>2, <1>3
<1>5. domain \in {"open", "dropped"}
  BY DEF Stage
<1>6. \A x \in Owners : own'[x] = own[x] \/ own[x] \in Asks
  BY <1>2, <1>3 DEF Asks
<1>7. \A x \in Owners : own'[x] = own[x] \/ own'[x] \in {"out", "granted", "closed"}
  BY <1>2, <1>3, <1>4
<1>8. RequestStep
  <2>1. \A x \in Owners : \/ own'[x] = own[x]
                          \/ own[x] \in Asks /\ own'[x] \in Asks \cup {"held"}
    BY <1>6, <1>7 DEF Asks
  <2>2. \A x \in Owners : own'[x] = "held" => own[x] = "held"
    BY <1>7
  <2> QED
    BY <1>1, <1>5, <2>1, <2>2 DEF RequestStep
<1>9. ServedInOrder
  <2>1. \A x \in Owners : own[x] = "out" /\ own'[x] = "held" => broker.waiters = <<>>
    BY <1>7
  <2>2. ASSUME NEW i \in DOMAIN broker.waiters, NEW j \in DOMAIN broker.waiters,
               i < j, own'[broker.waiters[j]] = "granted"
        PROVE  own'[broker.waiters[i]] # "waiting"
    <3>1. CASE broker.waiters[i] = o
      BY <1>4, <3>1
    <3>2. CASE broker.waiters[i] # o
      <4>1. broker.waiters[j] # o
        BY <1>4, <2>2
      <4>2. PICK m, n \in DOMAIN b.waiters :
              m < n /\ b.waiters[m] = broker.waiters[i] /\ b.waiters[n] = broker.waiters[j]
        BY <2>2, <3>2, <4>1 DEF KeepsOrder
      <4> QED
        BY <1>3, <2>2, <4>2
    <3> QED
      BY <3>1, <3>2
  <2> QED
    BY <2>1, <2>2 DEF ServedInOrder
<1> QED
  BY <1>1, <1>3, <1>8, <1>9

\* The request future is dropped.
LEMMA CancelRequestStep ==
  ASSUME Stage, Budget(broker, own, domain), NEW o \in Owners, CancelRequest(o)
  PROVE  RequestStep /\ Budget(broker', own', domain') /\ ServedInOrder
<1> DEFINE g == [own EXCEPT ![o] = "out"]
<1>1. own \in [Owners -> OwnStates] /\ domain' = domain /\ bundle' = bundle /\ UNCHANGED poolVars
  BY DEF Budget, Accounted, CancelRequest
<1>2. /\ g \in [Owners -> OwnStates]
      /\ ChargedIn(g) = ChargedIn(own) \ {o} /\ WaitingIn(g) = WaitingIn(own) \ {o}
  BY <1>1, ChargedLeaves
<1>6. KeepsOrder(broker.waiters, broker.waiters, o)
  BY DEF KeepsOrder
<1>7. g[o] = "out" /\ \A x \in Owners : x # o => g[x] = own[x]
  BY <1>1
<1>8. own[o] \in {"waiting", "granted", "closed"}
  BY DEF CancelRequest
<1>3. CASE own[o] = "waiting" /\ LeaveQueue(o)
  <2>1. PICK k \in DOMAIN broker.waiters :
          broker.waiters[k] = o /\ Settle([broker EXCEPT !.waiters = RemoveAt(@, k)], g)
    BY <1>3 DEF LeaveQueue
  <2> DEFINE b == [broker EXCEPT !.waiters = RemoveAt(@, k)]
  <2>2. Lists(Owners, broker.waiters, WaitingIn(own)) /\ Len(broker.waiters) <= Limit
    BY DEF Budget, Accounted
  <2>3. /\ Lists(Owners, RemoveAt(broker.waiters, k), WaitingIn(own) \ {o})
        /\ Len(RemoveAt(broker.waiters, k)) <= Len(broker.waiters)
        /\ KeepsOrder(broker.waiters, RemoveAt(broker.waiters, k), o)
    BY <2>1, <2>2, ListsRemoveAt
  <2>4. RemoveAt(broker.waiters, k) \in Seq(Owners)
    BY <2>3 DEF Lists
  <2>5. /\ b.available = broker.available /\ b.effective = broker.effective
        /\ b.waiters = RemoveAt(broker.waiters, k) /\ b.closed = broker.closed
        /\ BrokerTypes(b)
    BY <2>4 DEF Budget, Accounted, BrokerTypes
  <2> HIDE DEF g, b
  <2>6. ChargedIn(g) = ChargedIn(own)
    BY <1>2, <1>3 DEF ChargedIn
  <2>7. Len(b.waiters) <= Limit
    <3>1. /\ Len(broker.waiters) \in Nat /\ Len(RemoveAt(broker.waiters, k)) \in Nat
          /\ Limit \in Nat
      BY <2>4, BrokerFields, LimitAssumption DEF Budget, Accounted
    <3> QED
      BY <2>2, <2>3, <2>5, <3>1
  <2>8. /\ ~b.closed => b.available + Cardinality(ChargedIn(g)) = b.effective
        /\ b.closed => b.effective = 0 \/ domain = "closed"
    BY <2>5, <2>6 DEF Budget, Accounted
  <2>9. Accounted(b, g, domain)
    BY <1>2, <2>3, <2>5, <2>7, <2>8 DEF Accounted
  <2>10. KeepsOrder(broker.waiters, b.waiters, o)
    BY <2>3, <2>5
  <2>11. PICK b0, g0 : b0 = b /\ g0 = g
    OBVIOUS
  <2>12. Settle(b0, g0)
    BY <2>1, <2>11 DEF b, Settle
  <2>13. Accounted(b0, g0, domain)
    BY <2>9, <2>11
  <2>14. KeepsOrder(broker.waiters, b0.waiters, o)
    BY <2>10, <2>11
  <2>15. g0[o] = "out" /\ \A x \in Owners : x # o => g0[x] = own[x]
    BY <1>7, <2>11
  <2> QED
    BY <1>1, <1>8, <2>12, <2>13, <2>14, <2>15, CancelSettles
<1>4. CASE own[o] = "granted" /\ Settle(Returned(broker), g)
  <2>1. Accounted(Returned(broker), g, domain)
    BY <1>4, ReturnAccounted DEF ChargedIn
  <2>2. Returned(broker).waiters = broker.waiters
    BY DEF Returned, Budget, Accounted, BrokerTypes
  <2> HIDE DEF g
  <2>3. PICK b0, g0 : b0 = Returned(broker) /\ g0 = g
    OBVIOUS
  <2>4. Settle(b0, g0)
    BY <1>4, <2>3 DEF Settle
  <2>5. Accounted(b0, g0, domain)
    BY <2>1, <2>3
  <2>6. KeepsOrder(broker.waiters, b0.waiters, o)
    BY <1>6, <2>2, <2>3
  <2>7. g0[o] = "out" /\ \A x \in Owners : x # o => g0[x] = own[x]
    BY <1>7, <2>3
  <2> QED
    BY <1>1, <1>8, <2>4, <2>5, <2>6, <2>7, CancelSettles
<1>5. CASE own[o] = "closed" /\ Settle(broker, g)
  <2>1. ChargedIn(g) = ChargedIn(own) /\ WaitingIn(g) = WaitingIn(own)
    BY <1>2, <1>5 DEF ChargedIn, WaitingIn
  <2>2. Accounted(broker, g, domain)
    BY <1>2, <2>1 DEF Budget, Accounted
  <2> HIDE DEF g
  <2>3. PICK b0, g0 : b0 = broker /\ g0 = g
    OBVIOUS
  <2>4. Settle(b0, g0)
    BY <1>5, <2>3 DEF Settle
  <2>5. Accounted(b0, g0, domain)
    BY <2>2, <2>3
  <2>6. KeepsOrder(broker.waiters, b0.waiters, o)
    BY <1>6, <2>3
  <2>7. g0[o] = "out" /\ \A x \in Owners : x # o => g0[x] = own[x]
    BY <1>7, <2>3
  <2> QED
    BY <1>1, <1>8, <2>4, <2>5, <2>6, <2>7, CancelSettles
<1> QED
  BY <1>3, <1>4, <1>5 DEF CancelRequest

(***************************************************************************)
(* The worker counters: what they are when the threads are where pc says   *)
(* and l tells whether a submitter owes a call of spawn_elastic.           *)
(***************************************************************************)

CountIn(pc, S) == Cardinality({w \in Workers : pc[w] \in S})

\* The states each counter stands for, and the weight of one thread or flag.
Coming   == {"launched", "spawn"}
Sleeping == {"idle", "woken", "expired"}
Living   == WorkerStates \ {"off", "launched"}
Busy     == {"delay", "spawn", "run"}

One(x, S) == IF x \in S THEN 1 ELSE 0

Owed(l) == IF l THEN 1 ELSE 0

\* A record whose counters are not known to be right.
PoolRecord(p) ==
    p \in [queue : Seq(Owners), closed : BOOLEAN, live : Int, idle : Int,
           starting : Int, running : Int]

Exact(p, pc, l) ==
    /\ PoolRecord(p) /\ pc \in [Workers -> WorkerStates] /\ l \in BOOLEAN
    /\ p.starting = CountIn(pc, Coming) + Owed(l)
    /\ p.idle = CountIn(pc, Sleeping)
    /\ p.live = CountIn(pc, Living)
    /\ p.running = CountIn(pc, Busy)
    /\ p.live + p.starting <= MaxWorkers

\* A thread that is only notified, or whose wait ends, is counted as before.
SameKind(a, b) == a = b \/ {a, b} \subseteq Sleeping

\* Sets of workers can be counted.
LEMMA CountsAreNumbers ==
  ASSUME NEW pc, NEW S
  PROVE  CountIn(pc, S) \in Nat /\ IsFiniteSet({w \in Workers : pc[w] \in S})
<1>1. MaxWorkers \in Int /\ 1 \in Int
  BY WorkerAssumption, LimitAssumption
<1>2. IsFiniteSet(Workers)
  BY <1>1, FS_Interval DEF Workers
<1>3. {w \in Workers : pc[w] \in S} \in SUBSET Workers
  OBVIOUS
<1>4. IsFiniteSet({w \in Workers : pc[w] \in S})
  BY <1>2, <1>3, FS_Subset
<1> QED
  BY <1>4, FS_CardinalityType DEF CountIn

\* One worker moves: the count changes by what it was and by what it is.
LEMMA CountMoves ==
  ASSUME NEW pc, NEW qc, NEW w \in Workers, NEW S,
         \A v \in Workers : v # w => (qc[v] \in S <=> pc[v] \in S)
  PROVE  CountIn(qc, S) = CountIn(pc, S) + One(qc[w], S) - One(pc[w], S)
<1> DEFINE A == {v \in Workers : pc[v] \in S}
           B == {v \in Workers : qc[v] \in S}
<1>1. IsFiniteSet(A) /\ IsFiniteSet(B) /\ Cardinality(A) \in Nat /\ Cardinality(B) \in Nat
  BY CountsAreNumbers DEF CountIn
<1>2. A \ {w} = B \ {w}
  OBVIOUS
<1>3. /\ Cardinality(A \ {w}) = IF w \in A THEN Cardinality(A) - 1 ELSE Cardinality(A)
      /\ Cardinality(B \ {w}) = IF w \in B THEN Cardinality(B) - 1 ELSE Cardinality(B)
  BY <1>1, FS_RemoveElement
<1>4. (w \in A <=> pc[w] \in S) /\ (w \in B <=> qc[w] \in S)
  OBVIOUS
<1>5. CountIn(pc, S) = Cardinality(A) /\ CountIn(qc, S) = Cardinality(B)
  BY DEF CountIn
<1> HIDE DEF A, B
<1>6. /\ One(pc[w], S) = Cardinality(A) - Cardinality(A \ {w})
      /\ One(qc[w], S) = Cardinality(B) - Cardinality(B \ {w})
  <2>1. (w \in A => Cardinality(A) - (Cardinality(A) - 1) = 1) /\ Cardinality(A) - Cardinality(A) = 0
    BY <1>1
  <2>2. (w \in B => Cardinality(B) - (Cardinality(B) - 1) = 1) /\ Cardinality(B) - Cardinality(B) = 0
    BY <1>1
  <2>3. One(pc[w], S) = Cardinality(A) - Cardinality(A \ {w})
    <3>1. CASE w \in A
      BY <1>3, <1>4, <2>1, <3>1 DEF One
    <3>2. CASE w \notin A
      BY <1>3, <1>4, <2>1, <3>2 DEF One
    <3> QED
      BY <3>1, <3>2
  <2>4. One(qc[w], S) = Cardinality(B) - Cardinality(B \ {w})
    <3>1. CASE w \in B
      BY <1>3, <1>4, <2>2, <3>1 DEF One
    <3>2. CASE w \notin B
      BY <1>3, <1>4, <2>2, <3>2 DEF One
    <3> QED
      BY <3>1, <3>2
  <2> QED
    BY <2>3, <2>4
<1>7. Cardinality(A \ {w}) \in Int
  BY <1>1, <1>3
<1> QED
  BY <1>1, <1>2, <1>5, <1>6, <1>7

\* Notifications do not show in the counters.
LEMMA KindsCounted ==
  ASSUME NEW a, NEW b, SameKind(a, b)
  PROVE  /\ a \in Coming <=> b \in Coming
         /\ a \in Sleeping <=> b \in Sleeping
         /\ a \in Living <=> b \in Living
         /\ a \in Busy <=> b \in Busy
         /\ a = "off" <=> b = "off"
BY DEF SameKind, Coming, Sleeping, Living, Busy, WorkerStates

\* The four counts, when w moves and the others are at most notified.
LEMMA CountsMove ==
  ASSUME NEW pc, NEW qc, NEW w \in Workers,
         \A v \in Workers : v # w => SameKind(pc[v], qc[v])
  PROVE  /\ CountIn(qc, Coming) = CountIn(pc, Coming) + One(qc[w], Coming) - One(pc[w], Coming)
         /\ CountIn(qc, Sleeping) =
              CountIn(pc, Sleeping) + One(qc[w], Sleeping) - One(pc[w], Sleeping)
         /\ CountIn(qc, Living) = CountIn(pc, Living) + One(qc[w], Living) - One(pc[w], Living)
         /\ CountIn(qc, Busy) = CountIn(pc, Busy) + One(qc[w], Busy) - One(pc[w], Busy)
<1>1. \A v \in Workers : v # w =>
        /\ qc[v] \in Coming <=> pc[v] \in Coming
        /\ qc[v] \in Sleeping <=> pc[v] \in Sleeping
        /\ qc[v] \in Living <=> pc[v] \in Living
        /\ qc[v] \in Busy <=> pc[v] \in Busy
  BY KindsCounted
<1>2. CountIn(qc, Coming) = CountIn(pc, Coming) + One(qc[w], Coming) - One(pc[w], Coming)
  <2>1. \A v \in Workers : v # w => (qc[v] \in Coming <=> pc[v] \in Coming)
    BY <1>1
  <2> QED
    BY <2>1, CountMoves
<1>3. CountIn(qc, Sleeping) =
        CountIn(pc, Sleeping) + One(qc[w], Sleeping) - One(pc[w], Sleeping)
  <2>1. \A v \in Workers : v # w => (qc[v] \in Sleeping <=> pc[v] \in Sleeping)
    BY <1>1
  <2> QED
    BY <2>1, CountMoves
<1>4. CountIn(qc, Living) = CountIn(pc, Living) + One(qc[w], Living) - One(pc[w], Living)
  <2>1. \A v \in Workers : v # w => (qc[v] \in Living <=> pc[v] \in Living)
    BY <1>1
  <2> QED
    BY <2>1, CountMoves
<1>5. CountIn(qc, Busy) = CountIn(pc, Busy) + One(qc[w], Busy) - One(pc[w], Busy)
  <2>1. \A v \in Workers : v # w => (qc[v] \in Busy <=> pc[v] \in Busy)
    BY <1>1
  <2> QED
    BY <2>1, CountMoves
<1> QED
  BY <1>2, <1>3, <1>4, <1>5

\* From p to q the counters change as they must for a thread that goes from
\* x to y and a submitter that owes l before and m after.
Shift(p, q, x, y, l, m) ==
    /\ PoolRecord(q)
    /\ q.starting = p.starting + One(y, Coming) - One(x, Coming) + Owed(m) - Owed(l)
    /\ q.idle = p.idle + One(y, Sleeping) - One(x, Sleeping)
    /\ q.live = p.live + One(y, Living) - One(x, Living)
    /\ q.running = p.running + One(y, Busy) - One(x, Busy)
    /\ q.live + q.starting <= MaxWorkers

\* The counters stay exact when w moves and they are changed accordingly.
LEMMA ExactMoves ==
  ASSUME NEW p, NEW pc, NEW l, Exact(p, pc, l), NEW w \in Workers,
         NEW q, NEW qc, NEW m, Shift(p, q, pc[w], qc[w], l, m), m \in BOOLEAN,
         qc \in [Workers -> WorkerStates],
         \A v \in Workers : v # w => SameKind(pc[v], qc[v])
  PROVE  Exact(q, qc, m)
<1>1. /\ CountIn(qc, Coming) = CountIn(pc, Coming) + One(qc[w], Coming) - One(pc[w], Coming)
      /\ CountIn(qc, Sleeping) =
           CountIn(pc, Sleeping) + One(qc[w], Sleeping) - One(pc[w], Sleeping)
      /\ CountIn(qc, Living) = CountIn(pc, Living) + One(qc[w], Living) - One(pc[w], Living)
      /\ CountIn(qc, Busy) = CountIn(pc, Busy) + One(qc[w], Busy) - One(pc[w], Busy)
  BY CountsMove
<1>2. /\ CountIn(pc, Coming) \in Nat /\ CountIn(pc, Sleeping) \in Nat
      /\ CountIn(pc, Living) \in Nat /\ CountIn(pc, Busy) \in Nat
  BY CountsAreNumbers
<1>3. /\ \A x, S : One(x, S) \in {0, 1}
      /\ Owed(l) \in {0, 1} /\ Owed(m) \in {0, 1}
  BY DEF One, Owed
<1>4. /\ p.starting = CountIn(pc, Coming) + Owed(l) /\ p.idle = CountIn(pc, Sleeping)
      /\ p.live = CountIn(pc, Living) /\ p.running = CountIn(pc, Busy)
  BY DEF Exact
<1>5. /\ q.starting = CountIn(qc, Coming) + Owed(m) /\ q.idle = CountIn(qc, Sleeping)
      /\ q.live = CountIn(qc, Living) /\ q.running = CountIn(qc, Busy)
  <2>1. /\ q.starting = p.starting + One(qc[w], Coming) - One(pc[w], Coming) + Owed(m) - Owed(l)
        /\ q.idle = p.idle + One(qc[w], Sleeping) - One(pc[w], Sleeping)
        /\ q.live = p.live + One(qc[w], Living) - One(pc[w], Living)
        /\ q.running = p.running + One(qc[w], Busy) - One(pc[w], Busy)
    BY DEF Shift
  <2> QED
    BY <1>1, <1>2, <1>3, <1>4, <2>1
<1> QED
  BY <1>5 DEF Exact, Shift

\* The fields of the pool's record, and what the counters are at most.
LEMMA PoolFields ==
  ASSUME NEW p, NEW pc, NEW l, Exact(p, pc, l)
  PROVE  /\ p.queue \in Seq(Owners) /\ p.closed \in BOOLEAN
         /\ p.live \in Nat /\ p.idle \in Nat /\ p.starting \in Nat /\ p.running \in Nat
         /\ p.live + p.starting <= MaxWorkers /\ MaxWorkers \in Nat
         /\ l => p.starting > 0
<1>1. /\ CountIn(pc, Coming) \in Nat /\ CountIn(pc, Sleeping) \in Nat
      /\ CountIn(pc, Living) \in Nat /\ CountIn(pc, Busy) \in Nat
  BY CountsAreNumbers
<1>2. Owed(l) \in {0, 1} /\ (l => Owed(l) = 1)
  BY DEF Owed
<1>3. MaxWorkers \in Nat
  BY WorkerAssumption, LimitAssumption
<1> QED
  BY <1>1, <1>2, <1>3 DEF Exact, PoolRecord

\* What each state of a thread weighs.
LEMMA Weights ==
  /\ \A x \in {"idle", "woken", "expired"} :
       One(x, Coming) = 0 /\ One(x, Sleeping) = 1 /\ One(x, Living) = 1 /\ One(x, Busy) = 0
  /\ \A x \in {"delay", "run"} :
       One(x, Coming) = 0 /\ One(x, Sleeping) = 0 /\ One(x, Living) = 1 /\ One(x, Busy) = 1
  /\ One("off", Coming) = 0 /\ One("off", Sleeping) = 0
  /\ One("off", Living) = 0 /\ One("off", Busy) = 0
  /\ One("launched", Coming) = 1 /\ One("launched", Sleeping) = 0
  /\ One("launched", Living) = 0 /\ One("launched", Busy) = 0
  /\ One("ready", Coming) = 0 /\ One("ready", Sleeping) = 0
  /\ One("ready", Living) = 1 /\ One("ready", Busy) = 0
  /\ One("spawn", Coming) = 1 /\ One("spawn", Sleeping) = 0
  /\ One("spawn", Living) = 1 /\ One("spawn", Busy) = 1
  /\ Owed(TRUE) = 1 /\ Owed(FALSE) = 0
BY DEF One, Owed, Coming, Sleeping, Living, Busy, WorkerStates

\* The counters of a worker that is back under the lock of take, which from
\* then on is counted as alive and as nothing else.
LEMMA EnteredCounts ==
  ASSUME Exact(pool, wpc, lent), NEW w \in Workers, InTake(w)
  PROVE  LET e == Entered(w)
             x == wpc[w]
         IN /\ PoolRecord(e) /\ e.queue = pool.queue /\ e.closed = pool.closed
            /\ e.starting = pool.starting - One(x, Coming)
            /\ e.idle = pool.idle - One(x, Sleeping)
            /\ e.live = pool.live + 1 - One(x, Living)
            /\ e.running = pool.running - One(x, Busy)
            /\ e.live + e.starting <= MaxWorkers
<1> DEFINE e == Entered(w)
           x == wpc[w]
<1>1. /\ pool.queue \in Seq(Owners) /\ pool.closed \in BOOLEAN
      /\ pool.live \in Nat /\ pool.idle \in Nat /\ pool.starting \in Nat /\ pool.running \in Nat
      /\ pool.live + pool.starting <= MaxWorkers /\ MaxWorkers \in Nat
  BY PoolFields
<1>2. PoolRecord(pool)
  BY DEF Exact
<1>3. CASE x = "launched"
  <2>1. e = [pool EXCEPT !.starting = @ - 1, !.live = @ + 1]
    BY <1>3 DEF Entered
  <2>2. PoolRecord(e) /\ e.queue = pool.queue /\ e.closed = pool.closed
    <3>1. pool.starting - 1 \in Int /\ pool.live + 1 \in Int
      BY <1>1
    <3> QED
      BY <1>2, <2>1, <3>1 DEF PoolRecord
  <2>3. /\ e.starting = pool.starting - 1 /\ e.live = pool.live + 1
        /\ e.idle = pool.idle /\ e.running = pool.running
    BY <1>2, <2>1 DEF PoolRecord
  <2> HIDE DEF e
  <2>4. /\ One(x, Coming) = 1 /\ One(x, Sleeping) = 0 /\ One(x, Living) = 0 /\ One(x, Busy) = 0
    BY <1>3, Weights
  <2> HIDE DEF x
  <2>5. /\ e.starting = pool.starting - One(x, Coming)
        /\ e.idle = pool.idle - One(x, Sleeping)
        /\ e.live = pool.live + 1 - One(x, Living)
        /\ e.running = pool.running - One(x, Busy)
        /\ e.live + e.starting <= MaxWorkers
    BY <1>1, <2>3, <2>4
  <2> QED
    BY <2>2, <2>5 DEF e, x
<1>4. CASE x \in {"woken", "expired"}
  <2>1. e = [pool EXCEPT !.idle = @ - 1]
    BY <1>4 DEF Entered
  <2>2. PoolRecord(e) /\ e.queue = pool.queue /\ e.closed = pool.closed
    <3>1. pool.idle - 1 \in Int
      BY <1>1
    <3> QED
      BY <1>2, <2>1, <3>1 DEF PoolRecord
  <2>3. /\ e.starting = pool.starting /\ e.live = pool.live
        /\ e.idle = pool.idle - 1 /\ e.running = pool.running
    BY <1>2, <2>1 DEF PoolRecord
  <2> HIDE DEF e
  <2>4. /\ One(x, Coming) = 0 /\ One(x, Sleeping) = 1 /\ One(x, Living) = 1 /\ One(x, Busy) = 0
    BY <1>4, Weights
  <2> HIDE DEF x
  <2>5. /\ e.starting = pool.starting - One(x, Coming)
        /\ e.idle = pool.idle - One(x, Sleeping)
        /\ e.live = pool.live + 1 - One(x, Living)
        /\ e.running = pool.running - One(x, Busy)
        /\ e.live + e.starting <= MaxWorkers
    BY <1>1, <2>3, <2>4
  <2> QED
    BY <2>2, <2>5 DEF e, x
<1>5. CASE x = "ready"
  <2>1. e = pool
    BY <1>5 DEF Entered
  <2>2. /\ One(x, Coming) = 0 /\ One(x, Sleeping) = 0 /\ One(x, Living) = 1 /\ One(x, Busy) = 0
    BY <1>5, Weights
  <2> HIDE DEF x, e
  <2>3. /\ e.starting = pool.starting - One(x, Coming)
        /\ e.idle = pool.idle - One(x, Sleeping)
        /\ e.live = pool.live + 1 - One(x, Living)
        /\ e.running = pool.running - One(x, Busy)
        /\ e.live + e.starting <= MaxWorkers
    BY <1>1, <2>1, <2>2
  <2> QED
    BY <1>2, <2>1, <2>3 DEF e, x
<1> QED
  BY <1>3, <1>4, <1>5 DEF InTake

\* reserve_elastic_locked, by a worker on its way to spawn_elastic.
LEMMA ReserveCounts ==
  ASSUME NEW p, PoolRecord(p), NeedsElastic(p)
  PROVE  LET q == Reserve(p)
         IN /\ PoolRecord(q) /\ q.queue = p.queue /\ q.closed = p.closed
            /\ q.starting = p.starting + 1 /\ q.idle = p.idle
            /\ q.live = p.live /\ q.running = p.running
            /\ q.live + q.starting <= MaxWorkers
<1> DEFINE q == Reserve(p)
<1>1. q = [p EXCEPT !.starting = @ + 1]
  BY DEF Reserve
<1>2. p.starting \in Int /\ p.starting + 1 \in Int /\ p.live \in Int /\ MaxWorkers \in Int
  BY WorkerAssumption, LimitAssumption DEF PoolRecord
<1>3. /\ PoolRecord(q) /\ q.queue = p.queue /\ q.closed = p.closed
      /\ q.starting = p.starting + 1 /\ q.idle = p.idle
      /\ q.live = p.live /\ q.running = p.running
  BY <1>1, <1>2 DEF PoolRecord
<1> HIDE DEF q
<1>4. q.live + q.starting <= MaxWorkers
  BY <1>2, <1>3 DEF NeedsElastic
<1> QED
  BY <1>3, <1>4 DEF q

\* notify_all changes no kind and leaves nobody asleep.
LEMMA NotifyAllKinds ==
  ASSUME NEW pc \in [Workers -> WorkerStates]
  PROVE  /\ NotifyAll(pc) \in [Workers -> WorkerStates]
         /\ \A v \in Workers : NotifyAll(pc)[v] # "idle" /\ SameKind(pc[v], NotifyAll(pc)[v])
BY DEF NotifyAll, SameKind, Sleeping, WorkerStates

\* A step of the workers: the counters follow the threads.  The queue, the
\* lifetimes and the batches the workers have do not change.
WorkerStep ==
    /\ domain # "unstarted"
    /\ UNCHANGED clientVars /\ job' = job
    /\ Exact(pool', wpc', lent')
    /\ pool'.queue = pool.queue /\ pool'.closed = pool.closed
    /\ \A v \in Workers : wpc'[v] \in Busy <=> wpc[v] \in Busy
    /\ BacklogAttended'

\* The end of take: p is what the counters are if the thread just runs.
LEMMA ProceedExact ==
  ASSUME Exact(pool, wpc, lent), NEW w \in Workers, NEW p,
         Shift(pool, p, wpc[w], "run", lent, lent), Proceed(w, p)
  PROVE  /\ Exact(pool', wpc', lent)
         /\ pool'.queue = p.queue /\ pool'.closed = p.closed
         /\ wpc'[w] \in {"run", "spawn"}
         /\ \A v \in Workers : wpc'[v] # "idle" /\ (v # w => SameKind(wpc[v], wpc'[v]))
<1> DEFINE grow == MayExpand(w, p) /\ NeedsElastic(p)
<1>1. wpc \in [Workers -> WorkerStates] /\ lent \in BOOLEAN
  BY DEF Exact
<1>2. /\ NotifyAll(wpc) \in [Workers -> WorkerStates]
      /\ \A v \in Workers : NotifyAll(wpc)[v] # "idle" /\ SameKind(wpc[v], NotifyAll(wpc)[v])
  BY <1>1, NotifyAllKinds
<1>3. /\ pool' = IF grow THEN Reserve(p) ELSE p
      /\ wpc' = [NotifyAll(wpc) EXCEPT ![w] = IF grow THEN "spawn" ELSE "run"]
  BY DEF Proceed
<1>4. /\ wpc' \in [Workers -> WorkerStates]
      /\ wpc'[w] = IF grow THEN "spawn" ELSE "run"
      /\ \A v \in Workers : v # w => wpc'[v] = NotifyAll(wpc)[v]
  BY <1>2, <1>3 DEF WorkerStates
<1>5. \A v \in Workers : wpc'[v] # "idle" /\ (v # w => SameKind(wpc[v], wpc'[v]))
  BY <1>2, <1>4
<1>6. /\ PoolRecord(p) /\ p.starting \in Int /\ pool.starting \in Int
      /\ One(wpc[w], Coming) \in Int /\ Owed(lent) \in Int
  <2>1. PoolRecord(p) /\ PoolRecord(pool)
    BY DEF Shift, Exact
  <2> QED
    BY <2>1 DEF PoolRecord, One, Owed
<1>7. Shift(pool, pool', wpc[w], wpc'[w], lent, lent)
  <2>1. CASE ~grow
    BY <1>3, <1>4, <2>1
  <2>2. CASE grow
    <3>1. pool' = Reserve(p) /\ wpc'[w] = "spawn"
      BY <1>3, <1>4, <2>2
    <3>2. /\ PoolRecord(pool') /\ pool'.starting = p.starting + 1 /\ pool'.idle = p.idle
          /\ pool'.live = p.live /\ pool'.running = p.running
          /\ pool'.live + pool'.starting <= MaxWorkers
      BY <1>6, <2>2, <3>1, ReserveCounts
    <3>3. /\ One("spawn", Coming) = One("run", Coming) + 1
          /\ One("run", Coming) = 0
          /\ One("spawn", Sleeping) = One("run", Sleeping)
          /\ One("spawn", Living) = One("run", Living)
          /\ One("spawn", Busy) = One("run", Busy)
      BY Weights
    <3>4. /\ p.starting = pool.starting + 0 - One(wpc[w], Coming) + Owed(lent) - Owed(lent)
          /\ p.idle = pool.idle + One("run", Sleeping) - One(wpc[w], Sleeping)
          /\ p.live = pool.live + One("run", Living) - One(wpc[w], Living)
          /\ p.running = pool.running + One("run", Busy) - One(wpc[w], Busy)
      BY <3>3 DEF Shift
    <3>5. pool'.starting =
            pool.starting + One("spawn", Coming) - One(wpc[w], Coming) + Owed(lent) - Owed(lent)
      BY <1>6, <3>2, <3>3, <3>4
    <3> QED
      BY <3>1, <3>2, <3>3, <3>4, <3>5 DEF Shift
  <2> QED
    BY <2>1, <2>2
<1>8. Exact(pool', wpc', lent)
  BY <1>1, <1>4, <1>5, <1>7, ExactMoves
<1>9. pool'.queue = p.queue /\ pool'.closed = p.closed
  BY <1>3, <1>6, ReserveCounts
<1> QED
  BY <1>4, <1>5, <1>8, <1>9

\* A worker's expansion delay is over.
LEMMA DelayOverStep ==
  ASSUME Stage, Exact(pool, wpc, lent), NEW w \in Workers, DelayOver(w)
  PROVE  WorkerStep
<1>1. /\ wpc[w] = "delay" /\ Proceed(w, pool) /\ UNCHANGED clientVars
      /\ job' = job /\ lent' = lent
  BY DEF DelayOver
<1>2. Shift(pool, pool, wpc[w], "run", lent, lent)
  <2>1. PoolRecord(pool) /\ pool.live + pool.starting <= MaxWorkers
    BY DEF Exact
  <2>2. /\ pool.live \in Int /\ pool.idle \in Int /\ pool.starting \in Int /\ pool.running \in Int
    BY <2>1 DEF PoolRecord
  <2>3. Owed(lent) \in Int
    BY DEF Owed
  <2>4. /\ One("delay", Coming) = 0 /\ One("run", Coming) = 0
        /\ One("delay", Sleeping) = 0 /\ One("run", Sleeping) = 0
        /\ One("delay", Living) = 1 /\ One("run", Living) = 1
        /\ One("delay", Busy) = 1 /\ One("run", Busy) = 1
    BY Weights
  <2> QED
    BY <1>1, <2>1, <2>2, <2>3, <2>4 DEF Shift
<1>3. /\ Exact(pool', wpc', lent) /\ pool'.queue = pool.queue /\ pool'.closed = pool.closed
      /\ wpc'[w] \in {"run", "spawn"}
      /\ \A v \in Workers : wpc'[v] # "idle" /\ (v # w => SameKind(wpc[v], wpc'[v]))
  BY <1>1, <1>2, ProceedExact
<1>4. \A v \in Workers : wpc'[v] \in Busy <=> wpc[v] \in Busy
  <2>1. wpc'[w] \in Busy /\ wpc[w] \in Busy
    BY <1>1, <1>3 DEF Busy
  <2>2. \A v \in Workers : v # w => (wpc'[v] \in Busy <=> wpc[v] \in Busy)
    BY <1>3, KindsCounted
  <2> QED
    BY <2>1, <2>2
<1>5. BacklogAttended'
  BY <1>3 DEF BacklogAttended
<1>6. domain # "unstarted"
  BY <1>1 DEF Stage
<1> QED
  BY <1>1, <1>3, <1>4, <1>5, <1>6 DEF WorkerStep

\* A worker leaves the lock of take again in the state y.
LEMMA EnteredMoves ==
  ASSUME Exact(pool, wpc, lent), NEW w \in Workers, InTake(w), NEW y, NEW q, PoolRecord(q),
         q.starting = Entered(w).starting + One(y, Coming),
         q.idle = Entered(w).idle + One(y, Sleeping),
         q.live = Entered(w).live - 1 + One(y, Living),
         q.running = Entered(w).running + One(y, Busy),
         q.live + q.starting <= MaxWorkers
  PROVE  Shift(pool, q, wpc[w], y, lent, lent)
<1> DEFINE e == Entered(w)
           x == wpc[w]
<1>1. /\ e.starting = pool.starting - One(x, Coming)
      /\ e.idle = pool.idle - One(x, Sleeping)
      /\ e.live = pool.live + 1 - One(x, Living)
      /\ e.running = pool.running - One(x, Busy)
  BY EnteredCounts
<1>2. /\ pool.live \in Nat /\ pool.idle \in Nat /\ pool.starting \in Nat /\ pool.running \in Nat
  BY PoolFields
<1>3. (\A u, S : One(u, S) \in {0, 1}) /\ Owed(lent) \in {0, 1}
  BY DEF One, Owed
<1> HIDE DEF e, x
<1>4. /\ q.starting = e.starting + One(y, Coming)
      /\ q.idle = e.idle + One(y, Sleeping)
      /\ q.live = e.live - 1 + One(y, Living)
      /\ q.running = e.running + One(y, Busy)
  BY DEF e
<1>5. /\ q.starting = pool.starting + One(y, Coming) - One(x, Coming) + Owed(lent) - Owed(lent)
      /\ q.idle = pool.idle + One(y, Sleeping) - One(x, Sleeping)
      /\ q.live = pool.live + One(y, Living) - One(x, Living)
      /\ q.running = pool.running + One(y, Busy) - One(x, Busy)
  BY <1>1, <1>2, <1>3, <1>4
<1> QED
  BY <1>5 DEF Shift, x

\* A worker that has nothing to do goes to sleep.
LEMMA GoIdleStep ==
  ASSUME Stage, Exact(pool, wpc, lent), NEW w \in Workers, GoIdle(w)
  PROVE  WorkerStep
<1> DEFINE e == Entered(w)
<1>1. /\ InTake(w) /\ pool.queue = <<>> /\ UNCHANGED clientVars /\ job' = job /\ lent' = lent
      /\ pool' = [e EXCEPT !.idle = @ + 1]
      /\ wpc' = [(IF pool'.idle = 1 THEN NotifyAll(wpc) ELSE wpc) EXCEPT ![w] = "idle"]
  BY DEF GoIdle
<1>2. /\ PoolRecord(e) /\ e.queue = pool.queue /\ e.closed = pool.closed
      /\ e.live + e.starting <= MaxWorkers
  BY <1>1, EnteredCounts
<1>3. e.live \in Int /\ e.idle \in Int /\ e.starting \in Int /\ e.running \in Int
  BY <1>2 DEF PoolRecord
<1>4. wpc \in [Workers -> WorkerStates] /\ lent \in BOOLEAN
  BY DEF Exact
<1>5. /\ PoolRecord(pool') /\ pool'.queue = e.queue /\ pool'.closed = e.closed
      /\ pool'.starting = e.starting /\ pool'.idle = e.idle + 1
      /\ pool'.live = e.live /\ pool'.running = e.running
  <2>1. e.idle + 1 \in Int
    BY <1>3
  <2> HIDE DEF e
  <2> QED
    BY <1>1, <1>2, <2>1 DEF PoolRecord
<1>6. /\ One("idle", Coming) = 0 /\ One("idle", Sleeping) = 1
      /\ One("idle", Living) = 1 /\ One("idle", Busy) = 0
  BY Weights
<1>7. Shift(pool, pool', wpc[w], "idle", lent, lent)
  <2>1. /\ pool'.starting = e.starting + One("idle", Coming)
        /\ pool'.idle = e.idle + One("idle", Sleeping)
        /\ pool'.live = e.live - 1 + One("idle", Living)
        /\ pool'.running = e.running + One("idle", Busy)
        /\ pool'.live + pool'.starting <= MaxWorkers
    BY <1>2, <1>3, <1>5, <1>6
  <2> QED
    BY <1>1, <1>5, <2>1, EnteredMoves
<1> HIDE DEF e
<1>8. PICK pc \in [Workers -> WorkerStates] :
        wpc' = [pc EXCEPT ![w] = "idle"] /\ \A v \in Workers : SameKind(wpc[v], pc[v])
  <2>1. CASE pool'.idle = 1
    BY <1>1, <1>4, <2>1, NotifyAllKinds
  <2>2. CASE pool'.idle # 1
    BY <1>1, <1>4, <2>2 DEF SameKind
  <2> QED
    BY <2>1, <2>2
<1>9. /\ wpc' \in [Workers -> WorkerStates] /\ wpc'[w] = "idle"
      /\ \A v \in Workers : v # w => SameKind(wpc[v], wpc'[v])
  BY <1>8 DEF WorkerStates
<1>10. Exact(pool', wpc', lent)
  BY <1>4, <1>7, <1>9, ExactMoves
<1>11. \A v \in Workers : wpc'[v] \in Busy <=> wpc[v] \in Busy
  <2>1. wpc'[w] \notin Busy /\ wpc[w] \notin Busy
    BY <1>1, <1>9 DEF InTake, Busy
  <2>2. \A v \in Workers : v # w => (wpc'[v] \in Busy <=> wpc[v] \in Busy)
    BY <1>9, KindsCounted
  <2> QED
    BY <2>1, <2>2
<1>12. BacklogAttended'
  BY <1>1, <1>2, <1>5 DEF BacklogAttended
<1>13. domain # "unstarted"
  BY <1>1 DEF Stage, InTake
<1> QED
  BY <1>1, <1>2, <1>5, <1>10, <1>11, <1>12, <1>13 DEF WorkerStep

\* A worker meets a closed and empty queue.
LEMMA ExitClosedStep ==
  ASSUME Stage, Exact(pool, wpc, lent), NEW w \in Workers, ExitClosed(w)
  PROVE  WorkerStep
<1> DEFINE e == Entered(w)
<1>1. /\ InTake(w) /\ pool.queue = <<>> /\ UNCHANGED clientVars /\ job' = job /\ lent' = lent
      /\ pool' = [e EXCEPT !.live = @ - 1]
      /\ wpc' = [NotifyAll(wpc) EXCEPT ![w] = "off"]
  BY DEF ExitClosed
<1>2. /\ PoolRecord(e) /\ e.queue = pool.queue /\ e.closed = pool.closed
      /\ e.live + e.starting <= MaxWorkers /\ MaxWorkers \in Int
  BY <1>1, EnteredCounts, WorkerAssumption, LimitAssumption
<1>3. e.live \in Int /\ e.idle \in Int /\ e.starting \in Int /\ e.running \in Int
  BY <1>2 DEF PoolRecord
<1>4. wpc \in [Workers -> WorkerStates] /\ lent \in BOOLEAN
  BY DEF Exact
<1>5. /\ PoolRecord(pool') /\ pool'.queue = e.queue /\ pool'.closed = e.closed
      /\ pool'.starting = e.starting /\ pool'.idle = e.idle
      /\ pool'.live = e.live - 1 /\ pool'.running = e.running
  <2>1. e.live - 1 \in Int
    BY <1>3
  <2> HIDE DEF e
  <2> QED
    BY <1>1, <1>2, <2>1 DEF PoolRecord
<1>6. /\ One("off", Coming) = 0 /\ One("off", Sleeping) = 0
      /\ One("off", Living) = 0 /\ One("off", Busy) = 0
  BY Weights
<1>7. Shift(pool, pool', wpc[w], "off", lent, lent)
  <2>1. /\ pool'.starting = e.starting + One("off", Coming)
        /\ pool'.idle = e.idle + One("off", Sleeping)
        /\ pool'.live = e.live - 1 + One("off", Living)
        /\ pool'.running = e.running + One("off", Busy)
        /\ pool'.live + pool'.starting <= MaxWorkers
    BY <1>2, <1>3, <1>5, <1>6
  <2> QED
    BY <1>1, <1>5, <2>1, EnteredMoves
<1> HIDE DEF e
<1>8. /\ NotifyAll(wpc) \in [Workers -> WorkerStates]
      /\ \A v \in Workers : SameKind(wpc[v], NotifyAll(wpc)[v])
  BY <1>4, NotifyAllKinds
<1>9. /\ wpc' \in [Workers -> WorkerStates] /\ wpc'[w] = "off"
      /\ \A v \in Workers : v # w => SameKind(wpc[v], wpc'[v])
  BY <1>1, <1>8 DEF WorkerStates
<1>10. Exact(pool', wpc', lent)
  BY <1>4, <1>7, <1>9, ExactMoves
<1>11. \A v \in Workers : wpc'[v] \in Busy <=> wpc[v] \in Busy
  <2>1. wpc'[w] \notin Busy /\ wpc[w] \notin Busy
    BY <1>1, <1>9 DEF InTake, Busy
  <2>2. \A v \in Workers : v # w => (wpc'[v] \in Busy <=> wpc[v] \in Busy)
    BY <1>9, KindsCounted
  <2> QED
    BY <2>1, <2>2
<1>12. BacklogAttended'
  BY <1>1, <1>2, <1>5 DEF BacklogAttended
<1>13. domain # "unstarted"
  BY <1>1 DEF Stage, InTake
<1> QED
  BY <1>1, <1>2, <1>5, <1>10, <1>11, <1>12, <1>13 DEF WorkerStep

\* The sleep of an elastic worker times out, and it leaves.
LEMMA TimeoutStep ==
  ASSUME Stage, Exact(pool, wpc, lent), BacklogAttended,
         NEW w \in Workers, IdleTimeout(w) \/ Retreat(w)
  PROVE  WorkerStep
<1>1. /\ wpc[w] \in {"idle", "expired"}
      /\ UNCHANGED clientVars /\ job' = job /\ lent' = lent
  BY DEF IdleTimeout, Retreat
<1>2. /\ PoolRecord(pool) /\ wpc \in [Workers -> WorkerStates] /\ lent \in BOOLEAN
  BY DEF Exact
<1>3. /\ pool.live \in Nat /\ pool.idle \in Nat /\ pool.starting \in Nat /\ pool.running \in Nat
      /\ pool.live + pool.starting <= MaxWorkers /\ MaxWorkers \in Nat
  BY PoolFields
<1>4. Owed(lent) \in Int
  BY DEF Owed
<1>5. /\ One(wpc[w], Coming) = 0 /\ One(wpc[w], Sleeping) = 1
      /\ One(wpc[w], Living) = 1 /\ One(wpc[w], Busy) = 0
  BY <1>1, Weights
<1>6. domain # "unstarted"
  BY <1>1 DEF Stage
<1>7. CASE IdleTimeout(w)
  <2>1. pool' = pool /\ wpc' = [wpc EXCEPT ![w] = "expired"]
    BY <1>7 DEF IdleTimeout
  <2>2. /\ wpc' \in [Workers -> WorkerStates] /\ wpc'[w] = "expired"
        /\ \A v \in Workers : v # w => SameKind(wpc[v], wpc'[v])
    BY <1>2, <2>1 DEF WorkerStates, SameKind
  <2>3. Shift(pool, pool', wpc[w], wpc'[w], lent, lent)
    <3>1. /\ One("expired", Coming) = 0 /\ One("expired", Sleeping) = 1
          /\ One("expired", Living) = 1 /\ One("expired", Busy) = 0
      BY Weights
    <3> QED
      BY <1>2, <1>3, <1>4, <1>5, <2>1, <2>2, <3>1 DEF Shift
  <2>4. Exact(pool', wpc', lent)
    BY <1>2, <2>2, <2>3, ExactMoves
  <2>5. \A v \in Workers : wpc'[v] \in Busy <=> wpc[v] \in Busy
    BY <1>1, <1>2, <2>1 DEF Busy
  <2>6. BacklogAttended'
    BY <2>2 DEF BacklogAttended, InTake
  <2> QED
    BY <1>1, <1>6, <2>1, <2>4, <2>5, <2>6 DEF WorkerStep
<1>8. CASE Retreat(w)
  <2>1. /\ pool' = [pool EXCEPT !.idle = @ - 1, !.live = @ - 1] /\ pool.queue = <<>>
        /\ wpc' = [wpc EXCEPT ![w] = "off"]
    BY <1>8 DEF Retreat
  <2>2. /\ wpc' \in [Workers -> WorkerStates] /\ wpc'[w] = "off"
        /\ \A v \in Workers : v # w => SameKind(wpc[v], wpc'[v])
    BY <1>2, <2>1 DEF WorkerStates, SameKind
  <2>3. /\ PoolRecord(pool') /\ pool'.queue = pool.queue /\ pool'.closed = pool.closed
        /\ pool'.live = pool.live - 1 /\ pool'.idle = pool.idle - 1
        /\ pool'.starting = pool.starting /\ pool'.running = pool.running
    <3>1. pool.live - 1 \in Int /\ pool.idle - 1 \in Int
      BY <1>3
    <3> QED
      BY <1>2, <2>1, <3>1 DEF PoolRecord
  <2>4. Shift(pool, pool', wpc[w], wpc'[w], lent, lent)
    <3>1. /\ One("off", Coming) = 0 /\ One("off", Sleeping) = 0
          /\ One("off", Living) = 0 /\ One("off", Busy) = 0
      BY Weights
    <3> QED
      BY <1>3, <1>4, <1>5, <2>2, <2>3, <3>1 DEF Shift
  <2>5. Exact(pool', wpc', lent)
    BY <1>2, <2>2, <2>4, ExactMoves
  <2>6. \A v \in Workers : wpc'[v] \in Busy <=> wpc[v] \in Busy
    BY <1>1, <1>2, <2>1 DEF Busy
  <2>7. BacklogAttended'
    BY <2>1, <2>3 DEF BacklogAttended
  <2> QED
    BY <1>1, <1>6, <2>3, <2>5, <2>6, <2>7 DEF WorkerStep
<1> QED
  BY <1>7, <1>8

\* A reservation is given back: no thread moves, or the one that asked for it
\* goes on.
LEMMA ReservationBack ==
  ASSUME Exact(pool, wpc, lent), NEW q, q = [pool EXCEPT !.starting = @ - 1]
  PROVE  /\ PoolRecord(q) /\ q.queue = pool.queue /\ q.closed = pool.closed
         /\ lent => \A x : Shift(pool, q, x, x, TRUE, FALSE)
         /\ Shift(pool, q, "spawn", "run", lent, lent)
         /\ Shift(q, pool, "off", "launched", lent, lent)
<1>1. PoolRecord(pool) /\ lent \in BOOLEAN
  BY DEF Exact
<1>2. /\ pool.live \in Nat /\ pool.idle \in Nat /\ pool.starting \in Nat /\ pool.running \in Nat
      /\ pool.live + pool.starting <= MaxWorkers /\ MaxWorkers \in Nat
  BY PoolFields
<1>3. /\ PoolRecord(q) /\ q.queue = pool.queue /\ q.closed = pool.closed
      /\ q.starting = pool.starting - 1 /\ q.live = pool.live /\ q.idle = pool.idle
      /\ q.running = pool.running
  <2>1. pool.starting - 1 \in Int
    BY <1>2
  <2> QED
    BY <1>1, <2>1 DEF PoolRecord
<1>4. (\A u, S : One(u, S) \in {0, 1}) /\ Owed(lent) \in {0, 1} /\ Owed(TRUE) = 1 /\ Owed(FALSE) = 0
  BY DEF One, Owed
<1>5. /\ One("spawn", Coming) = 1 /\ One("spawn", Sleeping) = 0
      /\ One("spawn", Living) = 1 /\ One("spawn", Busy) = 1
      /\ One("run", Coming) = 0 /\ One("run", Sleeping) = 0
      /\ One("run", Living) = 1 /\ One("run", Busy) = 1
      /\ One("off", Coming) = 0 /\ One("off", Sleeping) = 0
      /\ One("off", Living) = 0 /\ One("off", Busy) = 0
      /\ One("launched", Coming) = 1 /\ One("launched", Sleeping) = 0
      /\ One("launched", Living) = 0 /\ One("launched", Busy) = 0
  BY Weights
<1>6. q.live + q.starting <= MaxWorkers
  BY <1>2, <1>3
<1>7. ASSUME NEW x PROVE Shift(pool, q, x, x, TRUE, FALSE)
  <2>1. /\ One(x, Coming) \in {0, 1} /\ One(x, Sleeping) \in {0, 1}
        /\ One(x, Living) \in {0, 1} /\ One(x, Busy) \in {0, 1}
    BY <1>4
  <2>2. /\ q.starting = pool.starting + One(x, Coming) - One(x, Coming) + 0 - 1
        /\ q.idle = pool.idle + One(x, Sleeping) - One(x, Sleeping)
        /\ q.live = pool.live + One(x, Living) - One(x, Living)
        /\ q.running = pool.running + One(x, Busy) - One(x, Busy)
    BY <1>2, <1>3, <2>1
  <2>3. Owed(TRUE) = 1 /\ Owed(FALSE) = 0
    BY <1>4
  <2> QED
    BY <1>3, <1>6, <2>2, <2>3, Zenon DEF Shift
<1>8. Shift(pool, q, "spawn", "run", lent, lent)
  BY <1>2, <1>3, <1>4, <1>5, <1>6 DEF Shift
<1>9. Shift(q, pool, "off", "launched", lent, lent)
  BY <1>1, <1>2, <1>3, <1>4, <1>5 DEF Shift
<1> QED
  BY <1>3, <1>7, <1>8, <1>9

\* spawn_elastic by a submitter.
LEMMA SubmitterSpawnsStep ==
  ASSUME Stage, Exact(pool, wpc, lent), BacklogAttended, SubmitterSpawns
  PROVE  WorkerStep
<1>1. /\ lent /\ lent' = FALSE /\ UNCHANGED clientVars /\ job' = job /\ SpawnElastic(wpc)
  BY DEF SubmitterSpawns
<1>2. /\ PoolRecord(pool) /\ wpc \in [Workers -> WorkerStates] /\ lent = TRUE
  BY <1>1 DEF Exact
<1>3. domain # "unstarted"
  BY <1>1 DEF Stage
<1>4. CASE \E e \in Elastic : wpc[e] = "off" /\ wpc' = [wpc EXCEPT ![e] = "launched"] /\ pool' = pool
  <2>1. PICK e \in Elastic : wpc[e] = "off" /\ wpc' = [wpc EXCEPT ![e] = "launched"] /\ pool' = pool
    BY <1>4
  <2>2. e \in Workers
    BY DEF Elastic
  <2>3. /\ wpc' \in [Workers -> WorkerStates] /\ wpc'[e] = "launched"
        /\ \A v \in Workers : v # e => SameKind(wpc[v], wpc'[v])
    BY <1>2, <2>1, <2>2 DEF WorkerStates, SameKind
  <2>4. Shift(pool, pool', wpc[e], wpc'[e], lent, lent')
    <3>1. /\ One("off", Coming) = 0 /\ One("off", Sleeping) = 0
          /\ One("off", Living) = 0 /\ One("off", Busy) = 0
          /\ One("launched", Coming) = 1 /\ One("launched", Sleeping) = 0
          /\ One("launched", Living) = 0 /\ One("launched", Busy) = 0
          /\ Owed(TRUE) = 1 /\ Owed(FALSE) = 0
      BY Weights
    <3>2. Owed(lent) = 1 /\ Owed(lent') = 0
      BY <1>1, <1>2, <3>1
    <3>3. /\ pool.live \in Nat /\ pool.idle \in Nat /\ pool.starting \in Nat
          /\ pool.running \in Nat /\ pool.live + pool.starting <= MaxWorkers
      BY PoolFields
    <3> QED
      BY <1>2, <2>1, <2>3, <3>1, <3>2, <3>3 DEF Shift
  <2>5. Exact(pool', wpc', lent')
    <3>1. lent' \in BOOLEAN
      BY <1>1
    <3> QED
      BY <2>2, <2>3, <2>4, <3>1, ExactMoves
  <2>6. \A v \in Workers : wpc'[v] \in Busy <=> wpc[v] \in Busy
    BY <1>2, <2>1 DEF Busy
  <2>7. BacklogAttended'
    BY <2>2, <2>3 DEF BacklogAttended, InTake
  <2> QED
    BY <1>1, <1>3, <2>1, <2>5, <2>6, <2>7 DEF WorkerStep
<1>5. CASE pool' = [pool EXCEPT !.starting = @ - 1] /\ wpc' = wpc
  <2>1. PICK q : q = pool'
    OBVIOUS
  <2>2. /\ q.queue = pool.queue /\ q.closed = pool.closed
        /\ \A x : Shift(pool, q, x, x, TRUE, FALSE)
    BY <1>2, <1>5, <2>1, ReservationBack
  <2>3. 1 \in Workers
    BY WorkerAssumption, LimitAssumption DEF Workers
  <2>4. \A v \in Workers : v # 1 => SameKind(wpc[v], wpc[v])
    BY DEF SameKind
  <2>5. Exact(q, wpc, FALSE)
    BY <1>2, <2>2, <2>3, <2>4, ExactMoves
  <2>6. Exact(pool', wpc', lent')
    BY <1>1, <1>5, <2>1, <2>5
  <2>7. BacklogAttended'
    BY <1>5, <2>1, <2>2 DEF BacklogAttended, InTake
  <2> QED
    BY <1>1, <1>3, <1>5, <2>1, <2>2, <2>6, <2>7 DEF WorkerStep
<1> QED
  BY <1>1, <1>4, <1>5 DEF SpawnElastic

\* spawn_elastic by a worker that has a batch.
LEMMA WorkerSpawnsStep ==
  ASSUME Stage, Exact(pool, wpc, lent), BacklogAttended, NEW w \in Workers, WorkerSpawns(w)
  PROVE  WorkerStep
<1> DEFINE pc == [wpc EXCEPT ![w] = "run"]
<1>1. /\ wpc[w] = "spawn" /\ UNCHANGED clientVars /\ job' = job /\ lent' = lent
      /\ SpawnElastic(pc)
  BY DEF WorkerSpawns
<1>2. /\ PoolRecord(pool) /\ wpc \in [Workers -> WorkerStates] /\ lent \in BOOLEAN
  BY DEF Exact
<1>3. domain # "unstarted"
  BY <1>1 DEF Stage
<1>4. /\ pc \in [Workers -> WorkerStates] /\ pc[w] = "run"
      /\ \A v \in Workers : v # w => pc[v] = wpc[v]
  BY <1>2 DEF WorkerStates
<1>5. PICK q : q = [pool EXCEPT !.starting = @ - 1]
  OBVIOUS
<1>6. /\ q.queue = pool.queue /\ q.closed = pool.closed
      /\ Shift(pool, q, "spawn", "run", lent, lent)
      /\ Shift(q, pool, "off", "launched", lent, lent)
  BY <1>5, ReservationBack
<1>7. Exact(q, pc, lent)
  <2>1. \A v \in Workers : v # w => SameKind(wpc[v], pc[v])
    BY <1>4 DEF SameKind
  <2>2. Shift(pool, q, wpc[w], pc[w], lent, lent)
    BY <1>1, <1>4, <1>6
  <2> HIDE DEF pc
  <2> QED
    BY <1>2, <1>4, <2>1, <2>2, ExactMoves
<1>8. CASE \E e \in Elastic : pc[e] = "off" /\ wpc' = [pc EXCEPT ![e] = "launched"] /\ pool' = pool
  <2> HIDE DEF pc
  <2>1. PICK e \in Elastic : pc[e] = "off" /\ wpc' = [pc EXCEPT ![e] = "launched"] /\ pool' = pool
    BY <1>8
  <2>2. e \in Workers
    BY DEF Elastic
  <2>3. /\ wpc' \in [Workers -> WorkerStates] /\ wpc'[e] = "launched"
        /\ \A v \in Workers : v # e => wpc'[v] = pc[v]
    BY <1>4, <2>1, <2>2 DEF WorkerStates
  <2>4. Exact(pool', wpc', lent)
    <3>1. \A v \in Workers : v # e => SameKind(pc[v], wpc'[v])
      BY <2>3 DEF SameKind
    <3>2. Shift(q, pool', pc[e], wpc'[e], lent, lent)
      BY <1>6, <2>1, <2>3
    <3> QED
      BY <1>2, <1>7, <2>2, <2>3, <3>1, <3>2, ExactMoves
  <2>5. e # w /\ wpc[e] = "off"
    BY <1>4, <2>1, <2>2
  <2>6. \A v \in Workers : wpc'[v] \in Busy <=> wpc[v] \in Busy
    <3>1. ("run" \in Busy) /\ ("spawn" \in Busy) /\ ("launched" \notin Busy) /\ ("off" \notin Busy)
      BY DEF Busy
    <3> QED
      BY <1>1, <1>4, <2>1, <2>2, <2>3, <2>5, <3>1
  <2>7. BacklogAttended'
    BY <2>2, <2>3 DEF BacklogAttended, InTake
  <2> QED
    BY <1>1, <1>3, <2>1, <2>4, <2>6, <2>7 DEF WorkerStep
<1>9. CASE pool' = [pool EXCEPT !.starting = @ - 1] /\ wpc' = pc
  <2>1. pool' = q
    BY <1>5, <1>9
  <2>2. Exact(pool', wpc', lent')
    BY <1>1, <1>7, <1>9, <2>1
  <2>3. \A v \in Workers : wpc'[v] \in Busy <=> wpc[v] \in Busy
    BY <1>1, <1>4, <1>9 DEF Busy
  <2>4. BacklogAttended'
    BY <1>1, <1>4, <1>6, <1>9, <2>1 DEF BacklogAttended, InTake
  <2> QED
    BY <1>1, <1>3, <1>6, <2>1, <2>2, <2>3, <2>4 DEF WorkerStep
<1> QED
  BY <1>1, <1>8, <1>9 DEF SpawnElastic

(***************************************************************************)
(* Batches and bundles, and the inductive invariant.                       *)
(***************************************************************************)

\* A batch is in the queue or with one worker, which is busy with it.
Batches ==
    /\ Lists(Owners, pool.queue, {o \in Owners : own[o] = "queued"})
    /\ job \in [Workers -> Owners \cup {NoOwner}]
    /\ \A w \in Workers : job[w] \in Owners <=> wpc[w] \in Busy
    /\ \A v, w \in Workers : job[v] = job[w] /\ job[v] \in Owners => v = w
    /\ \A o \in Owners : own[o] = "running" <=> \E w \in Workers : job[w] = o
    /\ \A o \in Owners : own[o] # "leaked"

\* A bundle has at most one job of each kind, and none without a unit.
Bundles ==
    /\ bundle \in [Owners -> [jobs : Seq(Jobs), poisoned : BOOLEAN]]
    /\ \A o \in Owners : IsInjective(bundle[o].jobs)
    /\ \A o \in Owners : own[o] \in Asks => bundle[o].jobs = <<>>

DropInvariant ==
    /\ Stage
    /\ Budget(broker, own, domain)
    /\ Exact(pool, wpc, lent)
    /\ Batches
    /\ Bundles
    /\ BacklogAttended

\* Steps that leave the threads and the pool alone.
LEMMA PoolUntouched ==
  ASSUME Exact(pool, wpc, lent), BacklogAttended, UNCHANGED poolVars
  PROVE  /\ Exact(pool', wpc', lent') /\ BacklogAttended'
         /\ pool' = pool /\ wpc' = wpc /\ job' = job /\ lent' = lent
<1>1. pool' = pool /\ wpc' = wpc /\ job' = job /\ lent' = lent
  BY DEF poolVars
<1> QED
  BY <1>1 DEF BacklogAttended, InTake

\* A new bundle holds the retained value.
LEMMA NewBundleOK ==
  /\ NewBundle \in [jobs : Seq(Jobs), poisoned : BOOLEAN]
  /\ IsInjective(NewBundle.jobs)
<1>1. NewBundle = [jobs |-> <<"retained">>, poisoned |-> FALSE] /\ "retained" \in Jobs
  BY DEF NewBundle, Jobs
<1>2. <<"retained">> \in Seq(Jobs) /\ DOMAIN <<"retained">> = {1}
  BY <1>1
<1>3. NewBundle.jobs = <<"retained">>
  BY <1>1
<1> QED
  BY <1>1, <1>2, <1>3 DEF IsInjective

\* Requests keep the invariant.
LEMMA RequestsKeep ==
  ASSUME DropInvariant, RequestStep, Budget(broker', own', domain')
  PROVE  DropInvariant'
<1>1. /\ domain \in {"open", "dropped"} /\ domain' = domain /\ UNCHANGED poolVars
      /\ \A o \in Owners : \/ own'[o] = own[o]
                           \/ own[o] \in Asks /\ own'[o] \in Asks \cup {"held"}
  BY DEF RequestStep
<1>2. /\ Exact(pool', wpc', lent') /\ BacklogAttended'
      /\ pool' = pool /\ wpc' = wpc /\ job' = job /\ lent' = lent
  BY <1>1, PoolUntouched DEF DropInvariant
<1>3. Stage'
  BY <1>1, <1>2 DEF DropInvariant, Stage
<1>4. \A o \in Owners : /\ own'[o] = "queued" <=> own[o] = "queued"
                        /\ own'[o] = "running" <=> own[o] = "running"
                        /\ own'[o] = "leaked" <=> own[o] = "leaked"
                        /\ own'[o] \in Asks => own[o] \in Asks
  BY <1>1 DEF Asks
<1>5. Batches'
  <2>1. {o \in Owners : own'[o] = "queued"} = {o \in Owners : own[o] = "queued"}
    BY <1>4
  <2> QED
    BY <1>2, <1>4, <2>1 DEF DropInvariant, Batches
<1>6. Bundles'
  <2>1. CASE bundle' = bundle
    BY <1>4, <2>1 DEF DropInvariant, Bundles
  <2>2. CASE \E B \in SUBSET Owners : Bundle(B) /\ \A o \in B : own'[o] = "held"
    <3>1. PICK B \in SUBSET Owners : Bundle(B) /\ \A o \in B : own'[o] = "held"
      BY <2>2
    <3>2. bundle' = [o \in Owners |-> IF o \in B THEN NewBundle ELSE bundle[o]]
      BY <3>1 DEF Bundle
    <3>3. \A o \in B : own'[o] \notin Asks
      BY <3>1 DEF Asks
    <3>4. /\ bundle \in [Owners -> [jobs : Seq(Jobs), poisoned : BOOLEAN]]
          /\ \A o \in Owners : IsInjective(bundle[o].jobs)
          /\ \A o \in Owners : own[o] \in Asks => bundle[o].jobs = <<>>
      BY DEF DropInvariant, Bundles
    <3>5. \A o \in Owners : bundle'[o] = IF o \in B THEN NewBundle ELSE bundle[o]
      BY <3>2
    <3>6. bundle' \in [Owners -> [jobs : Seq(Jobs), poisoned : BOOLEAN]]
      BY <3>2, <3>4, NewBundleOK
    <3>7. \A o \in Owners : IsInjective(bundle'[o].jobs)
      BY <3>4, <3>5, NewBundleOK
    <3>8. \A o \in Owners : own'[o] \in Asks => bundle'[o].jobs = <<>>
      BY <1>4, <3>3, <3>4, <3>5
    <3> QED
      BY <3>6, <3>7, <3>8 DEF Bundles
  <2> QED
    BY <2>1, <2>2 DEF RequestStep
<1> QED
  BY <1>2, <1>3, <1>5, <1>6 DEF DropInvariant

\* A further job in a bundle, or one less.
LEMMA JobsStayDistinct ==
  ASSUME NEW s \in Seq(Jobs), IsInjective(s)
  PROVE  /\ \A x \in Jobs : x \notin ToSet(s) =>
              Append(s, x) \in Seq(Jobs) /\ IsInjective(Append(s, x))
         /\ s # <<>> => Tail(s) \in Seq(Jobs) /\ IsInjective(Tail(s))
<1>1. Lists(Jobs, s, ToSet(s))
  BY DEF Lists
<1>2. ASSUME NEW x \in Jobs, x \notin ToSet(s)
      PROVE  Lists(Jobs, Append(s, x), ToSet(s) \cup {x})
  BY <1>1, <1>2, ListsAppend
<1>3. ASSUME s # <<>>
      PROVE  Lists(Jobs, Tail(s), ToSet(s) \ {Head(s)})
  BY <1>1, <1>3, ListsTail
<1> QED
  BY <1>2, <1>3 DEF Lists

\* What is attached to a bundle, and what has been run of it.
LEMMA BundleSteps ==
  ASSUME DropInvariant,
         \/ \E o \in Owners : Poison(o) \/ \E s \in Slots : Attach(o, s)
         \/ \E w \in Workers : RunJob(w)
  PROVE  DropInvariant'
<1>1. domain' = domain /\ broker' = broker /\ own' = own /\ UNCHANGED poolVars
  BY DEF Poison, Attach, RunJob
<1>2. /\ Exact(pool', wpc', lent') /\ BacklogAttended'
      /\ pool' = pool /\ wpc' = wpc /\ job' = job /\ lent' = lent
  BY <1>1, PoolUntouched DEF DropInvariant
<1>3. Stage' /\ Batches' /\ Budget(broker', own', domain')
  BY <1>1, <1>2 DEF DropInvariant, Stage, Batches
<1>4. /\ bundle \in [Owners -> [jobs : Seq(Jobs), poisoned : BOOLEAN]]
      /\ \A o \in Owners : IsInjective(bundle[o].jobs)
      /\ \A o \in Owners : own[o] \in Asks => bundle[o].jobs = <<>>
  BY DEF DropInvariant, Bundles
<1>5. SUFFICES ASSUME NEW o \in Owners, NEW r,
                      own[o] \notin Asks, bundle' = [bundle EXCEPT ![o] = r],
                      r \in [jobs : Seq(Jobs), poisoned : BOOLEAN], IsInjective(r.jobs)
               PROVE  Bundles'
  <2>1. ASSUME NEW o \in Owners, Poison(o) PROVE Bundles'
    <3>1. own[o] \notin Asks /\ bundle' = [bundle EXCEPT ![o].poisoned = TRUE]
      BY <2>1 DEF Poison, Asks
    <3> DEFINE r == [bundle[o] EXCEPT !.poisoned = TRUE]
    <3>2. bundle' = [bundle EXCEPT ![o] = r]
      BY <1>4, <3>1
    <3>3. r \in [jobs : Seq(Jobs), poisoned : BOOLEAN] /\ r.jobs = bundle[o].jobs
      BY <1>4
    <3>4. IsInjective(r.jobs)
      BY <1>4, <3>3
    <3> HIDE DEF r
    <3> QED
      BY <1>5, <3>1, <3>2, <3>3, <3>4
  <2>2. ASSUME NEW o \in Owners, NEW s \in Slots, Attach(o, s) PROVE Bundles'
    <3>1. own[o] \notin Asks
      BY <2>2 DEF Attach, Asks
    <3> DEFINE b == bundle[o]
               r == IF s \in ToSet(b.jobs) THEN [b EXCEPT !.poisoned = TRUE]
                                           ELSE [b EXCEPT !.jobs = Append(@, s)]
    <3>2. bundle' = [bundle EXCEPT ![o] = r]
      BY <1>4, <2>2 DEF Attach
    <3>3. b \in [jobs : Seq(Jobs), poisoned : BOOLEAN] /\ IsInjective(b.jobs) /\ b.jobs \in Seq(Jobs)
      BY <1>4
    <3>4. s \in Jobs
      BY DEF Jobs
    <3>5. r \in [jobs : Seq(Jobs), poisoned : BOOLEAN] /\ IsInjective(r.jobs)
      <4>1. CASE s \in ToSet(b.jobs)
        BY <3>3, <4>1
      <4>2. CASE s \notin ToSet(b.jobs)
        <5>1. Append(b.jobs, s) \in Seq(Jobs) /\ IsInjective(Append(b.jobs, s))
          BY <3>3, <3>4, <4>2, JobsStayDistinct
        <5>2. r = [b EXCEPT !.jobs = Append(@, s)]
          BY <4>2
        <5>3. r.jobs = Append(b.jobs, s)
          BY <3>3, <5>2
        <5>4. r \in [jobs : Seq(Jobs), poisoned : BOOLEAN]
          BY <3>3, <5>1, <5>2
        <5> QED
          BY <5>1, <5>3, <5>4
      <4> QED
        BY <4>1, <4>2
    <3> QED
      BY <1>5, <3>1, <3>2, <3>5
  <2>3. ASSUME NEW w \in Workers, RunJob(w) PROVE Bundles'
    <3> DEFINE o == job[w]
               b == bundle[o]
    <3>1. PICK panics \in BOOLEAN :
            bundle' = [bundle EXCEPT ![o] = [jobs |-> Tail(@.jobs), poisoned |-> @.poisoned \/ panics]]
      BY <2>3 DEF RunJob
    <3>2. wpc[w] = "run" /\ b.jobs # <<>>
      BY <2>3 DEF RunJob
    <3>3. o \in Owners /\ own[o] = "running"
      BY <3>2 DEF DropInvariant, Batches, Busy
    <3> DEFINE r == [jobs |-> Tail(b.jobs), poisoned |-> b.poisoned \/ panics]
    <3>4. bundle' = [bundle EXCEPT ![o] = r]
      BY <1>4, <3>1, <3>3
    <3>5. b.jobs \in Seq(Jobs) /\ IsInjective(b.jobs) /\ b.poisoned \in BOOLEAN
      BY <1>4, <3>3
    <3>6. Tail(b.jobs) \in Seq(Jobs) /\ IsInjective(Tail(b.jobs))
      BY <3>2, <3>5, JobsStayDistinct
    <3>7. r \in [jobs : Seq(Jobs), poisoned : BOOLEAN] /\ r.jobs = Tail(b.jobs)
      BY <3>5, <3>6
    <3>8. own[o] \notin Asks
      BY <3>3 DEF Asks
    <3> HIDE DEF o, r, b
    <3> QED
      BY <1>5, <3>3, <3>4, <3>6, <3>7, <3>8
  <2>4. Bundles'
    BY <2>1, <2>2, <2>3
  <2> QED
    BY <1>2, <1>3, <2>4 DEF DropInvariant
<1>6. Bundles'
  <2>1. bundle' \in [Owners -> [jobs : Seq(Jobs), poisoned : BOOLEAN]]
    BY <1>4, <1>5
  <2>2. bundle'[o] = r /\ \A x \in Owners : x # o => bundle'[x] = bundle[x]
    BY <1>4, <1>5
  <2> QED
    BY <1>1, <1>4, <1>5, <2>1, <2>2 DEF Bundles
<1> QED
  BY <1>6

\* The steps of the workers that touch no batch.
LEMMA WorkersKeep ==
  ASSUME DropInvariant, WorkerStep
  PROVE  DropInvariant' /\ ServedInOrder
<1>1. domain' = domain /\ broker' = broker /\ own' = own /\ bundle' = bundle /\ job' = job
  BY DEF WorkerStep, clientVars
<1>2. Stage'
  BY <1>1 DEF DropInvariant, WorkerStep, Stage
<1>3. Batches'
  BY <1>1 DEF DropInvariant, WorkerStep, Batches
<1>4. Bundles' /\ Budget(broker', own', domain')
  BY <1>1 DEF DropInvariant, Bundles
<1>5. ServedInOrder
  BY <1>1, OrderUntouched DEF DropInvariant
<1> QED
  BY <1>2, <1>3, <1>4, <1>5 DEF DropInvariant, WorkerStep

\* A lifetime moves on with its unit.
LEMMA ChargeMoves ==
  ASSUME NEW d, Budget(broker, own, d), NEW o \in Owners, NEW y,
         own[o] \in {"held", "queued"}, y \in {"queued", "running"},
         broker' = broker, own' \in [Owners -> OwnStates],
         own'[o] = y, \A x \in Owners : x # o => own'[x] = own[x]
  PROVE  Budget(broker', own', d) /\ ServedInOrder
<1>2. /\ own' \in [Owners -> OwnStates] /\ own'[o] = y
      /\ \A x \in Owners : x # o => own'[x] = own[x]
  OBVIOUS
<1>3. ChargedIn(own') = ChargedIn(own) /\ WaitingIn(own') = WaitingIn(own)
  BY <1>2 DEF ChargedIn, WaitingIn
<1>4. Budget(broker', own', d)
  BY <1>2, <1>3 DEF Budget, Accounted
<1>5. ServedInOrder
  <2>1. \A x \in Owners : own[x] = "waiting" => own'[x] = "waiting"
    BY <1>2
  <2>2. \A x \in Owners : own[x] = "out" /\ own'[x] = "held" => broker.waiters = <<>>
    BY <1>2
  <2>3. \A k \in DOMAIN broker.waiters :
          broker.waiters[k] \in Owners /\ own[broker.waiters[k]] = "waiting"
    <3>1. broker.waiters \in Seq(Owners)
      BY BrokerFields DEF Budget, Accounted
    <3> QED
      BY <3>1, ListsByPlace DEF Budget, Accounted, WaitingIn
  <2> QED
    BY <2>1, <2>2, <2>3 DEF ServedInOrder
<1> QED
  BY <1>2, <1>4, <1>5

\* take with a batch in the queue: the counters, and who is awake.
LEMMA TakeBatchExact ==
  ASSUME Exact(pool, wpc, lent), NEW w \in Workers, TakeBatch(w)
  PROVE  /\ Exact(pool', wpc', lent) /\ pool'.queue = Tail(pool.queue)
         /\ pool'.closed = pool.closed /\ wpc'[w] \in Busy
         /\ \A v \in Workers : v # w => SameKind(wpc[v], wpc'[v])
         /\ BacklogAttended'
<1> DEFINE e == Entered(w)
           p == [e EXCEPT !.queue = Tail(@), !.running = @ + 1]
<1>1. /\ InTake(w) /\ pool.queue # <<>>
      /\ IF w \in Elastic /\ NeedsElastic(p)
           THEN pool' = p /\ wpc' = [wpc EXCEPT ![w] = "delay"]
           ELSE Proceed(w, p)
  BY DEF TakeBatch
<1>2. /\ PoolRecord(e) /\ e.queue = pool.queue /\ e.closed = pool.closed
      /\ e.live + e.starting <= MaxWorkers
  BY <1>1, EnteredCounts
<1>3. e.live \in Int /\ e.idle \in Int /\ e.starting \in Int /\ e.running \in Int
  BY <1>2 DEF PoolRecord
<1>4. Tail(pool.queue) \in Seq(Owners)
  <2>1. pool.queue \in Seq(Owners)
    BY PoolFields
  <2> QED
    BY <1>1, <2>1
<1>5. /\ PoolRecord(p) /\ p.queue = Tail(pool.queue) /\ p.closed = pool.closed
      /\ p.starting = e.starting /\ p.idle = e.idle
      /\ p.live = e.live /\ p.running = e.running + 1
  <2>1. e.running + 1 \in Int
    BY <1>3
  <2> HIDE DEF e
  <2> QED
    BY <1>2, <1>4, <2>1 DEF PoolRecord
<1>6. wpc \in [Workers -> WorkerStates] /\ lent \in BOOLEAN
  BY DEF Exact
<1> HIDE DEF p
<1>7. ASSUME NEW y \in {"delay", "run"} PROVE Shift(pool, p, wpc[w], y, lent, lent)
  <2>1. One(y, Coming) = 0 /\ One(y, Sleeping) = 0 /\ One(y, Living) = 1 /\ One(y, Busy) = 1
    BY Weights
  <2>2. /\ p.starting = e.starting + One(y, Coming)
        /\ p.idle = e.idle + One(y, Sleeping)
        /\ p.live = e.live - 1 + One(y, Living)
        /\ p.running = e.running + One(y, Busy)
        /\ p.live + p.starting <= MaxWorkers
    BY <1>2, <1>3, <1>5, <2>1
  <2> QED
    BY <1>1, <1>5, <2>2, EnteredMoves
<1>8. CASE w \in Elastic /\ NeedsElastic(p)
  <2>1. pool' = p /\ wpc' = [wpc EXCEPT ![w] = "delay"]
    BY <1>1, <1>8
  <2>2. /\ wpc' \in [Workers -> WorkerStates] /\ wpc'[w] = "delay"
        /\ \A v \in Workers : v # w => SameKind(wpc[v], wpc'[v])
    BY <1>6, <2>1 DEF WorkerStates, SameKind
  <2>3. Shift(pool, pool', wpc[w], wpc'[w], lent, lent)
    BY <1>7, <2>1, <2>2
  <2>4. Exact(pool', wpc', lent)
    BY <1>6, <2>2, <2>3, ExactMoves
  <2>5. BacklogAttended'
    BY <2>2 DEF BacklogAttended
  <2>6. wpc'[w] \in Busy
    BY <2>2 DEF Busy
  <2> QED
    BY <1>5, <2>1, <2>2, <2>4, <2>5, <2>6
<1>9. CASE ~(w \in Elastic /\ NeedsElastic(p))
  <2>1. Proceed(w, p)
    BY <1>1, <1>9
  <2>2. PICK p0 : p0 = p
    OBVIOUS
  <2>3. Proceed(w, p0)
    BY <2>1, <2>2 DEF Proceed
  <2>4. Shift(pool, p0, wpc[w], "run", lent, lent)
    BY <1>7, <2>2
  <2>5. /\ Exact(pool', wpc', lent)
        /\ pool'.queue = p0.queue /\ pool'.closed = p0.closed
        /\ wpc'[w] \in {"run", "spawn"}
        /\ \A v \in Workers : wpc'[v] # "idle" /\ (v # w => SameKind(wpc[v], wpc'[v]))
    BY <2>3, <2>4, ProceedExact
  <2>6. BacklogAttended'
    BY <2>5 DEF BacklogAttended
  <2>7. wpc'[w] \in Busy
    BY <2>5 DEF Busy
  <2> QED
    BY <1>5, <2>2, <2>5, <2>6, <2>7
<1> QED
  BY <1>8, <1>9

\* A worker takes a batch.
LEMMA TakeBatchKeeps ==
  ASSUME DropInvariant, NEW w \in Workers, TakeBatch(w)
  PROVE  DropInvariant' /\ ServedInOrder
<1> DEFINE o == Head(pool.queue)
<1>1. /\ InTake(w) /\ pool.queue # <<>> /\ job' = [job EXCEPT ![w] = o]
      /\ own' = [own EXCEPT ![o] = "running"]
      /\ domain' = domain /\ broker' = broker /\ bundle' = bundle /\ lent' = lent
  BY DEF TakeBatch
<1>2. /\ Exact(pool', wpc', lent) /\ pool'.queue = Tail(pool.queue)
      /\ pool'.closed = pool.closed /\ wpc'[w] \in Busy
      /\ \A v \in Workers : v # w => SameKind(wpc[v], wpc'[v])
      /\ BacklogAttended'
  BY TakeBatchExact DEF DropInvariant
<1>3. /\ Lists(Owners, pool.queue, {x \in Owners : own[x] = "queued"})
      /\ job \in [Workers -> Owners \cup {NoOwner}]
      /\ \A v \in Workers : job[v] \in Owners <=> wpc[v] \in Busy
      /\ \A v, u \in Workers : job[v] = job[u] /\ job[v] \in Owners => v = u
      /\ \A x \in Owners : own[x] = "running" <=> \E v \in Workers : job[v] = x
      /\ \A x \in Owners : own[x] # "leaked"
  BY DEF DropInvariant, Batches
<1>4. /\ o \in Owners /\ own[o] = "queued"
      /\ Lists(Owners, Tail(pool.queue), {x \in Owners : own[x] = "queued"} \ {o})
  <2>1. PICK Q : Q = {x \in Owners : own[x] = "queued"}
    OBVIOUS
  <2>2. o \in Q /\ o \in Owners /\ Lists(Owners, Tail(pool.queue), Q \ {o})
    BY <1>1, <1>3, <2>1, ListsTail
  <2> QED
    BY <2>1, <2>2
<1> HIDE DEF o
<1>5. /\ Budget(broker', own', domain) /\ ServedInOrder
      /\ own'[o] = "running" /\ \A x \in Owners : x # o => own'[x] = own[x]
  <2>1. own \in [Owners -> OwnStates] /\ Budget(broker, own, domain)
    BY DEF DropInvariant, Budget, Accounted
  <2>2. /\ own' \in [Owners -> OwnStates] /\ own'[o] = "running"
        /\ \A x \in Owners : x # o => own'[x] = own[x]
    BY <1>1, <1>4, <2>1 DEF OwnStates
  <2>3. own[o] \in {"held", "queued"} /\ "running" \in {"queued", "running"}
    BY <1>4
  <2>4. broker' = broker /\ o \in Owners
    BY <1>1, <1>4
  <2>5. Budget(broker', own', domain) /\ ServedInOrder
    BY <2>1, <2>2, <2>3, <2>4, ChargeMoves
  <2> QED
    BY <2>2, <2>5
<1>6. Stage'
  <2>1. domain # "unstarted"
    BY <1>1 DEF InTake, DropInvariant, Stage
  <2> QED
    BY <1>1, <1>2, <1>5, <2>1 DEF DropInvariant, Stage
<1>7. Batches'
  <2>1. {x \in Owners : own'[x] = "queued"} = {x \in Owners : own[x] = "queued"} \ {o}
    BY <1>4, <1>5
  <2>2. Lists(Owners, pool'.queue, {x \in Owners : own'[x] = "queued"})
    BY <1>2, <1>4, <2>1
  <2>3. /\ job' \in [Workers -> Owners \cup {NoOwner}] /\ job'[w] = o
        /\ \A v \in Workers : v # w => job'[v] = job[v]
    BY <1>1, <1>3, <1>4
  <2>4. \A v \in Workers : job'[v] \in Owners <=> wpc'[v] \in Busy
    <3>1. \A v \in Workers : v # w => (wpc'[v] \in Busy <=> wpc[v] \in Busy)
      BY <1>2, KindsCounted
    <3> QED
      BY <1>2, <1>3, <1>4, <2>3, <3>1
  <2>5. \A v \in Workers : job[v] # o
    BY <1>3, <1>4
  <2>6. \A v, u \in Workers : job'[v] = job'[u] /\ job'[v] \in Owners => v = u
    BY <1>3, <2>3, <2>5
  <2>7. job[w] \notin Owners
    <3>1. wpc[w] \notin Busy
      BY <1>1 DEF InTake, Busy
    <3> QED
      BY <1>3, <3>1
  <2>8. \A x \in Owners : own'[x] = "running" <=> \E v \in Workers : job'[v] = x
    <3>1. \A x \in Owners : x # o => (own'[x] = "running" <=> \E v \in Workers : job[v] = x)
      BY <1>3, <1>5
    <3>2. \A x \in Owners : x # o =>
            ((\E v \in Workers : job'[v] = x) <=> (\E v \in Workers : job[v] = x))
      BY <2>3, <2>7
    <3>3. own'[o] = "running" /\ job'[w] = o
      BY <1>5, <2>3
    <3> QED
      BY <3>1, <3>2, <3>3
  <2>9. \A x \in Owners : own'[x] # "leaked"
    BY <1>3, <1>5
  <2> QED
    BY <2>2, <2>3, <2>4, <2>6, <2>8, <2>9 DEF Batches
<1>8. Bundles'
  <2>1. \A x \in Owners : own'[x] \in Asks => own[x] \in Asks
    BY <1>5 DEF Asks
  <2> QED
    BY <1>1, <2>1 DEF DropInvariant, Bundles
<1> QED
  BY <1>1, <1>2, <1>5, <1>6, <1>7, <1>8 DEF DropInvariant

\* notify_one: nobody is asleep, or one thread is notified, which wakes up if
\* it is idle and only looks around if it is in its expansion delay.
LEMMA NotifyOneKinds ==
  ASSUME NEW pc \in [Workers -> WorkerStates], NEW qc \in NotifyOne(pc)
  PROVE  /\ qc \in [Workers -> WorkerStates]
         /\ \A v \in Workers : SameKind(pc[v], qc[v])
         /\ \/ \A v \in Workers : qc[v] # "idle"
            \/ \E v \in Workers : qc[v] \in {"woken", "delay"}
<1> DEFINE asleep == {w \in Workers : pc[w] \in {"idle", "delay"}}
<1>1. CASE asleep = {}
  <2>1. qc = pc
    BY <1>1 DEF NotifyOne
  <2> QED
    BY <1>1, <2>1 DEF SameKind
<1>2. CASE asleep # {}
  <2>1. PICK w \in asleep : qc = [pc EXCEPT ![w] = IF pc[w] = "idle" THEN "woken" ELSE pc[w]]
    BY <1>2 DEF NotifyOne
  <2>2. /\ qc \in [Workers -> WorkerStates]
        /\ \A v \in Workers : v # w => qc[v] = pc[v]
        /\ qc[w] = IF pc[w] = "idle" THEN "woken" ELSE pc[w]
        /\ w \in Workers /\ pc[w] \in {"idle", "delay"}
    BY <2>1 DEF WorkerStates
  <2>3. qc[w] \in {"woken", "delay"} /\ SameKind(pc[w], qc[w])
    BY <2>2 DEF SameKind, Sleeping
  <2>4. \A v \in Workers : SameKind(pc[v], qc[v])
    BY <2>2, <2>3 DEF SameKind
  <2> QED
    BY <2>2, <2>3, <2>4
<1> QED
  BY <1>1, <1>2

\* A thread that does not move weighs nothing.
LEMMA NoWeight ==
  ASSUME NEW a \in Int, NEW x, NEW S
  PROVE  /\ a = a + One(x, S) - One(x, S)
         /\ a + 1 = a + One(x, S) - One(x, S) + 1 - 0
<1>1. One(x, S) \in {0, 1}
  BY DEF One
<1> QED
  BY <1>1

\* WorkerQueue::submit: the counters, and who takes notice.
LEMMA SubmitExact ==
  ASSUME Exact(pool, wpc, lent), NEW o \in Owners, NEW p,
         p = [pool EXCEPT !.queue = Append(@, o)],
         pool' = Reserve(p), lent' = (lent \/ NeedsElastic(p)), wpc' \in NotifyOne(wpc)
  PROVE  /\ Exact(pool', wpc', lent') /\ BacklogAttended'
         /\ pool'.queue = Append(pool.queue, o) /\ pool'.closed = pool.closed
         /\ \A v \in Workers : SameKind(wpc[v], wpc'[v])
<1>1. /\ PoolRecord(pool) /\ wpc \in [Workers -> WorkerStates] /\ lent \in BOOLEAN
  BY DEF Exact
<1>2. /\ pool.queue \in Seq(Owners)
      /\ pool.live \in Nat /\ pool.idle \in Nat /\ pool.starting \in Nat /\ pool.running \in Nat
      /\ pool.live + pool.starting <= MaxWorkers
      /\ lent => pool.starting > 0
  BY PoolFields
<1>3. /\ PoolRecord(p) /\ p.queue = Append(pool.queue, o) /\ p.closed = pool.closed
      /\ p.starting = pool.starting /\ p.idle = pool.idle
      /\ p.live = pool.live /\ p.running = pool.running
  <2>1. Append(pool.queue, o) \in Seq(Owners)
    BY <1>2
  <2> QED
    BY <1>1, <2>1 DEF PoolRecord
<1>4. /\ wpc' \in [Workers -> WorkerStates]
      /\ \A v \in Workers : SameKind(wpc[v], wpc'[v])
      /\ \/ \A v \in Workers : wpc'[v] # "idle"
         \/ \E v \in Workers : wpc'[v] \in {"woken", "delay"}
  BY <1>1, NotifyOneKinds
<1>5. 1 \in Workers
  BY WorkerAssumption, LimitAssumption DEF Workers
<1>6. /\ One(wpc'[1], Coming) = One(wpc[1], Coming) /\ One(wpc'[1], Sleeping) = One(wpc[1], Sleeping)
      /\ One(wpc'[1], Living) = One(wpc[1], Living) /\ One(wpc'[1], Busy) = One(wpc[1], Busy)
      /\ One(wpc[1], Coming) \in {0, 1} /\ One(wpc[1], Sleeping) \in {0, 1}
      /\ One(wpc[1], Living) \in {0, 1} /\ One(wpc[1], Busy) \in {0, 1}
  BY <1>4, <1>5, KindsCounted DEF One
<1>7. /\ lent' \in BOOLEAN /\ Shift(pool, pool', wpc[1], wpc'[1], lent, lent')
      /\ pool'.queue = p.queue /\ pool'.closed = p.closed
  <2>1. CASE NeedsElastic(p)
    <3>1. lent' = TRUE /\ lent = FALSE
      <4>1. p.starting = 0
        BY <2>1 DEF NeedsElastic
      <4>2. ~lent
        BY <1>2, <1>3, <4>1
      <4> QED
        BY <1>1, <2>1, <4>2
    <3>2. Owed(lent') = 1 /\ Owed(lent) = 0
      BY <3>1, Weights
    <3>3. /\ PoolRecord(pool') /\ pool'.queue = p.queue /\ pool'.closed = p.closed
          /\ pool'.starting = p.starting + 1 /\ pool'.idle = p.idle
          /\ pool'.live = p.live /\ pool'.running = p.running
          /\ pool'.live + pool'.starting <= MaxWorkers
      BY <1>3, <2>1, ReserveCounts
    <3>4. Shift(pool, pool', wpc[1], wpc'[1], lent, lent')
      <4>1. /\ pool'.starting = pool.starting + One(wpc[1], Coming) - One(wpc[1], Coming) + 1 - 0
            /\ pool'.idle = pool.idle + One(wpc[1], Sleeping) - One(wpc[1], Sleeping)
            /\ pool'.live = pool.live + One(wpc[1], Living) - One(wpc[1], Living)
            /\ pool'.running = pool.running + One(wpc[1], Busy) - One(wpc[1], Busy)
        <5>1. /\ pool.starting \in Int /\ pool.idle \in Int
              /\ pool.live \in Int /\ pool.running \in Int
          BY <1>2
        <5>2. /\ pool'.starting = pool.starting + 1 /\ pool'.idle = pool.idle
              /\ pool'.live = pool.live /\ pool'.running = pool.running
          BY <1>3, <3>3, Zenon
        <5>3. pool.starting + 1 = pool.starting + One(wpc[1], Coming) - One(wpc[1], Coming) + 1 - 0
          BY <5>1, NoWeight
        <5>4. pool.idle = pool.idle + One(wpc[1], Sleeping) - One(wpc[1], Sleeping)
          BY <5>1, NoWeight
        <5>5. pool.live = pool.live + One(wpc[1], Living) - One(wpc[1], Living)
          BY <5>1, NoWeight
        <5>6. pool.running = pool.running + One(wpc[1], Busy) - One(wpc[1], Busy)
          BY <5>1, NoWeight
        <5> QED
          BY <5>2, <5>3, <5>4, <5>5, <5>6, Zenon
      <4>2. /\ One(wpc'[1], Coming) = One(wpc[1], Coming)
            /\ One(wpc'[1], Sleeping) = One(wpc[1], Sleeping)
            /\ One(wpc'[1], Living) = One(wpc[1], Living)
            /\ One(wpc'[1], Busy) = One(wpc[1], Busy)
        BY <1>6
      <4>3. PoolRecord(pool') /\ pool'.live + pool'.starting <= MaxWorkers
        BY <3>3
      <4>4. pool'.starting = pool.starting + One(wpc'[1], Coming) - One(wpc[1], Coming)
                               + Owed(lent') - Owed(lent)
        BY <3>2, <4>1, <4>2, Zenon
      <4> QED
        BY <4>1, <4>2, <4>3, <4>4, Zenon DEF Shift
    <3> QED
      BY <3>1, <3>3, <3>4
  <2>2. CASE ~NeedsElastic(p)
    <3>1. lent' = lent /\ pool' = p
      BY <1>1, <2>2 DEF Reserve
    <3>2. Owed(lent') = Owed(lent) /\ Owed(lent) \in {0, 1}
      BY <3>1 DEF Owed
    <3>3. p.live + p.starting <= MaxWorkers
      BY <1>2, <1>3
    <3>4. Shift(pool, pool', wpc[1], wpc'[1], lent, lent')
      <4>1. /\ p.starting = pool.starting + One(wpc[1], Coming) - One(wpc[1], Coming)
                              + Owed(lent) - Owed(lent)
            /\ p.idle = pool.idle + One(wpc[1], Sleeping) - One(wpc[1], Sleeping)
            /\ p.live = pool.live + One(wpc[1], Living) - One(wpc[1], Living)
            /\ p.running = pool.running + One(wpc[1], Busy) - One(wpc[1], Busy)
        BY <1>2, <1>3, <1>6, <3>2
      <4> QED
        BY <1>3, <1>6, <3>1, <3>2, <3>3, <4>1, Zenon DEF Shift
    <3> QED
      BY <1>1, <3>1, <3>4
  <2> QED
    BY <2>1, <2>2
<1>8. Exact(pool', wpc', lent')
  BY <1>4, <1>5, <1>7, ExactMoves
<1>9. BacklogAttended'
  BY <1>4 DEF BacklogAttended, InTake
<1> QED
  BY <1>3, <1>4, <1>7, <1>8, <1>9

\* A bundle is handed over; it never meets a closed queue.
LEMMA SubmitKeeps ==
  ASSUME DropInvariant, NEW o \in Owners, Submit(o)
  PROVE  DropInvariant' /\ ServedInOrder
<1>1. own[o] = "held" /\ domain' = domain /\ bundle' = bundle
  BY DEF Submit
<1>2. domain \in {"open", "dropped"} /\ ~pool.closed
  BY <1>1 DEF DropInvariant, Stage
<1>3. PICK p : p = [pool EXCEPT !.queue = Append(@, o)]
  OBVIOUS
<1>4. /\ pool' = Reserve(p) /\ lent' = (lent \/ NeedsElastic(p)) /\ wpc' \in NotifyOne(wpc)
      /\ own' = [own EXCEPT ![o] = "queued"] /\ broker' = broker /\ job' = job
  BY <1>2, <1>3 DEF Submit
<1>5. /\ Exact(pool', wpc', lent') /\ BacklogAttended'
      /\ pool'.queue = Append(pool.queue, o) /\ pool'.closed = pool.closed
      /\ \A v \in Workers : SameKind(wpc[v], wpc'[v])
  <2>1. Exact(pool, wpc, lent)
    BY DEF DropInvariant
  <2> QED
    BY <1>3, <1>4, <2>1, SubmitExact
<1>6. /\ Budget(broker', own', domain) /\ ServedInOrder
      /\ own'[o] = "queued" /\ \A x \in Owners : x # o => own'[x] = own[x]
  <2>1. own \in [Owners -> OwnStates] /\ Budget(broker, own, domain)
    BY DEF DropInvariant, Budget, Accounted
  <2>2. /\ own' \in [Owners -> OwnStates] /\ own'[o] = "queued"
        /\ \A x \in Owners : x # o => own'[x] = own[x]
    BY <1>4, <2>1 DEF OwnStates
  <2>3. own[o] \in {"held", "queued"} /\ "queued" \in {"queued", "running"}
    BY <1>1
  <2>4. broker' = broker
    BY <1>4
  <2>5. Budget(broker', own', domain) /\ ServedInOrder
    BY <2>1, <2>2, <2>3, <2>4, ChargeMoves
  <2> QED
    BY <2>2, <2>5
<1>7. Stage'
  BY <1>1, <1>2, <1>5 DEF DropInvariant, Stage
<1>8. Batches'
  <2>1. PICK Q : Q = {x \in Owners : own[x] = "queued"}
    OBVIOUS
  <2>2. {x \in Owners : own'[x] = "queued"} = Q \cup {o} /\ o \notin Q
    BY <1>1, <1>6, <2>1
  <2>3. Lists(Owners, pool.queue, Q)
    BY <2>1 DEF DropInvariant, Batches
  <2>4. Lists(Owners, Append(pool.queue, o), Q \cup {o})
    BY <2>2, <2>3, ListsAppend
  <2>5. \A v \in Workers : wpc'[v] \in Busy <=> wpc[v] \in Busy
    BY <1>5, KindsCounted
  <2>6. \A x \in Owners : (own'[x] = "running" <=> own[x] = "running") /\ own'[x] # "leaked"
    BY <1>1, <1>6 DEF DropInvariant, Batches
  <2> QED
    BY <1>4, <1>5, <2>2, <2>4, <2>5, <2>6 DEF DropInvariant, Batches
<1>9. Bundles'
  <2>1. \A x \in Owners : own'[x] \in Asks => own[x] \in Asks
    BY <1>6 DEF Asks
  <2> QED
    BY <1>1, <2>1 DEF DropInvariant, Bundles
<1> QED
  BY <1>1, <1>5, <1>6, <1>7, <1>8, <1>9 DEF DropInvariant

\* The last destructor of a batch has returned: its unit comes back or is
\* retired, and the worker is free again.
LEMMA DisposeKeeps ==
  ASSUME DropInvariant, NEW w \in Workers, Dispose(w)
  PROVE  DropInvariant' /\ ServedInOrder
<1> DEFINE o == job[w]
<1>1. /\ wpc[w] = "run" /\ bundle[o].jobs = <<>>
      /\ bundle' = [bundle EXCEPT ![o].poisoned = FALSE]
      /\ pool' = [pool EXCEPT !.running = @ - 1]
      /\ wpc' = [wpc EXCEPT ![w] = "ready"]
      /\ job' = [job EXCEPT ![w] = NoOwner] /\ domain' = domain /\ lent' = lent
      /\ \/ Settle(RetiredUnit(broker), [own EXCEPT ![o] = "out"])
         \/ Settle(Returned(broker), [own EXCEPT ![o] = "out"])
  BY DEF Dispose
<1>2. /\ Lists(Owners, pool.queue, {x \in Owners : own[x] = "queued"})
      /\ job \in [Workers -> Owners \cup {NoOwner}]
      /\ \A v \in Workers : job[v] \in Owners <=> wpc[v] \in Busy
      /\ \A v, u \in Workers : job[v] = job[u] /\ job[v] \in Owners => v = u
      /\ \A x \in Owners : own[x] = "running" <=> \E v \in Workers : job[v] = x
      /\ \A x \in Owners : own[x] # "leaked"
  BY DEF DropInvariant, Batches
<1>3. o \in Owners /\ own[o] = "running"
  BY <1>1, <1>2 DEF Busy
<1>4. own \in [Owners -> OwnStates] /\ Budget(broker, own, domain) /\ BrokerTypes(broker)
  BY DEF DropInvariant, Budget, Accounted
<1>5. PICK g : g = [own EXCEPT ![o] = "out"]
  OBVIOUS
<1>6. g[o] = "out" /\ \A x \in Owners : x # o => g[x] = own[x]
  BY <1>3, <1>4, <1>5
<1>7. PICK b : Accounted(b, g, domain) /\ b.waiters = broker.waiters /\ Settle(b, g)
  <2>1. o \in ChargedIn(own)
    BY <1>3 DEF ChargedIn
  <2>2. CASE Settle(RetiredUnit(broker), [own EXCEPT ![o] = "out"])
    <3>1. PICK b : b = RetiredUnit(broker)
      OBVIOUS
    <3>2. Settle(b, g)
      BY <1>5, <2>2, <3>1 DEF Settle
    <3>3. Accounted(RetiredUnit(broker), [own EXCEPT ![o] = "out"], domain)
      BY <1>3, <1>4, <2>1, RetireAccounted
    <3>4. Accounted(b, g, domain)
      BY <1>5, <3>1, <3>3
    <3>5. RetiredUnit(broker).waiters = broker.waiters
      BY <1>4 DEF RetiredUnit, BrokerTypes
    <3> QED
      BY <3>1, <3>2, <3>4, <3>5
  <2>3. CASE Settle(Returned(broker), [own EXCEPT ![o] = "out"])
    <3>1. PICK b : b = Returned(broker)
      OBVIOUS
    <3>2. Settle(b, g)
      BY <1>5, <2>3, <3>1 DEF Settle
    <3>3. Accounted(Returned(broker), [own EXCEPT ![o] = "out"], domain)
      BY <1>3, <1>4, <2>1, ReturnAccounted
    <3>4. Accounted(b, g, domain)
      BY <1>5, <3>1, <3>3
    <3>5. Returned(broker).waiters = broker.waiters
      BY <1>4 DEF Returned, BrokerTypes
    <3> QED
      BY <3>1, <3>2, <3>4, <3>5
  <2> QED
    BY <1>1, <2>2, <2>3
<1>8. /\ Budget(broker', own', domain)
      /\ \A x \in Owners : \/ own'[x] = g[x]
                           \/ g[x] = "waiting" /\ own'[x] \in {"granted", "closed"}
      /\ \A i, j \in DOMAIN b.waiters :
           i < j /\ own'[b.waiters[j]] = "granted" => own'[b.waiters[i]] # "waiting"
  BY <1>7, SettleSettles
<1> HIDE DEF o
<1>9. /\ own'[o] = "out"
      /\ \A x \in Owners : x # o => \/ own'[x] = own[x]
                                    \/ own[x] = "waiting" /\ own'[x] \in {"granted", "closed"}
  BY <1>3, <1>6, <1>8
<1>10. ServedInOrder
  <2>1. \A x \in Owners : own[x] = "out" /\ own'[x] = "held" => broker.waiters = <<>>
    BY <1>3, <1>9
  <2> QED
    BY <1>7, <1>8, <2>1 DEF ServedInOrder
<1>11. Stage'
  <2>1. domain # "unstarted"
    BY <1>3 DEF DropInvariant, Stage
  <2>2. pool'.closed = pool.closed
    BY <1>1 DEF DropInvariant, Exact, PoolRecord
  <2>3. domain = "closed" => \A x \in Owners : own'[x] \in {"out", "queued", "running"}
    BY <1>9 DEF DropInvariant, Stage
  <2> QED
    BY <1>1, <2>1, <2>2, <2>3 DEF DropInvariant, Stage
<1>12. /\ wpc' \in [Workers -> WorkerStates] /\ wpc'[w] = "ready"
       /\ \A v \in Workers : v # w => wpc'[v] = wpc[v]
  BY <1>1 DEF DropInvariant, Exact, WorkerStates
<1>13. Exact(pool', wpc', lent')
  <2>1. Exact(pool, wpc, lent) /\ PoolRecord(pool) /\ lent \in BOOLEAN
    BY DEF DropInvariant, Exact
  <2>2. /\ pool.live \in Nat /\ pool.idle \in Nat /\ pool.starting \in Nat
        /\ pool.running \in Nat /\ pool.live + pool.starting <= MaxWorkers
    BY <2>1, PoolFields
  <2>3. /\ PoolRecord(pool') /\ pool'.running = pool.running - 1 /\ pool'.live = pool.live
        /\ pool'.idle = pool.idle /\ pool'.starting = pool.starting
    <3>1. pool.running - 1 \in Int
      BY <2>2
    <3> QED
      BY <1>1, <2>1, <3>1 DEF PoolRecord
  <2>4. /\ One("run", Coming) = 0 /\ One("run", Sleeping) = 0
        /\ One("run", Living) = 1 /\ One("run", Busy) = 1
        /\ One("ready", Coming) = 0 /\ One("ready", Sleeping) = 0
        /\ One("ready", Living) = 1 /\ One("ready", Busy) = 0
        /\ Owed(lent) \in {0, 1}
    BY Weights DEF Owed
  <2>5. Shift(pool, pool', wpc[w], wpc'[w], lent, lent)
    BY <1>1, <1>12, <2>2, <2>3, <2>4 DEF Shift
  <2>6. \A v \in Workers : v # w => SameKind(wpc[v], wpc'[v])
    BY <1>12 DEF SameKind
  <2>7. Exact(pool', wpc', lent)
    BY <1>12, <2>1, <2>5, <2>6, ExactMoves
  <2> QED
    BY <1>1, <2>7
<1>14. Batches'
  <2>1. pool'.queue = pool.queue
    BY <1>1 DEF DropInvariant, Exact, PoolRecord
  <2>2. \A x \in Owners : /\ own'[x] = "queued" <=> own[x] = "queued"
                          /\ own'[x] # "leaked"
                          /\ own'[x] = "running" <=> own[x] = "running" /\ x # o
    BY <1>2, <1>3, <1>9
  <2>3. {x \in Owners : own'[x] = "queued"} = {x \in Owners : own[x] = "queued"}
    BY <2>2
  <2>4. /\ job' \in [Workers -> Owners \cup {NoOwner}] /\ job'[w] = NoOwner
        /\ \A v \in Workers : v # w => job'[v] = job[v]
    BY <1>1, <1>2
  <2>5. NoOwner \notin Owners
    BY StuckAssumption
  <2>6. \A v \in Workers : job'[v] \in Owners <=> wpc'[v] \in Busy
    <3>1. "ready" \notin Busy
      BY DEF Busy
    <3> QED
      BY <1>2, <1>12, <2>4, <2>5, <3>1
  <2>7. \A v, u \in Workers : job'[v] = job'[u] /\ job'[v] \in Owners => v = u
    BY <1>2, <2>4, <2>5
  <2>8. ASSUME NEW x \in Owners PROVE own'[x] = "running" <=> \E v \in Workers : job'[v] = x
    <3>1. job[w] = o
      BY DEF o
    <3>2. (\E v \in Workers : job'[v] = x) <=> (\E v \in Workers : v # w /\ job[v] = x)
      BY <2>4, <2>5
    <3>3. (\E v \in Workers : v # w /\ job[v] = x) <=> (x # o /\ \E v \in Workers : job[v] = x)
      BY <1>2, <1>3, <3>1
    <3> QED
      BY <1>2, <2>2, <3>2, <3>3
  <2> QED
    BY <1>2, <2>1, <2>2, <2>3, <2>4, <2>6, <2>7, <2>8 DEF Batches
<1>15. Bundles'
  <2>1. /\ bundle \in [Owners -> [jobs : Seq(Jobs), poisoned : BOOLEAN]]
        /\ \A x \in Owners : IsInjective(bundle[x].jobs)
        /\ \A x \in Owners : own[x] \in Asks => bundle[x].jobs = <<>>
    BY DEF DropInvariant, Bundles
  <2>2. /\ bundle' \in [Owners -> [jobs : Seq(Jobs), poisoned : BOOLEAN]]
        /\ \A x \in Owners : bundle'[x].jobs = bundle[x].jobs
    BY <1>1, <1>3, <2>1
  <2>3. \A x \in Owners : own'[x] \in Asks => own[x] \in Asks \/ x = o
    BY <1>9 DEF Asks
  <2>4. \A x \in Owners : own'[x] \in Asks => bundle'[x].jobs = <<>>
    BY <1>1, <2>1, <2>2, <2>3
  <2>5. \A x \in Owners : IsInjective(bundle'[x].jobs)
    BY <2>1, <2>2
  <2> QED
    BY <2>2, <2>4, <2>5 DEF Bundles
<1>16. BacklogAttended'
  BY <1>12 DEF BacklogAttended, InTake
<1> QED
  BY <1>1, <1>8, <1>10, <1>11, <1>13, <1>14, <1>15, <1>16 DEF DropInvariant

\* DropExecutor::drop: nobody waits, and every worker is told.
LEMMA DropExecutorKeeps ==
  ASSUME DropInvariant, DropExecutor
  PROVE  DropInvariant' /\ ServedInOrder
<1>1. /\ domain = "dropped" /\ ~ExecutorHeld /\ domain' = "closed"
      /\ Settle([broker EXCEPT !.closed = TRUE], own)
      /\ pool' = [pool EXCEPT !.closed = TRUE] /\ wpc' = NotifyAll(wpc)
      /\ bundle' = bundle /\ job' = job /\ lent' = lent
  BY DEF DropExecutor
<1>2. /\ own \in [Owners -> OwnStates] /\ Budget(broker, own, domain) /\ BrokerTypes(broker)
      /\ \A x \in Owners : own[x] # "leaked"
  BY DEF DropInvariant, Budget, Accounted, Batches
<1>3. \A x \in Owners : own[x] \in {"out", "queued", "running"}
  BY <1>1, <1>2 DEF ExecutorHeld, OwnStates
<1>4. PICK b, f : b = [broker EXCEPT !.closed = TRUE] /\ f = own
  OBVIOUS
<1>5. /\ BrokerTypes(b) /\ b.waiters = broker.waiters /\ b.closed
      /\ b.effective = broker.effective
  BY <1>2, <1>4 DEF BrokerTypes
<1>6. Accounted(b, f, "closed") /\ Settle(b, f)
  <2>1. Settle(b, f)
    BY <1>1, <1>4 DEF Settle
  <2>2. Accounted(b, own, "closed")
    BY <1>2, <1>5 DEF Budget, Accounted
  <2> QED
    BY <1>4, <2>1, <2>2
<1>7. /\ Budget(broker', own', "closed")
      /\ \A x \in Owners : \/ own'[x] = f[x]
                           \/ f[x] = "waiting" /\ own'[x] \in {"granted", "closed"}
  BY <1>6, SettleSettles
<1>8. \A x \in Owners : own'[x] = own[x]
  BY <1>3, <1>4, <1>7
<1>9. /\ PoolRecord(pool) /\ wpc \in [Workers -> WorkerStates] /\ lent \in BOOLEAN
      /\ Exact(pool, wpc, lent)
  BY DEF DropInvariant, Exact
<1>10. /\ PoolRecord(pool') /\ pool'.queue = pool.queue /\ pool'.closed = TRUE
       /\ pool'.live = pool.live /\ pool'.idle = pool.idle
       /\ pool'.starting = pool.starting /\ pool'.running = pool.running
  BY <1>1, <1>9 DEF PoolRecord
<1>11. /\ wpc' \in [Workers -> WorkerStates]
       /\ \A v \in Workers : wpc'[v] # "idle" /\ SameKind(wpc[v], wpc'[v])
  BY <1>1, <1>9, NotifyAllKinds
<1>12. Exact(pool', wpc', lent')
  <2>1. 1 \in Workers
    BY WorkerAssumption, LimitAssumption DEF Workers
  <2>2. /\ One(wpc'[1], Coming) = One(wpc[1], Coming)
        /\ One(wpc'[1], Sleeping) = One(wpc[1], Sleeping)
        /\ One(wpc'[1], Living) = One(wpc[1], Living) /\ One(wpc'[1], Busy) = One(wpc[1], Busy)
        /\ One(wpc[1], Coming) \in {0, 1} /\ One(wpc[1], Sleeping) \in {0, 1}
        /\ One(wpc[1], Living) \in {0, 1} /\ One(wpc[1], Busy) \in {0, 1}
        /\ Owed(lent) \in {0, 1}
    BY <1>11, <2>1, KindsCounted DEF One, Owed
  <2>3. /\ pool.live \in Nat /\ pool.idle \in Nat /\ pool.starting \in Nat
        /\ pool.running \in Nat /\ pool.live + pool.starting <= MaxWorkers
    BY <1>9, PoolFields
  <2>4. Shift(pool, pool', wpc[1], wpc'[1], lent, lent)
    BY <1>10, <2>2, <2>3 DEF Shift
  <2>5. Exact(pool', wpc', lent)
    BY <1>9, <1>11, <2>1, <2>4, ExactMoves
  <2> QED
    BY <1>1, <2>5
<1>13. Stage'
  BY <1>1, <1>3, <1>8, <1>10 DEF Stage
<1>14. Batches'
  <2>1. {x \in Owners : own'[x] = "queued"} = {x \in Owners : own[x] = "queued"}
    BY <1>8
  <2>2. \A v \in Workers : wpc'[v] \in Busy <=> wpc[v] \in Busy
    BY <1>11, KindsCounted
  <2> QED
    BY <1>1, <1>8, <1>10, <2>1, <2>2 DEF DropInvariant, Batches
<1>15. Bundles'
  BY <1>1, <1>8 DEF DropInvariant, Bundles
<1>16. BacklogAttended'
  BY <1>11 DEF BacklogAttended
<1>17. ServedInOrder
  <2>1. \A x \in Owners : own[x] = "out" /\ own'[x] = "held" => broker.waiters = <<>>
    BY <1>8
  <2>2. \A x \in Owners : own[x] = "waiting" => own'[x] = "waiting"
    BY <1>8
  <2> QED
    BY <1>2, <2>1, <2>2, OrderUntouched
<1> QED
  BY <1>1, <1>7, <1>12, <1>13, <1>14, <1>15, <1>16, <1>17 DEF DropInvariant

\* A set of workers that has nobody counts nothing.
LEMMA NobodyCounted ==
  ASSUME NEW pc, NEW S, \A w \in Workers : pc[w] \notin S
  PROVE  CountIn(pc, S) = 0
<1>1. {w \in Workers : pc[w] \in S} = {}
  OBVIOUS
<1> QED
  BY <1>1, FS_EmptySet DEF CountIn

\* The core workers are counted by their number.
LEMMA CoreCounted ==
  ASSUME NEW pc, NEW S, \A w \in Workers : pc[w] \in S <=> w \notin Elastic
  PROVE  CountIn(pc, S) = CoreWorkers
<1>1. CoreWorkers \in Nat /\ MaxWorkers \in Nat /\ 1 <= CoreWorkers /\ CoreWorkers <= MaxWorkers
  BY WorkerAssumption, LimitAssumption
<1>2. {w \in Workers : pc[w] \in S} = 1..CoreWorkers
  BY <1>1 DEF Workers, Elastic
<1>3. Cardinality(1..CoreWorkers) = CoreWorkers
  BY <1>1, FS_Interval
<1> QED
  BY <1>2, <1>3 DEF CountIn

\* DropDomain::executor publishes the executor with its core workers idle.
LEMMA StartKeeps ==
  ASSUME DropInvariant, Start
  PROVE  DropInvariant' /\ ServedInOrder
<1>1. /\ domain = "unstarted" /\ domain' = "open"
      /\ pool' = [pool EXCEPT !.live = CoreWorkers, !.idle = CoreWorkers]
      /\ wpc' = [w \in Workers |-> IF w \in Elastic THEN "off" ELSE "idle"]
      /\ broker' = broker /\ own' = own /\ bundle' = bundle /\ job' = job /\ lent' = lent
  BY DEF Start
<1>2. /\ ~lent /\ ~pool.closed
      /\ \A o \in Owners : own[o] = "out"
      /\ \A w \in Workers : wpc[w] = "off"
  BY <1>1 DEF DropInvariant, Stage
<1>3. /\ PoolRecord(pool) /\ pool.starting = CountIn(wpc, Coming) + Owed(lent)
      /\ pool.running = CountIn(wpc, Busy) /\ lent \in BOOLEAN
  BY DEF DropInvariant, Exact
<1>4. CountIn(wpc, Coming) = 0 /\ CountIn(wpc, Busy) = 0
  <2>1. \A w \in Workers : wpc[w] \notin Coming /\ wpc[w] \notin Busy
    BY <1>2 DEF Coming, Busy
  <2> QED
    BY <2>1, NobodyCounted
<1>5. /\ CoreWorkers \in Nat /\ MaxWorkers \in Nat /\ CoreWorkers <= MaxWorkers
  BY WorkerAssumption, LimitAssumption
<1>6. /\ PoolRecord(pool') /\ pool'.queue = pool.queue /\ pool'.closed = pool.closed
      /\ pool'.live = CoreWorkers /\ pool'.idle = CoreWorkers
      /\ pool'.starting = pool.starting /\ pool'.running = pool.running
  <2>1. CoreWorkers \in Int /\ pool' = [pool EXCEPT !.live = CoreWorkers, !.idle = CoreWorkers]
    BY <1>1, <1>5
  <2>2. pool \in [queue : Seq(Owners), closed : BOOLEAN, live : Int, idle : Int,
                  starting : Int, running : Int]
    BY <1>3 DEF PoolRecord
  <2>3. pool' \in [queue : Seq(Owners), closed : BOOLEAN, live : Int, idle : Int,
                   starting : Int, running : Int]
    BY <2>1, <2>2
  <2> QED
    BY <2>1, <2>2, <2>3 DEF PoolRecord
<1>7. /\ wpc' \in [Workers -> WorkerStates]
      /\ \A w \in Workers : wpc'[w] = IF w \in Elastic THEN "off" ELSE "idle"
  BY <1>1 DEF WorkerStates
<1>8. /\ CountIn(wpc', Coming) = 0 /\ CountIn(wpc', Busy) = 0
      /\ CountIn(wpc', Sleeping) = CoreWorkers /\ CountIn(wpc', Living) = CoreWorkers
  <2>1. \A w \in Workers : /\ wpc'[w] \notin Coming /\ wpc'[w] \notin Busy
                           /\ wpc'[w] \in Sleeping <=> w \notin Elastic
                           /\ wpc'[w] \in Living <=> w \notin Elastic
    BY <1>7 DEF Coming, Busy, Sleeping, Living, WorkerStates
  <2>2. PICK pc : pc = wpc'
    OBVIOUS
  <2>3. /\ CountIn(pc, Coming) = 0 /\ CountIn(pc, Busy) = 0
        /\ CountIn(pc, Sleeping) = CoreWorkers /\ CountIn(pc, Living) = CoreWorkers
    BY <2>1, <2>2, NobodyCounted, CoreCounted
  <2> QED
    BY <2>2, <2>3
<1>9. Exact(pool', wpc', lent')
  <2>1. Owed(lent) = 0
    BY <1>2 DEF Owed
  <2> QED
    BY <1>1, <1>3, <1>4, <1>5, <1>6, <1>7, <1>8, <2>1 DEF Exact
<1>10. pool.queue = <<>>
  <2>1. {o \in Owners : own[o] = "queued"} = {}
    BY <1>2
  <2>2. Lists(Owners, pool.queue, {})
    BY <2>1 DEF DropInvariant, Batches
  <2> QED
    BY <2>2, ListsNothing
<1>11. BacklogAttended'
  BY <1>6, <1>10 DEF BacklogAttended
<1>12. Stage'
  BY <1>1, <1>2, <1>6 DEF Stage
<1>13. Batches'
  <2>1. \A w \in Workers : wpc[w] \notin Busy /\ wpc'[w] \notin Busy
    BY <1>2, <1>7 DEF Busy
  <2> QED
    BY <1>1, <1>6, <2>1 DEF DropInvariant, Batches
<1>14. Bundles'
  BY <1>1 DEF DropInvariant, Bundles
<1>15. Budget(broker', own', domain')
  <2>1. Budget(broker, own, domain) /\ domain # "closed" /\ domain' # "closed"
    BY <1>1 DEF DropInvariant
  <2> QED
    BY <1>1, <2>1 DEF Budget, Accounted
<1>16. ServedInOrder
  <2>1. Budget(broker, own, domain)
    BY DEF DropInvariant
  <2> QED
    BY <1>1, <2>1, OrderUntouched
<1> QED
  BY <1>9, <1>11, <1>12, <1>13, <1>14, <1>15, <1>16 DEF DropInvariant

\* The supervisor lets go of its domain.
LEMMA DropDomainKeeps ==
  ASSUME DropInvariant, DropDomain
  PROVE  DropInvariant' /\ ServedInOrder
<1>1. /\ domain = "open" /\ domain' = "dropped" /\ UNCHANGED poolVars
      /\ broker' = broker /\ own' = own /\ bundle' = bundle
  BY DEF DropDomain
<1>2. /\ Exact(pool', wpc', lent') /\ BacklogAttended'
      /\ pool' = pool /\ wpc' = wpc /\ job' = job /\ lent' = lent
  BY <1>1, PoolUntouched DEF DropInvariant
<1>3. Budget(broker, own, domain)
  BY DEF DropInvariant
<1>4. Budget(broker', own', domain')
  BY <1>1, <1>3 DEF Budget, Accounted
<1>5. Stage' /\ Batches' /\ Bundles'
  BY <1>1, <1>2 DEF DropInvariant, Stage, Batches, Bundles
<1>6. ServedInOrder
  BY <1>1, <1>3, OrderUntouched
<1> QED
  BY <1>2, <1>4, <1>5, <1>6 DEF DropInvariant

\* Nothing happens.
LEMMA NothingKeeps ==
  ASSUME DropInvariant, UNCHANGED dropVars
  PROVE  DropInvariant' /\ ServedInOrder
<1>1. /\ domain' = domain /\ UNCHANGED poolVars
      /\ broker' = broker /\ own' = own /\ bundle' = bundle
  BY DEF dropVars, clientVars
<1>2. /\ Exact(pool', wpc', lent') /\ BacklogAttended'
      /\ pool' = pool /\ wpc' = wpc /\ job' = job /\ lent' = lent
  BY <1>1, PoolUntouched DEF DropInvariant
<1>3. Budget(broker, own, domain) /\ Budget(broker', own', domain')
  BY <1>1 DEF DropInvariant
<1>4. Stage' /\ Batches' /\ Bundles'
  BY <1>1, <1>2 DEF DropInvariant, Stage, Batches, Bundles
<1>5. ServedInOrder
  BY <1>1, <1>3, OrderUntouched
<1> QED
  BY <1>2, <1>3, <1>4, <1>5 DEF DropInvariant

\* Before the executor is started every unit is free and no thread exists.
LEMMA DropInvariantInit ==
  ASSUME DropInit
  PROVE  DropInvariant
<1> USE DEF DropInit
<1>1. /\ broker.available = Limit /\ broker.effective = Limit /\ broker.waiters = <<>>
      /\ broker.closed = FALSE /\ \A o \in Owners : own[o] = "out"
      /\ pool.queue = <<>> /\ pool.closed = FALSE /\ lent = FALSE
      /\ \A w \in Workers : wpc[w] = "off" /\ job[w] = NoOwner
      /\ domain = "unstarted"
  OBVIOUS
<1>2. Stage
  BY <1>1 DEF Stage
<1>3. Budget(broker, own, domain)
  <2>1. BrokerTypes(broker) /\ Limit \in Nat /\ Len(broker.waiters) = 0
    BY LimitAssumption DEF BrokerTypes
  <2>2. own \in [Owners -> OwnStates] /\ WaitingIn(own) = {} /\ ChargedIn(own) = {}
    BY DEF OwnStates, WaitingIn, ChargedIn
  <2>3. Lists(Owners, broker.waiters, WaitingIn(own))
    BY <1>1, <2>2, ListsNothing
  <2>4. Cardinality(ChargedIn(own)) = 0
    BY <2>2, FS_EmptySet
  <2>5. broker.available + Cardinality(ChargedIn(own)) = broker.effective
    BY <1>1, <2>1, <2>4
  <2>6. Len(broker.waiters) <= Limit
    BY <2>1, LimitAssumption
  <2> HIDE DEF DropInit
  <2> QED
    BY <1>1, <2>1, <2>2, <2>3, <2>5, <2>6 DEF Budget, Accounted
<1>4. Exact(pool, wpc, lent)
  <2>1. PoolRecord(pool) /\ wpc \in [Workers -> WorkerStates] /\ lent \in BOOLEAN
    <3>1. <<>> \in Seq(Owners) /\ 0 \in Int /\ FALSE \in BOOLEAN
      OBVIOUS
    <3>2. PoolRecord(pool)
      BY <3>1 DEF PoolRecord
    <3> QED
      BY <3>2 DEF WorkerStates
  <2>2. \A w \in Workers : /\ wpc[w] \notin Coming /\ wpc[w] \notin Busy
                           /\ wpc[w] \notin Sleeping /\ wpc[w] \notin Living
    BY <1>1 DEF Coming, Busy, Sleeping, Living
  <2>3. /\ CountIn(wpc, Coming) = 0 /\ CountIn(wpc, Busy) = 0
        /\ CountIn(wpc, Sleeping) = 0 /\ CountIn(wpc, Living) = 0
    BY <2>2, NobodyCounted
  <2>4. Owed(lent) = 0 /\ MaxWorkers \in Nat
    BY <1>1, WorkerAssumption, LimitAssumption DEF Owed
  <2>5. pool.starting = 0 /\ pool.running = 0 /\ pool.idle = 0 /\ pool.live = 0
    OBVIOUS
  <2> HIDE DEF DropInit
  <2> QED
    BY <2>1, <2>3, <2>4, <2>5 DEF Exact
<1>5. Batches
  <2>1. {o \in Owners : own[o] = "queued"} = {}
    BY <1>1
  <2>2. Lists(Owners, pool.queue, {o \in Owners : own[o] = "queued"})
    BY <1>1, <2>1, ListsNothing
  <2>3. \A w \in Workers : job[w] \notin Owners /\ wpc[w] \notin Busy
    BY <1>1, StuckAssumption DEF Busy
  <2>4. job \in [Workers -> Owners \cup {NoOwner}]
    OBVIOUS
  <2> HIDE DEF DropInit
  <2> QED
    BY <1>1, <2>2, <2>3, <2>4 DEF Batches
<1>6. Bundles
  <2>1. <<>> \in Seq(Jobs) /\ IsInjective(<<>>)
    BY DEF IsInjective
  <2>2. \A o \in Owners : bundle[o] = NoBundle
    OBVIOUS
  <2>3. NoBundle.jobs = <<>> /\ NoBundle \in [jobs : Seq(Jobs), poisoned : BOOLEAN]
    BY <2>1 DEF NoBundle
  <2>4. bundle \in [Owners -> [jobs : Seq(Jobs), poisoned : BOOLEAN]]
    BY <2>3
  <2> HIDE DEF DropInit
  <2> QED
    BY <2>1, <2>2, <2>3, <2>4 DEF Bundles
<1>7. BacklogAttended
  BY <1>1 DEF BacklogAttended
<1> QED
  BY <1>2, <1>3, <1>4, <1>5, <1>6, <1>7 DEF DropInvariant

\* One step of the system, of whomever.
LEMMA DropStep ==
  ASSUME DropInvariant, [DropNext]_dropVars
  PROVE  DropInvariant' /\ ServedInOrder
<1> USE DEF DropInvariant
<1>1. CASE Start
  BY <1>1, StartKeeps
<1>2. CASE DropDomain
  BY <1>2, DropDomainKeeps
<1>3. CASE DropExecutor
  BY <1>3, DropExecutorKeeps
<1>4. CASE SubmitterSpawns
  BY <1>4, SubmitterSpawnsStep, WorkersKeep
<1>5. CASE Terminated \/ UNCHANGED dropVars
  BY <1>5, NothingKeeps DEF Terminated
<1>6. ASSUME NEW B \in SUBSET Owners, TryAcquire(B) PROVE DropInvariant' /\ ServedInOrder
  BY <1>6, TryAcquireStep, RequestsKeep
<1>7. ASSUME NEW o \in Owners, \/ AcquireNow(o) \/ AcquireLater(o) \/ TakeGrant(o)
                               \/ FindClosed(o) \/ CancelRequest(o)
      PROVE  DropInvariant' /\ ServedInOrder
  <2>1. RequestStep /\ Budget(broker', own', domain') /\ ServedInOrder
    BY <1>7, AcquireNowStep, AcquireLaterStep, WaitReturns, CancelRequestStep
  <2> QED
    BY <2>1, RequestsKeep
<1>8. ASSUME NEW o \in Owners, Submit(o) PROVE DropInvariant' /\ ServedInOrder
  BY <1>8, SubmitKeeps
<1>9. ASSUME \/ \E o \in Owners : Poison(o) \/ \E s \in Slots : Attach(o, s)
             \/ \E w \in Workers : RunJob(w)
      PROVE  DropInvariant' /\ ServedInOrder
  <2>1. DropInvariant'
    BY <1>9, BundleSteps
  <2>2. own' = own
    BY <1>9 DEF Poison, Attach, RunJob
  <2>3. ServedInOrder
    BY <2>2, OrderUntouched
  <2> QED
    BY <2>1, <2>3
<1>10. ASSUME NEW w \in Workers, \/ DelayOver(w) \/ GoIdle(w) \/ Retreat(w) \/ ExitClosed(w)
                                 \/ WorkerSpawns(w) \/ IdleTimeout(w)
       PROVE  DropInvariant' /\ ServedInOrder
  <2>1. WorkerStep
    BY <1>10, DelayOverStep, GoIdleStep, TimeoutStep, ExitClosedStep, WorkerSpawnsStep
  <2> QED
    BY <2>1, WorkersKeep
<1>11. ASSUME NEW w \in Workers, TakeBatch(w) \/ Dispose(w)
       PROVE  DropInvariant' /\ ServedInOrder
  BY <1>11, TakeBatchKeeps, DisposeKeeps
<1> HIDE DEF DropInvariant
<1> QED
  BY <1>1, <1>2, <1>3, <1>4, <1>5, <1>6, <1>7, <1>8, <1>9, <1>10, <1>11 DEF DropNext, Turn

(***************************************************************************)
(* The theorems.                                                           *)
(***************************************************************************)

\* The inductive invariant holds in every reachable state.
THEOREM DropInvariance == DropSpec => []DropInvariant
<1>1. DropInit => DropInvariant
  BY DropInvariantInit
<1>2. DropInvariant /\ [DropNext]_dropVars => DropInvariant'
  BY DropStep
<1> QED
  BY <1>1, <1>2, PTL DEF DropSpec

\* The ownership budget of CapacityBroker is exact: a unit is free, charged to
\* one lifetime or retired, and no unit is free while a request is parked.
THEOREM UnitsAreConserved == DropSpec => []UnitsConserved
<1>1. DropInvariant => UnitsConserved
  <2> SUFFICES ASSUME DropInvariant PROVE UnitsConserved
    OBVIOUS
  <2>1. Budget(broker, own, domain)
    BY DEF DropInvariant
  <2>2. Charged = ChargedIn(own)
    BY DEF Charged, ChargedIn
  <2>3. IsInjective(broker.waiters) /\ ToSet(broker.waiters) = {o \in Owners : own[o] = "waiting"}
    BY <2>1 DEF Budget, Accounted, Lists, WaitingIn
  <2> QED
    BY <2>1, <2>2, <2>3 DEF UnitsConserved, Budget, Accounted
<1> QED
  BY <1>1, DropInvariance, PTL

\* The counters under WorkerQueue's lock say what the threads do, the ceiling
\* on threads holds, and every batch is queued once or with one worker.
THEOREM PoolIsExact == DropSpec => []PoolExact
<1>1. DropInvariant => PoolExact
  <2> SUFFICES ASSUME DropInvariant PROVE PoolExact
    OBVIOUS
  <2>1. /\ pool.queue \in Seq(Owners) /\ pool.closed \in BOOLEAN
        /\ pool.live \in Nat /\ pool.idle \in Nat /\ pool.starting \in Nat /\ pool.running \in Nat
    BY PoolFields DEF DropInvariant
  <2>2. pool \in [queue : Seq(Owners), closed : BOOLEAN, live : Nat, idle : Nat,
                  starting : Nat, running : Nat]
    BY <2>1 DEF DropInvariant, Exact, PoolRecord
  <2>3. DropTypeOK
    BY <2>2 DEF DropInvariant, DropTypeOK, Stage, Budget, Accounted, BrokerTypes, Exact,
                Batches, Bundles
  <2>4. /\ pool.starting = At({"launched", "spawn"}) + (IF lent THEN 1 ELSE 0)
        /\ pool.idle = At({"idle", "woken", "expired"})
        /\ pool.live = At(WorkerStates \ {"off", "launched"})
        /\ pool.running = At({"delay", "spawn", "run"})
        /\ pool.live + pool.starting <= MaxWorkers
    BY DEF DropInvariant, Exact, At, CountIn, Coming, Sleeping, Living, Busy, Owed
  <2>5. IsInjective(pool.queue) /\ ToSet(pool.queue) = {o \in Owners : own[o] = "queued"}
    BY DEF DropInvariant, Batches, Lists
  <2>6. \A o \in Owners : /\ own[o] = "running" <=> \E w \in Workers : job[w] = o
                          /\ own[o] # "leaked"
                          /\ own[o] = "out" => bundle[o].jobs = <<>>
    BY DEF DropInvariant, Batches, Bundles, Asks
  <2> QED
    BY <2>3, <2>4, <2>5, <2>6 DEF PoolExact
<1> QED
  BY <1>1, DropInvariance, PTL

\* No worker sleeps through a backlog, although submit notifies one thread
\* only: somebody is on the way to the queue or will wake everybody.
THEOREM BacklogIsAttended == DropSpec => []BacklogAttended
<1>1. DropInvariant => BacklogAttended
  BY DEF DropInvariant
<1> QED
  BY <1>1, DropInvariance, PTL

\* CapacityBroker serves requests in the order of their arrival, and no
\* fail-fast request overtakes a parked one.
THEOREM NobodyBarges == DropSpec => NoBarging
<1>1. DropInvariant /\ [DropNext]_dropVars => [ServedInOrder]_dropVars
  BY DropStep
<1> QED
  BY <1>1, DropInvariance, PTL DEF DropSpec, NoBarging
===========================================================================
