---------------------------- MODULE QueueLemmas ----------------------------
(***************************************************************************)
(* Queues without repetition, such as the requests for ownership units,    *)
(* the batches for the cleanup workers, and the controller's commands,     *)
(* slot queues and reservations: what joining, serving, leaving and        *)
(* cutting them does to the set of those who are in them.                  *)
(***************************************************************************)
EXTENDS Integers, FiniteSets, SequencesExt, TLAPS, FiniteSetTheorems, SequenceTheorems

\* s lists the elements of X, a part of S, each of them once.
Lists(S, s, X) == s \in Seq(S) /\ IsInjective(s) /\ ToSet(s) = X

\* Those of s who are not o stand in t in the same order.
KeepsOrder(s, t, o) ==
    \A i, j \in DOMAIN s :
        i < j /\ s[i] # o /\ s[j] # o =>
            \E m, n \in DOMAIN t : m < n /\ t[m] = s[i] /\ t[n] = s[j]

\* Lists, in terms of positions.
LEMMA ListsByPlace ==
  ASSUME NEW S, NEW s \in Seq(S), NEW X
  PROVE  Lists(S, s, X) <=>
           /\ \A i \in 1..Len(s) : s[i] \in X
           /\ \A x \in X : \E i \in 1..Len(s) : s[i] = x
           /\ \A i, j \in 1..Len(s) : s[i] = s[j] => i = j
<1>1. DOMAIN s = 1..Len(s)
  OBVIOUS
<1>2. IsInjective(s) <=> \A i, j \in 1..Len(s) : s[i] = s[j] => i = j
  BY <1>1 DEF IsInjective
<1>3. ToSet(s) = X <=> /\ \A i \in 1..Len(s) : s[i] \in X
                       /\ \A x \in X : \E i \in 1..Len(s) : s[i] = x
  BY <1>1 DEF ToSet
<1> QED
  BY <1>2, <1>3 DEF Lists

\* The empty queue, and only it, lists nothing.
LEMMA ListsNothing ==
  ASSUME NEW S
  PROVE  /\ Lists(S, <<>>, {})
         /\ \A s : Lists(S, s, {}) => s = <<>>
         /\ \A X : Lists(S, <<>>, X) => X = {}
<1>1. <<>> \in Seq(S) /\ Len(<<>>) = 0 /\ 1..0 = {}
  OBVIOUS
<1>2. ASSUME NEW s, Lists(S, s, {}) PROVE s = <<>>
  <2>1. s \in Seq(S)
    BY <1>2 DEF Lists
  <2>2. 1..Len(s) = {}
    BY <1>2, <2>1, ListsByPlace
  <2>3. Len(s) \in Nat /\ ~(1 <= Len(s))
    BY <2>1, <2>2
  <2> QED
    BY <2>1, <2>3, EmptySeq
<1> QED
  BY <1>1, <1>2, ListsByPlace

\* A newcomer joins the queue.
LEMMA ListsAppend ==
  ASSUME NEW S, NEW s, NEW X, Lists(S, s, X), NEW e \in S, e \notin X
  PROVE  Lists(S, Append(s, e), X \cup {e}) /\ Len(Append(s, e)) = Len(s) + 1
<1> DEFINE t == Append(s, e)
<1>1. s \in Seq(S) /\ Len(s) \in Nat
  BY DEF Lists
<1>2. /\ t \in Seq(S) /\ Len(t) = Len(s) + 1 /\ t[Len(s) + 1] = e
      /\ \A i \in 1..Len(s) : t[i] = s[i]
  BY <1>1, AppendProperties
<1>3. /\ \A i \in 1..Len(s) : s[i] \in X
      /\ \A x \in X : \E i \in 1..Len(s) : s[i] = x
      /\ \A i, j \in 1..Len(s) : s[i] = s[j] => i = j
  BY <1>1, ListsByPlace
<1> HIDE DEF t
<1>4. \A i \in 1..Len(t) : i \in 1..Len(s) \/ i = Len(s) + 1
  BY <1>1, <1>2
<1>5. \A i \in 1..Len(t) : t[i] \in X \cup {e}
  BY <1>2, <1>3, <1>4
<1>6. \A x \in X \cup {e} : \E i \in 1..Len(t) : t[i] = x
  BY <1>1, <1>2, <1>3
<1>7. \A i, j \in 1..Len(t) : t[i] = t[j] => i = j
  BY <1>2, <1>3, <1>4
<1>8. Lists(S, t, X \cup {e})
  BY <1>2, <1>5, <1>6, <1>7, ListsByPlace
<1> QED
  BY <1>2, <1>8 DEF t

\* The queue without the one that is served.
LEMMA ListsTail ==
  ASSUME NEW S, NEW s, NEW X, Lists(S, s, X), s # <<>>
  PROVE  Head(s) \in X /\ Head(s) \in S /\ Lists(S, Tail(s), X \ {Head(s)})
<1> DEFINE t == Tail(s)
<1>1. s \in Seq(S) /\ Len(s) \in Nat /\ Len(s) > 0 /\ Head(s) = s[1]
  BY DEF Lists
<1>2. /\ Head(s) \in S /\ t \in Seq(S) /\ Len(t) = Len(s) - 1
      /\ \A i \in 1..Len(t) : t[i] = s[i + 1]
  BY <1>1, HeadTailProperties
<1>3. /\ \A i \in 1..Len(s) : s[i] \in X
      /\ \A x \in X : \E i \in 1..Len(s) : s[i] = x
      /\ \A i, j \in 1..Len(s) : s[i] = s[j] => i = j
  BY <1>1, ListsByPlace
<1> HIDE DEF t
<1>4. \A i \in 1..Len(t) : i + 1 \in 1..Len(s) /\ i + 1 # 1
  BY <1>1, <1>2
<1>5. 1 \in 1..Len(s)
  BY <1>1
<1>6. \A i \in 1..Len(t) : t[i] \in X \ {Head(s)}
  BY <1>1, <1>2, <1>3, <1>4, <1>5
<1>7. ASSUME NEW x \in X \ {Head(s)} PROVE \E i \in 1..Len(t) : t[i] = x
  <2>1. PICK i \in 1..Len(s) : s[i] = x
    BY <1>3
  <2>2. i # 1
    BY <1>1, <2>1
  <2>3. i - 1 \in 1..Len(t) /\ (i - 1) + 1 = i
    BY <1>1, <1>2, <2>2
  <2> QED
    BY <1>2, <2>1, <2>3
<1>8. \A i, j \in 1..Len(t) : t[i] = t[j] => i = j
  BY <1>2, <1>3, <1>4
<1>9. Lists(S, t, X \ {Head(s)})
  BY <1>2, <1>6, <1>7, <1>8, ListsByPlace
<1> QED
  BY <1>1, <1>2, <1>3, <1>5, <1>9 DEF t

\* A sequence without its k-th element.
LEMMA RemoveAtProperties ==
  ASSUME NEW S, NEW s \in Seq(S), NEW k \in 1..Len(s)
  PROVE  /\ RemoveAt(s, k) \in Seq(S) /\ Len(RemoveAt(s, k)) = Len(s) - 1
         /\ \A j \in 1..(Len(s) - 1) :
              RemoveAt(s, k)[j] = IF j < k THEN s[j] ELSE s[j + 1]
<1> DEFINE a == SubSeq(s, 1, k - 1)
           b == SubSeq(s, k + 1, Len(s))
<1>0. Len(s) \in Nat /\ k \in Int /\ \A j \in 1..Len(s) : s[j] \in S
  OBVIOUS
<1>1. /\ a \in Seq(S) /\ Len(a) = k - 1 /\ \A j \in 1..(k - 1) : a[j] = s[j]
  <2>1. \A j \in 1..(k - 1) : s[j] \in S
    BY <1>0
  <2> QED
    BY <1>0, <2>1, SubSeqProperties
<1>2. /\ b \in Seq(S) /\ Len(b) = Len(s) - k /\ \A j \in 1..(Len(s) - k) : b[j] = s[k + j]
  <2>1. \A j \in (k + 1)..Len(s) : s[j] \in S
    BY <1>0
  <2>2. /\ b \in Seq(S) /\ Len(b) = IF k + 1 <= Len(s) THEN Len(s) - (k + 1) + 1 ELSE 0
        /\ \A j \in 1..(Len(s) - (k + 1) + 1) : b[j] = s[(k + 1) + j - 1]
    BY <1>0, <2>1, SubSeqProperties
  <2> QED
    BY <1>0, <2>2
<1> HIDE DEF a, b
<1>3. /\ a \o b \in Seq(S) /\ Len(a \o b) = Len(a) + Len(b)
      /\ \A j \in 1..(Len(a) + Len(b)) : (a \o b)[j] = IF j <= Len(a) THEN a[j] ELSE b[j - Len(a)]
  BY <1>1, <1>2, ConcatProperties
<1>4. Len(a) + Len(b) = Len(s) - 1
  BY <1>0, <1>1, <1>2
<1>5. ASSUME NEW j \in 1..(Len(s) - 1)
      PROVE  (a \o b)[j] = IF j < k THEN s[j] ELSE s[j + 1]
  <2>1. CASE j < k
    BY <1>0, <1>1, <1>3, <1>4, <2>1
  <2>2. CASE ~(j < k)
    <3>1. j - (k - 1) \in 1..(Len(s) - k) /\ k + (j - (k - 1)) = j + 1 /\ ~(j <= k - 1)
      BY <1>0, <2>2
    <3>2. b[j - (k - 1)] = s[j + 1]
      BY <1>2, <3>1
    <3> QED
      BY <1>1, <1>3, <1>4, <2>2, <3>1, <3>2
  <2> QED
    BY <2>1, <2>2
<1> QED
  BY <1>3, <1>4, <1>5 DEF RemoveAt, a, b

\* Somebody leaves the queue: the others keep their order.
LEMMA ListsRemoveAt ==
  ASSUME NEW S, NEW s, NEW X, Lists(S, s, X), NEW k \in DOMAIN s
  PROVE  /\ s[k] \in X /\ Lists(S, RemoveAt(s, k), X \ {s[k]})
         /\ Len(RemoveAt(s, k)) <= Len(s)
         /\ KeepsOrder(s, RemoveAt(s, k), s[k])
<1> DEFINE t == RemoveAt(s, k)
           new(i) == IF i < k THEN i ELSE i - 1
           old(i) == IF i < k THEN i ELSE i + 1
<1>1. s \in Seq(S) /\ Len(s) \in Nat /\ DOMAIN s = 1..Len(s) /\ k \in 1..Len(s)
  BY DEF Lists
<1>2. /\ t \in Seq(S) /\ Len(t) = Len(s) - 1
      /\ \A i \in 1..Len(t) : t[i] = s[old(i)]
  <2>1. /\ t \in Seq(S) /\ Len(t) = Len(s) - 1
        /\ \A i \in 1..(Len(s) - 1) : t[i] = IF i < k THEN s[i] ELSE s[i + 1]
    BY <1>1, RemoveAtProperties
  <2> QED
    BY <2>1
<1>3. /\ \A i \in 1..Len(s) : s[i] \in X
      /\ \A x \in X : \E i \in 1..Len(s) : s[i] = x
      /\ \A i, j \in 1..Len(s) : s[i] = s[j] => i = j
  BY <1>1, ListsByPlace
<1> HIDE DEF t
<1>4. \A i \in 1..Len(t) : old(i) \in 1..Len(s) /\ old(i) # k
  BY <1>1, <1>2
<1>5. \A i, j \in 1..Len(t) : old(i) = old(j) => i = j
  BY <1>1, <1>2
<1>6. \A i \in 1..Len(s) : i # k => new(i) \in 1..Len(t) /\ old(new(i)) = i
  BY <1>1, <1>2
<1>7. \A i, j \in 1..Len(s) : i < j /\ i # k /\ j # k => new(i) < new(j)
  BY <1>1
<1> HIDE DEF old, new
<1>8. \A i \in 1..Len(t) : t[i] \in X \ {s[k]}
  BY <1>1, <1>2, <1>3, <1>4
<1>9. ASSUME NEW x \in X \ {s[k]} PROVE \E i \in 1..Len(t) : t[i] = x
  <2>1. PICK i \in 1..Len(s) : s[i] = x
    BY <1>3
  <2>2. new(i) \in 1..Len(t) /\ t[new(i)] = x
    BY <1>2, <1>6, <2>1
  <2> QED
    BY <2>2
<1>10. \A i, j \in 1..Len(t) : t[i] = t[j] => i = j
  BY <1>2, <1>3, <1>4, <1>5
<1>11. Lists(S, t, X \ {s[k]})
  BY <1>2, <1>8, <1>9, <1>10, ListsByPlace
<1>12. ASSUME NEW i \in DOMAIN s, NEW j \in DOMAIN s, i < j, i # k, j # k
       PROVE  \E m, n \in DOMAIN t : m < n /\ t[m] = s[i] /\ t[n] = s[j]
  <2>1. DOMAIN t = 1..Len(t)
    BY <1>2
  <2>2. /\ new(i) \in DOMAIN t /\ new(j) \in DOMAIN t /\ new(i) < new(j)
        /\ t[new(i)] = s[i] /\ t[new(j)] = s[j]
    BY <1>1, <1>2, <1>6, <1>7, <1>12, <2>1
  <2> QED
    BY <2>2
<1>13. KeepsOrder(s, t, s[k])
  BY <1>12 DEF KeepsOrder
<1>14. Len(t) <= Len(s)
  BY <1>1, <1>2
<1> QED
  BY <1>1, <1>3, <1>11, <1>13, <1>14 DEF t

\* The queue is cut in two after the n-th place.
LEMMA ListsSplit ==
  ASSUME NEW S, NEW s, NEW X, Lists(S, s, X), NEW n \in 0..Len(s)
  PROVE  LET a == SubSeq(s, 1, n)
             b == SubSeq(s, n + 1, Len(s))
         IN /\ Lists(S, b, ToSet(b)) /\ Len(b) = Len(s) - n
            /\ ToSet(a) \cup ToSet(b) = X /\ ToSet(a) \cap ToSet(b) = {}
            /\ IsFiniteSet(ToSet(a)) /\ Cardinality(ToSet(a)) = n
            /\ \A i \in DOMAIN s : s[i] \in ToSet(a) <=> i <= n
<1> DEFINE a == SubSeq(s, 1, n)
           b == SubSeq(s, n + 1, Len(s))
<1>1. /\ s \in Seq(S) /\ Len(s) \in Nat /\ DOMAIN s = 1..Len(s) /\ n \in Nat /\ n <= Len(s)
      /\ \A i \in 1..Len(s) : s[i] \in S
  BY DEF Lists
<1>0. Len(s) \in Nat /\ n \in Nat /\ n <= Len(s)
  BY <1>1
<1>2. /\ a \in Seq(S) /\ Len(a) = n /\ \A i \in 1..n : a[i] = s[i]
  <2>1. \A i \in 1..n : s[i] \in S
    BY <1>1
  <2> QED
    BY <1>1, <2>1, SubSeqProperties
<1>3. /\ b \in Seq(S) /\ Len(b) = Len(s) - n /\ \A i \in 1..(Len(s) - n) : b[i] = s[n + i]
  <2>1. \A i \in (n + 1)..Len(s) : s[i] \in S
    BY <1>1
  <2>2. /\ b \in Seq(S) /\ Len(b) = IF n + 1 <= Len(s) THEN Len(s) - (n + 1) + 1 ELSE 0
        /\ \A i \in 1..(Len(s) - (n + 1) + 1) : b[i] = s[(n + 1) + i - 1]
    BY <1>1, <2>1, SubSeqProperties
  <2> HIDE DEF b
  <2>3. Len(s) - (n + 1) + 1 = Len(s) - n
    BY <1>1
  <2>5. Len(b) = Len(s) - n
    <3>1. Len(b) = IF n + 1 <= Len(s) THEN Len(s) - (n + 1) + 1 ELSE 0
      BY <2>2
    <3>2. n + 1 <= Len(s) \/ Len(s) - n = 0
      BY <1>0
    <3> QED
      BY <1>0, <3>1, <3>2
  <2>4. \A i \in 1..(Len(s) - n) : (n + 1) + i - 1 = n + i
    BY <1>1
  <2> QED
    BY <2>2, <2>3, <2>4, <2>5
<1>4. /\ \A i \in 1..Len(s) : s[i] \in X
      /\ \A x \in X : \E i \in 1..Len(s) : s[i] = x
      /\ \A i, j \in 1..Len(s) : s[i] = s[j] => i = j
  BY <1>1, ListsByPlace
<1> HIDE DEF a, b
<1>5. \A x : x \in ToSet(a) <=> \E i \in 1..n : s[i] = x
  BY <1>2 DEF ToSet
<1>6. \A x : x \in ToSet(b) <=> \E i \in 1..Len(s) : i > n /\ s[i] = x
  <2>1. \A x : x \in ToSet(b) <=> \E i \in 1..(Len(s) - n) : s[n + i] = x
    <3>1. DOMAIN b = 1..(Len(s) - n)
      BY <1>3
    <3>2. \A x : x \in ToSet(b) <=> \E i \in 1..(Len(s) - n) : b[i] = x
      BY <3>1 DEF ToSet
    <3>3. \A i \in 1..(Len(s) - n) : b[i] = s[n + i]
      BY <1>3
    <3> QED
      BY <3>2, <3>3
  <2>2. ASSUME NEW x, NEW i \in 1..(Len(s) - n), s[n + i] = x
        PROVE  \E j \in 1..Len(s) : j > n /\ s[j] = x
    <3>1. n + i \in 1..Len(s) /\ n + i > n
      BY <1>1
    <3> QED
      BY <2>2, <3>1
  <2>3. ASSUME NEW x, NEW j \in 1..Len(s), j > n, s[j] = x
        PROVE  \E i \in 1..(Len(s) - n) : s[n + i] = x
    <3>1. j - n \in 1..(Len(s) - n) /\ n + (j - n) = j
      BY <1>1, <2>3
    <3> QED
      BY <2>3, <3>1
  <2> QED
    BY <2>1, <2>2, <2>3
<1>7. Lists(S, b, ToSet(b))
  <2>1. \A i, j \in 1..Len(b) : b[i] = b[j] => i = j
    <3>1. \A i \in 1..Len(b) : n + i \in 1..Len(s) /\ b[i] = s[n + i]
      BY <1>1, <1>3
    <3> QED
      BY <1>1, <1>3, <1>4, <3>1
  <2>2. DOMAIN b = 1..Len(b)
    BY <1>3
  <2> QED
    BY <1>3, <2>1, <2>2 DEF Lists, IsInjective
<1>8. ToSet(a) \cup ToSet(b) = X
  <2>1. \A i \in 1..Len(s) : i \in 1..n \/ i > n
    BY <1>1
  <2>2. \A i \in 1..n : i \in 1..Len(s)
    BY <1>1
  <2> QED
    BY <1>4, <1>5, <1>6, <2>1, <2>2
<1>9. \A i \in 1..Len(s) : s[i] \in ToSet(a) <=> i <= n
  <2>1. \A i \in 1..Len(s) : i \in 1..n <=> i <= n
    BY <1>1
  <2>2. \A i \in 1..n : i \in 1..Len(s)
    BY <1>1
  <2> QED
    BY <1>4, <1>5, <2>1, <2>2
<1>10. ToSet(a) \cap ToSet(b) = {}
  BY <1>1, <1>6, <1>9
<1>11. IsFiniteSet(ToSet(a)) /\ Cardinality(ToSet(a)) = n
  <2> DEFINE f == [i \in 1..n |-> s[i]]
  <2>1. f \in Bijection(1..n, ToSet(a))
    <3>1. f \in [1..n -> ToSet(a)]
      BY <1>5
    <3>2. \A i \in 1..n : i \in 1..Len(s)
      BY <1>1
    <3>3. \A i, j \in 1..n : f[i] = f[j] => i = j
      BY <1>4, <3>2
    <3>4. \A x \in ToSet(a) : \E i \in 1..n : f[i] = x
      BY <1>5
    <3> QED
      BY <3>1, <3>3, <3>4 DEF Bijection, Injection, Surjection, IsInjective
  <2>2. ExistsBijection(1..n, ToSet(a))
    BY <2>1 DEF ExistsBijection
  <2>3. IsFiniteSet(1..n) /\ Cardinality(1..n) = n
    <3>1. n \in Int /\ 1 \in Int
      BY <1>1
    <3>2. IsFiniteSet(1..n) /\ Cardinality(1..n) = IF 1 > n THEN 0 ELSE n - 1 + 1
      BY <3>1, FS_Interval
    <3> QED
      BY <1>1, <3>2
  <2> QED
    BY <2>2, <2>3, FS_Bijection
<1> QED
  BY <1>1, <1>3, <1>7, <1>8, <1>9, <1>10, <1>11 DEF a, b

\* A queue is as long as the number of those in it.
LEMMA ListsCount ==
  ASSUME NEW S, NEW s, NEW X, Lists(S, s, X)
  PROVE  IsFiniteSet(X) /\ Cardinality(X) = Len(s)
<1>1. s \in Seq(S) /\ Len(s) \in Nat /\ ToSet(s) = X
  BY DEF Lists
<1>2. PICK n : n = Len(s)
  OBVIOUS
<1>3. n \in 0..Len(s)
  BY <1>1, <1>2
<1>4. PICK a, b : a = SubSeq(s, 1, n) /\ b = SubSeq(s, n + 1, Len(s))
  OBVIOUS
<1>5. /\ Lists(S, b, ToSet(b)) /\ Len(b) = Len(s) - n /\ ToSet(a) \cup ToSet(b) = X
      /\ IsFiniteSet(ToSet(a)) /\ Cardinality(ToSet(a)) = n
  BY <1>3, <1>4, ListsSplit
<1>6. b \in Seq(S) /\ Len(b) = 0
  BY <1>1, <1>2, <1>5 DEF Lists
<1>7. ToSet(b) = {}
  BY <1>6 DEF ToSet
<1> QED
  BY <1>2, <1>5, <1>7

\* The queue without its first n members.
LEMMA ListsRest ==
  ASSUME NEW S, NEW s, NEW X, Lists(S, s, X), NEW n \in 0..Len(s)
  PROVE  LET b == SubSeq(s, n + 1, Len(s))
         IN /\ Lists(S, b, X \ {s[j] : j \in 1..n}) /\ Len(b) = Len(s) - n
            /\ \A i \in DOMAIN b : n + i \in DOMAIN s /\ b[i] = s[n + i]
<1>1. PICK a, b : a = SubSeq(s, 1, n) /\ b = SubSeq(s, n + 1, Len(s))
  OBVIOUS
<1>2. /\ Lists(S, b, ToSet(b)) /\ Len(b) = Len(s) - n
      /\ ToSet(a) \cup ToSet(b) = X /\ ToSet(a) \cap ToSet(b) = {}
  BY <1>1, ListsSplit
<1>3. /\ s \in Seq(S) /\ Len(s) \in Nat /\ DOMAIN s = 1..Len(s) /\ n \in Nat /\ n <= Len(s)
      /\ \A i \in 1..Len(s) : s[i] \in S
  BY DEF Lists
<1>4. ToSet(a) = {s[j] : j \in 1..n}
  <2>1. \A i \in 1..n : s[i] \in S
    BY <1>3
  <2>2. a \in Seq(S) /\ Len(a) = n /\ \A i \in 1..n : a[i] = s[i]
    BY <1>1, <1>3, <2>1, SubSeqProperties
  <2>3. DOMAIN a = 1..n
    BY <2>2
  <2> QED
    BY <2>2, <2>3 DEF ToSet
<1>5. \A i \in DOMAIN b : n + i \in DOMAIN s /\ b[i] = s[n + i]
  <2>1. \A i \in (n + 1)..Len(s) : s[i] \in S
    BY <1>3
  <2>2. \A i \in 1..(Len(s) - (n + 1) + 1) : b[i] = s[(n + 1) + i - 1]
    BY <1>1, <1>3, <2>1, SubSeqProperties
  <2>3. DOMAIN b = 1..(Len(s) - n)
    BY <1>2 DEF Lists
  <2>4. /\ Len(s) - (n + 1) + 1 = Len(s) - n
        /\ \A i \in 1..(Len(s) - n) : (n + 1) + i - 1 = n + i /\ n + i \in 1..Len(s)
    BY <1>3
  <2> QED
    BY <1>3, <2>2, <2>3, <2>4
<1>6. ToSet(b) = X \ {s[j] : j \in 1..n}
  BY <1>2, <1>4
<1> QED
  BY <1>1, <1>2, <1>5, <1>6

\* The first in the queue gives its place to a newcomer.
LEMMA ListsReplace ==
  ASSUME NEW S, NEW s, NEW X, Lists(S, s, X), s # <<>>, NEW e \in S, e \notin X
  PROVE  LET t == [s EXCEPT ![1] = e]
         IN /\ Lists(S, t, (X \ {Head(s)}) \cup {e}) /\ Len(t) = Len(s) /\ Head(s) \in X
            /\ DOMAIN t = DOMAIN s /\ t[1] = e /\ \A i \in DOMAIN s : i # 1 => t[i] = s[i]
<1>1. PICK t : t = [s EXCEPT ![1] = e]
  OBVIOUS
<1>2. s \in Seq(S) /\ Len(s) \in Nat /\ Len(s) > 0 /\ Head(s) = s[1] /\ DOMAIN s = 1..Len(s)
  BY DEF Lists
<1>3. /\ t \in Seq(S) /\ Len(t) = Len(s) /\ 1 \in 1..Len(s) /\ t[1] = e
      /\ \A i \in 1..Len(s) : i # 1 => t[i] = s[i]
  BY <1>1, <1>2
<1>4. /\ \A i \in 1..Len(s) : s[i] \in X
      /\ \A x \in X : \E i \in 1..Len(s) : s[i] = x
      /\ \A i, j \in 1..Len(s) : s[i] = s[j] => i = j
  BY <1>2, ListsByPlace
<1>5. \A i \in 1..Len(t) : t[i] \in (X \ {Head(s)}) \cup {e}
  BY <1>2, <1>3, <1>4
<1>6. \A x \in (X \ {Head(s)}) \cup {e} : \E i \in 1..Len(t) : t[i] = x
  BY <1>2, <1>3, <1>4
<1>7. \A i, j \in 1..Len(t) : t[i] = t[j] => i = j
  BY <1>2, <1>3, <1>4
<1>8. Lists(S, t, (X \ {Head(s)}) \cup {e})
  BY <1>3, <1>5, <1>6, <1>7, ListsByPlace
<1> QED
  BY <1>1, <1>2, <1>3, <1>4, <1>8
=============================================================================
