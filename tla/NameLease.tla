------------------------------ MODULE NameLease ------------------------------
(***************************************************************************)
(* What the registry promises its callers about names: a name is a lease.  *)
(* A set of identities acquires its names together or not at all, only the *)
(* holder of a name runs under it, a lease outlives its holder's execution *)
(* (logical removal alone does not free it), and no identity holds a lease *)
(* twice.  At most Limit leases are out when one is granted.               *)
(***************************************************************************)
EXTENDS Integers, FiniteSets

CONSTANTS Ids, Names, NameOf, NoId, Limit

VARIABLES
    holder,    \* the identity that holds each name
    running,   \* identities whose actor task exists
    used       \* identities that have held a lease

leaseVars == <<holder, running, used>>

Held == {i \in Ids : holder[NameOf[i]] = i}

LeaseInit ==
    /\ holder = [n \in Names |-> NoId]
    /\ running = {}
    /\ used = {}

Acquire(B) ==
    /\ B # {} /\ B \cap used = {}
    /\ \A i \in B : holder[NameOf[i]] = NoId
    /\ \A i, j \in B : NameOf[i] = NameOf[j] => i = j
    /\ Cardinality(Held) + Cardinality(B) <= Limit
    /\ holder' = [n \in Names |-> IF \E i \in B : NameOf[i] = n
                                    THEN CHOOSE i \in B : NameOf[i] = n
                                    ELSE holder[n]]
    /\ used' = used \cup B
    /\ UNCHANGED running

Begin(B) ==
    /\ B # {} /\ B \subseteq Held
    /\ running' = running \cup B
    /\ UNCHANGED <<holder, used>>

End(i) ==
    /\ i \in running
    /\ running' = running \ {i}
    /\ UNCHANGED <<holder, used>>

Release(i) ==
    /\ i \in Held \ running
    /\ holder' = [holder EXCEPT ![NameOf[i]] = NoId]
    /\ UNCHANGED <<running, used>>

LeaseNext ==
    \/ \E B \in SUBSET Ids : Acquire(B) \/ Begin(B)
    \/ \E i \in Ids : End(i) \/ Release(i)

LeaseSpec == LeaseInit /\ [][LeaseNext]_leaseVars
=============================================================================
