---------------------------- MODULE RegistryLease ----------------------------
(***************************************************************************)
(* Registry implements NameLease.  A name is held while it is in by_name   *)
(* or reserved by a reaper record; the actor runs while its task exists.   *)
(***************************************************************************)
EXTENDS RegistryInv

Keepers == {i \in Ids : Keeps(i)}

\* The keeper of each name, when K are the identities that keep theirs.
HolderOf(K) == [n \in Names |-> IF \E i \in K : NameOf[i] = n
                                  THEN CHOOSE i \in K : NameOf[i] = n
                                  ELSE NoId]

LeaseHolder == HolderOf(Keepers)
LeaseRunning == {i \in Ids : Alive(i)}
LeaseUsed == {i \in Ids : entry[i] # "absent" \/ own[i] # "none"}

Lease == INSTANCE NameLease WITH
           holder  <- LeaseHolder,
           running <- LeaseRunning,
           used    <- LeaseUsed

\* Every step of the registry is a step of the lease specification or leaves
\* the leases alone: names are granted all or none, to identities never
\* granted before, within the limit, and freed only after the physical exit.
ImplementsLease == Lease!LeaseSpec
=============================================================================
