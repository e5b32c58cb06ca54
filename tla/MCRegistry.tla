----------------------------- MODULE MCRegistry -----------------------------
(***************************************************************************)
(* A small instance of Registry with a query beside it, for safety and for *)
(* the refinement of NameLease.                                            *)
(***************************************************************************)
EXTENDS RegistryQuery, RegistryLease, TLC

\* Every identity asks for the same name; identities are interchangeable.
OneName == [i \in Ids |-> "a"]
IdSymmetry == Permutations(Ids)
=============================================================================
