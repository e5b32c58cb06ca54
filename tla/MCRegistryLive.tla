--------------------------- MODULE MCRegistryLive ---------------------------
(***************************************************************************)
(* A small instance of Registry with a waiter beside it, for liveness.     *)
(***************************************************************************)
EXTENDS RegistryWaiter

OwnNames == [i \in Ids |-> i]
=============================================================================
