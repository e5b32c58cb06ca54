---------------------------- MODULE MCController ----------------------------
(***************************************************************************)
(* Small instances of Controller.                                          *)
(***************************************************************************)
EXTENDS Controller

\* Identities, slots and callers are interchangeable: each submission's slot
\* and policy are chosen in the initial state.
ControllerSymmetry ==
    Permutations(Ids) \cup Permutations(Slots) \cup Permutations(Callers)
=============================================================================
