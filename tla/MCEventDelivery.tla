--------------------------- MODULE MCEventDelivery ---------------------------
(***************************************************************************)
(* Small instances of EventDelivery.                                       *)
(***************************************************************************)
EXTENDS EventDelivery

\* A lane of the shared worker beside one with a thread of its own.
MixedPair  == <<"s1", "d1">>

\* Two lanes that take turns on the shared worker.
SharedPair == <<"s1", "s2">>
=============================================================================
