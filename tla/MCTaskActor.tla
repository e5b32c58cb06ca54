----------------------------- MODULE MCTaskActor -----------------------------
(***************************************************************************)
(* Actors with different policies on a semaphore with one permit, and the  *)
(* reference definition of the delays they sleep between attempts.         *)
(***************************************************************************)
EXTENDS TaskActorLife, Backoff

\* "w" restarts on failure within a budget, "s" restarts for ever with a
\* timeout, "o" runs once.
MCRestart == [i \in Actors |-> CASE i = "w" -> "onFailure"
                                 [] i = "s" -> "always"
                                 [] OTHER   -> "never"]
MCMaxRetries == [i \in Actors |-> IF i = "w" THEN U32Max ELSE 0]
MCHasTimeout == [i \in Actors |-> i = "s"]

\* Every valid policy with bounds up to 4, and a growth up to 7.
MCPolicies ==
    {p \in [first : 0 .. 4, max : 0 .. 4, floor : 0 .. 4, jitter : Jitters] : Valid(p)}

\* What jitter.rs draws is exactly the range its table documents, at every
\* retry index (the growth never falls below the first delay), zero, odd and
\* capped bases included.
ASSUME JitterAsDocumented ==
    \A p \in MCPolicies : \A growth \in p.first .. 7 :
        Jittered(p, Base(p, growth)) = Documented(p, Base(p, growth))
=============================================================================
