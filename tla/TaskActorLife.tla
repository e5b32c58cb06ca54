---------------------------- MODULE TaskActorLife ----------------------------
(***************************************************************************)
(* The restart loop implements the view the registry has of an actor.      *)
(***************************************************************************)
EXTENDS TaskActor

LifeAt(place, busy) == CASE place = "exited"  -> "sent"
                         [] place = "dropped" -> "gone"
                         [] busy              -> "body"
                         [] OTHER             -> "live"

LifeOf(i) == LifeAt(pc[i], activity[i])

Life == INSTANCE ActorLife WITH
          Tasks   <- Actors,
          life    <- [i \in Actors |-> LifeOf(i)],
          stopped <- {i \in Actors : token[i]}

\* Every step of the loop is a step of ActorLife or invisible there: what
\* Registry assumes of its actors is what run and run_once do.
ImplementsLife == Life!LifeSpec
=============================================================================
