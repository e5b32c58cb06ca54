------------------------------ MODULE ActorLife ------------------------------
(***************************************************************************)
(* What the registry relies on about an actor task: the view Registry's    *)
(* actor actions take of it.  Attempts do not overlap, none starts after   *)
(* the task was stopped, a result is sent between attempts only, and a     *)
(* task that was dropped never comes back.                                 *)
(***************************************************************************)
CONSTANT Tasks

VARIABLES
    life,     \* between attempts, in one, result sent, dropped without a result
    stopped   \* tasks whose token is cancelled

lifeVars == <<life, stopped>>

LifeInit == life = [i \in Tasks |-> "live"] /\ stopped = {}

Move(i, from, to) == life[i] = from /\ life' = [life EXCEPT ![i] = to]

Start(i) == i \notin stopped /\ Move(i, "live", "body") /\ UNCHANGED stopped
Pause(i) == Move(i, "body", "live") /\ UNCHANGED stopped
Send(i)  == Move(i, "live", "sent") /\ UNCHANGED stopped
Drop(i)  == (Move(i, "live", "gone") \/ Move(i, "body", "gone")) /\ UNCHANGED stopped
Stop(i)  == stopped' = stopped \cup {i} /\ UNCHANGED life

LifeNext == \E i \in Tasks : Start(i) \/ Pause(i) \/ Send(i) \/ Drop(i) \/ Stop(i)

LifeSpec == LifeInit /\ [][LifeNext]_lifeVars
=============================================================================
