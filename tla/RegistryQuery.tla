---------------------------- MODULE RegistryQuery ----------------------------
(***************************************************************************)
(* is_alive(name) running beside the registry (core/registry/query.rs).    *)
(* The query reads the registry state, releases that lock, and only then   *)
(* reads the reaper, so a removal can move an attempt from the one to the  *)
(* other in between.                                                       *)
(***************************************************************************)
EXTENDS Registry

VARIABLES
    qpc,      \* the query: not started, or between its two reads
    qname,    \* the name asked about
    qlive,    \* history: an attempt of qname ran at every moment since the start
    qmissed   \* history: the last answer was "not alive" although one did

queryVars == <<qpc, qname, qlive, qmissed>>

\* AttemptActivity: the flag is up exactly while an attempt runs.
Running(n) == \E i \in Ids : NameOf[i] = n /\ actor[i] = "body"

QueryInit ==
    /\ Init
    /\ qpc = "idle" /\ qname \in Names /\ qlive = FALSE /\ qmissed = FALSE

\* The entry behind the name, under the state's read lock; an active one is
\* the answer and ends the query.
QueryState ==
    /\ qpc = "idle"
    /\ ~\E i \in Ids : byName[qname] = i /\ actor[i] = "body"
    /\ qpc' = "between" /\ qlive' = Running(qname) /\ qmissed' = FALSE
    /\ UNCHANGED <<vars, qname>>

\* AttemptReaper::is_alive, under the reaper lock.
QueryReaper ==
    /\ qpc = "between"
    /\ qpc' = "idle" /\ qlive' = FALSE
    /\ qmissed' = (qlive /\ ~\E i \in reserved[qname] : actor[i] = "body")
    /\ UNCHANGED <<vars, qname>>

QueryNext ==
    \/ QueryState
    \/ QueryReaper
    \/ /\ Next
       /\ UNCHANGED <<qpc, qname, qmissed>>
       /\ qlive' = (qlive /\ Running(qname)')

QuerySpec == QueryInit /\ [][QueryNext]_<<vars, queryVars>>

\* "Not alive" is never the answer when an attempt under that name was running
\* from the first read to the last: an attempt moving from the registry to
\* the reaper during the query is seen by one of the two reads.
NeverOverlooked == ~qmissed
=============================================================================
