----------------------------- MODULE RegistryInv -----------------------------
(***************************************************************************)
(* The inductive invariant behind the registry's safety properties.  Each  *)
(* part names what one piece of the code relies on; Indexes and Phases     *)
(* carry the argument for names, Counted the one for the reaper's count,   *)
(* Queue, Admitting and Fenced make the first two inductive.               *)
(***************************************************************************)
EXTENDS Registry

\* An identity the registry has never seen.
Untouched(i) == entry[i] = "absent" /\ own[i] = "none" /\ actor[i] = "none"

IsAdd(k) == cmdq[k].op = "add"

\* TaskId is unique: an identity is fresh, or in one queued add, or in the
\* listener's hands, or past them; before that it has left no trace.
Queue ==
    /\ \A i \in fresh : Untouched(i) /\ i \notin batch
    /\ \A k \in 1..Len(cmdq) : IsAdd(k) =>
         \A i \in cmdq[k].ids : Untouched(i) /\ i \notin batch /\ i \notin fresh
    /\ \A k, l \in 1..Len(cmdq) : k # l /\ IsAdd(k) /\ IsAdd(l) =>
         cmdq[k].ids \cap cmdq[l].ids = {}

\* The batch between its check, its insertion, its spawn and its start gate.
\* Only there is a registered entry without an actor.
Admitting ==
    /\ lpc = "idle" => batch = {}
    /\ lpc = "checked" => \A i \in batch : Untouched(i)
    /\ lpc = "inserted" => \A i \in batch : entry[i] = "registered" /\ actor[i] = "none"
    /\ \A i \in Ids : entry[i] = "registered" /\ actor[i] = "none"
                        => lpc = "inserted" /\ i \in batch

\* An acknowledged fence leaves the listener nothing to admit.
Fenced ==
    /\ mode = "fence" => fence = "sent"
    /\ fence # "none" => gate = "closed"
    /\ fence = "acked" => cmdq = <<>> /\ lpc \in {"idle", "inline"}

\* No removal owner: at most a registered member.
PhaseUnowned(i) ==
    own[i] = "none" =>
        /\ entry[i] \in {"absent", "registered"}
        /\ entry[i] = "absent" => actor[i] = "none"
        /\ rec[i] = "none" /\ handing[i] = "none" /\ ~aborted[i] /\ ~physical[i]

\* Claimed and not resolved: the entry is removing, the actor was spawned.
PhaseJoining(i) ==
    own[i] \in {"queued", "join", "abort"} =>
        /\ entry[i] = "removing" /\ actor[i] # "none"
        /\ handing[i] = "none" /\ ~aborted[i] /\ ~physical[i]
        /\ rec[i] = IF own[i] = "abort" THEN "waiting" ELSE "none"

\* Resolved and not handed off: the actor was joined, or aborted and recorded.
PhaseResolved(i) ==
    own[i] \in {"report", "final", "reported"} =>
        /\ entry[i] = IF own[i] = "report" THEN "removing" ELSE "absent"
        /\ handing[i] = "none" /\ ~physical[i]
        /\ \/ ~aborted[i] /\ rec[i] = "none" /\ actor[i] = "gone"
           \/ aborted[i] /\ rec[i] = "waiting" /\ actor[i] # "none"
           \/ aborted[i] /\ rec[i] = "exited" /\ actor[i] = "gone"

\* The owner no longer counts as pending, whatever it has left to do.
Discharged == {"uncounted", "completed", "done"}

\* Handed off: the record waits for the exit, or it is gone with the actor.
PhaseReleased(i) ==
    own[i] \in {"attached"} \cup Discharged =>
        /\ entry[i] = "absent"
        /\ \/ aborted[i] /\ rec[i] = "terminal" /\ handing[i] = "none" /\ ~physical[i]
                /\ actor[i] # "none"
           \/ aborted[i] /\ rec[i] = "none" /\ handing[i] # "none" /\ ~physical[i]
                /\ actor[i] = "gone"
           \/ rec[i] = "none" /\ handing[i] = "none" /\ physical[i] /\ actor[i] = "gone"

\* The life of an identity, from its owner's point of view.
Phases ==
    \A i \in Ids :
        /\ PhaseUnowned(i) /\ PhaseJoining(i) /\ PhaseResolved(i) /\ PhaseReleased(i)
        /\ pending[i] = IF own[i] \in {"none"} \cup Discharged THEN 0 ELSE 1

\* i keeps its name: through its entry, or through a reaper record.
Keeps(i) == entry[i] # "absent" \/ rec[i] # "none"

\* by_name and the reaper's reservations agree with the entries and the
\* records, and between the two a name has at most one keeper.
Indexes ==
    /\ \A i \in Ids : entry[i] # "absent" <=> byName[NameOf[i]] = i
    /\ \A i \in Ids, n \in Names : i \in reserved[n] <=> NameOf[i] = n /\ rec[i] # "none"
    /\ \A i, j \in Ids : NameOf[i] = NameOf[j] /\ Keeps(i) /\ Keeps(j) => i = j

\* The reaper's active count is exact: an attempt enters it when its abort is
\* requested and leaves it when its physical latch is completed.
Uncollected == {i \in Ids : aborted[i] /\ ~physical[i]}
Counted == active = Cardinality(Uncollected)

\* The places taken: members, and force-aborted attempts not collected yet.
\* Admission adds the two counts up, their union is what the limit bounds.
Occupied == Members \cup Uncollected
LimitKept == Cardinality(Occupied) <= Limit

\* The inductive invariant: what the listener, the removal owners, the reaper
\* and the shutdown drain rely on of each other between two critical sections.
RegistryInvariant ==
    TypeOK /\ Queue /\ Admitting /\ Fenced /\ Phases /\ Indexes /\ Counted
-----------------------------------------------------------------------------
(* What callers, watchers and the shutdown owner are told.                 *)

\* The terminal report follows the removal: nothing before the membership
\* commit, then the truth about the abort; a rejected identity left no trace.
Told(i) ==
    /\ own[i] = "none" => outcome[i] \in {"none", "rejected"}
    /\ own[i] \in {"queued", "join", "abort", "report", "final"} => outcome[i] = "none"
    /\ own[i] \in {"reported", "attached"} \cup Discharged
         => outcome[i] = IF aborted[i] THEN "aborted" ELSE "exit"
    /\ outcome[i] = "rejected" => entry[i] = "absent" /\ actor[i] = "none"
    /\ logical[i] <=> own[i] \in {"completed", "done"}
    /\ i \in waiters => own[i] # "none"

\* What the report is made from: a task that exits unaborted has sent its
\* result, and the join says whether the owner gave up on it.
Evidence(i) ==
    /\ actor[i] \in {"sent", "tail"} => result[i]
    /\ actor[i] = "gone" => result[i] \/ aborted[i]
    /\ own[i] \in {"none", "queued", "join"} => join[i] = "none"
    /\ own[i] = "abort" => join[i] = "forced"
    /\ own[i] \in {"report", "final", "reported", "attached"} \cup Discharged
         => join[i] = IF aborted[i] THEN "forced" ELSE "joined"
    /\ join[i] = "forced" => via[i] \in {"detached", "sweep"}

Queued(i) == \E k \in 1..Len(cmdq) : IsAdd(k) /\ i \in cmdq[k].ids
InHand(i) == i \in batch /\ lpc \in {"checked", "inserted"}

\* An identity is decided once it has left the callers, the queue and the
\* listener's hands, and not before it has left the first two.
Decided(i) ==
    /\ i \in fresh \/ Queued(i) \/ (InHand(i) /\ lpc = "checked") => outcome[i] = "none"
    /\ i \in fresh \/ Queued(i) \/ InHand(i) \/ outcome[i] = "rejected" \/ actor[i] # "none"

NoneRegistered == \A i \in Ids : entry[i] # "registered"

\* How far shutdown has come: the drain sweeps after the fence and before the
\* token, the listener's own sweep after it, and a sweep leaves no member to claim.
Course ==
    /\ token <=> sd \in {"cancelled", "joined", "abandoned"}
    /\ sd # "idle" => gate = "closed"
    /\ ~token => mode \in {"run", "fence"}
    /\ ~token => \A i \in Ids : join[i] = "forced" /\ via[i] = "sweep" => i \in forced
    /\ sd \in {"sweeping", "drained"} => fence = "acked" /\ NoneRegistered
    /\ sd = "drained" /\ stuck = {} => forced = {} /\ Drained
    /\ mode \in {"sweep", "drain", "ended"} => cmdq = <<>> /\ lpc = "idle" /\ NoneRegistered
    /\ mode = "ended" => Drained

\* The inductive invariant behind what callers are told.
PromiseInvariant ==
    /\ RegistryInvariant
    /\ \A i \in Ids : Told(i) /\ Evidence(i) /\ Decided(i)
    /\ Course
=============================================================================
