---------------------------- MODULE RegistryWaiter ----------------------------
(***************************************************************************)
(* wait_until_empty running beside the registry (core/registry/query.rs):  *)
(* the trigger of a natural shutdown.  tokio's Notify wakes only waiters   *)
(* enabled before notify_waiters, and the notification comes after the     *)
(* membership commit that emptied the registry, outside its lock.          *)
(***************************************************************************)
EXTENDS Registry

VARIABLES
    wpc,      \* the waiter: top of its loop, enabled, awaiting, returned
    notified  \* the enabled Notified future has been woken

waiterVars == <<wpc, notified>>

WaiterInit == Init /\ wpc = "top" /\ notified = FALSE

Enable ==
    /\ wpc = "top"
    /\ wpc' = "enabled" /\ notified' = FALSE
    /\ UNCHANGED vars

CheckEmpty ==
    /\ wpc = "enabled"
    /\ wpc' = IF Members = {} THEN "returned" ELSE "awaiting"
    /\ notified' = (notified /\ Members # {})
    /\ UNCHANGED vars

Wake ==
    /\ wpc = "awaiting" /\ notified
    /\ wpc' = "top" /\ notified' = FALSE
    /\ UNCHANGED vars

\* notify_waiters in the guarded tail of the removal that saw no member left.
Notifies == \E i \in Ids : own[i] # "done" /\ own'[i] = "done" /\ sawEmpty[i]

WaiterNext ==
    \/ Enable \/ CheckEmpty \/ Wake
    \/ /\ Next
       /\ notified' = (notified \/ (wpc \in {"enabled", "awaiting"} /\ Notifies))
       /\ UNCHANGED wpc

\* The waiter may start at any moment, before, during or after the removals;
\* once it has started tokio polls it whenever it can move.
WaiterSpec ==
    /\ WaiterInit /\ [][WaiterNext]_<<vars, waiterVars>>
    /\ Fairness /\ WF_<<vars, waiterVars>>(Enable \/ CheckEmpty \/ Wake)

\* A registry that stays empty is noticed: no wakeup is lost between the check
\* and the wait, and none is owed by a removal that has finished.
EmptyNoticed == []<>(wpc = "returned" \/ Members # {})
=============================================================================
