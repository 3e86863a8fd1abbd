---------------------------- MODULE UpgradeOutcome ----------------------------
(***************************************************************************)
(* What an upgrade of a cluster promises the operator who reads its task,  *)
(* wherever it fails and whatever dies on the way.  It is told to have     *)
(* ended once, and what is told stays true:                                *)
(*   - "cancelled" means the upgrade has not begun and never will;         *)
(*   - "upgraded" means every node is on the new version, and stays there; *)
(*   - "restored" means every node is back on the old one, and stays there.*)
(* "failed", and no end at all, promise nothing of the cluster: it may be  *)
(* mixed and may still change, but the upgrade never becomes a success.    *)
(***************************************************************************)
VARIABLES
    told,      \* how the upgrade is said to have ended
    cluster,   \* the version the whole cluster is on: files, records, processes
    begun      \* a step of the upgrade was started

Ends     == {"cancelled", "upgraded", "restored", "failed"}
Versions == {"old", "mixed", "new"}

Init == told = "open" /\ cluster = "old" /\ begun = FALSE

Begin ==
    /\ told = "open"
    /\ begun' = TRUE
    /\ UNCHANGED <<told, cluster>>

\* What is done to the cluster is over before a success is told.
Work ==
    /\ begun /\ told \in {"open", "failed"}
    /\ cluster' \in Versions
    /\ UNCHANGED <<told, begun>>

Tell ==
    /\ told = "open"
    /\ told' \in Ends
    /\ told' = "cancelled" <=> ~begun
    /\ told' = "upgraded" => cluster = "new"
    /\ told' = "restored" => cluster = "old"
    /\ UNCHANGED <<cluster, begun>>

Next == Begin \/ Work \/ Tell

Spec == Init /\ [][Next]_<<told, cluster, begun>>
=============================================================================
