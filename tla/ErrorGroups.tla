----------------------------- MODULE ErrorGroups -----------------------------
(***************************************************************************)
(* The operations on a group of failed deliveries beside the pipeline of   *)
(* module Delivery: an operator cancels the group, or switches it to       *)
(* another channel, where every row is replaced by a job with a new key.   *)
(* (To retry a group is ClaimFailedRows with a filter.) Both read the      *)
(* failed rows first and rewrite them later, by key, whatever became of    *)
(* them. One such request is handled at a time.                            *)
(***************************************************************************)
EXTENDS Delivery

CONSTANTS
    Groups,    \* the sets of keys that fail alike: same channel, same error
    SwitchKey  \* per key that can be switched, the key that replaces it

ASSUME GroupsAssumption ==
    /\ Groups \subseteq SUBSET Keys
    /\ DOMAIN SwitchKey \subseteq Keys
    /\ \A k \in DOMAIN SwitchKey : SwitchKey[k] \in Keys \ Dispatched

VARIABLES
    groupOp,    \* what the handler is about to do
    members,    \* the rows it found
    toPublish,  \* replacement keys it has yet to publish
    superseded  \* history: rows that were replaced

handler   == <<groupOp, members, toPublish>>
groupVars == <<vars, handler, superseded>>

GroupInit ==
    /\ Init
    /\ groupOp = "idle" /\ members = {} /\ toPublish = {}
    /\ superseded = {}

-----------------------------------------------------------------------------
(* The handler *)

\* failedRowsForGroup: a plain SELECT, nothing is locked.
FindRows(g, next) ==
    /\ groupOp = "idle" /\ FailedRows \cap g # {}
    /\ groupOp' = next /\ members' = FailedRows \cap g
    /\ UNCHANGED <<vars, superseded>>

FindCancelled(g) == FindRows(g, "cancel") /\ UNCHANGED toPublish

FindSwitched(g) ==
    /\ FindRows(g, "switch")
    /\ members' \subseteq DOMAIN SwitchKey
    /\ toPublish' = {SwitchKey[k] : k \in members'}

GroupReturn == groupOp' = "idle" /\ members' = {} /\ toPublish' = {}

\* The rows become cancelled; their status is not looked at.
CloseRows ==
    /\ row' = [k \in Keys |-> IF k \in members THEN "cancelled" ELSE row[k]]
    /\ UNCHANGED <<status, counts, attempt, queues, workers, retry, locking, delivered,
                   lost, faults>>

\* markFailedRowsCancelled: the rows ...
MarkCancelled ==
    /\ groupOp = "cancel" /\ groupOp' = "countCancelled"
    /\ CloseRows
    /\ UNCHANGED <<members, toPublish, superseded>>

\* ... then the counters.
CountCancelled ==
    /\ groupOp = "countCancelled"
    /\ counts' = [counts EXCEPT !.failed = Less(@, Cardinality(members)),
                                !.cancelled = @ + Cardinality(members)]
    /\ GroupReturn
    /\ UNCHANGED <<status, rows, queues, workers, retry, locking, delivered, lost, faults,
                   superseded>>

\* switchErrorGroup: a first attempt under the new key, for each row.
PublishSwitched(k) ==
    /\ groupOp = "switch" /\ k \in toPublish
    /\ ready' = Put(ready, <<k, 1>>)
    /\ toPublish' = toPublish \ {k}
    /\ UNCHANGED <<status, counts, rows, toDispatch, delayed, workers, retry, locking,
                   delivered, lost, faults, groupOp, members, superseded>>

\* Mutant: an error of the publish is only logged.
SwitchPublishLogged ==
    /\ groupOp = "switch" /\ toPublish # {}
    /\ Fault("publish")
    /\ toPublish' = {}
    /\ UNCHANGED <<status, counts, rows, queues, workers, retry, locking, delivered, lost,
                   groupOp, members, superseded>>

\* The handler gives up; what it has published stays published.
SwitchPublishFails ==
    /\ groupOp = "switch" /\ toPublish # {}
    /\ Fault("publish")
    /\ GroupReturn
    /\ UNCHANGED <<status, counts, rows, queues, workers, retry, locking, delivered, lost,
                   superseded>>

\* markFailedRowsSuperseded: the rows ...
MarkSuperseded ==
    /\ groupOp = "switch" /\ toPublish = {} /\ groupOp' = "countSuperseded"
    /\ CloseRows
    /\ superseded' = superseded \union members
    /\ UNCHANGED <<members, toPublish>>

\* ... then the campaign, which is running again.
CountSuperseded ==
    /\ groupOp = "countSuperseded"
    /\ status' = "running"
    /\ counts' = [counts EXCEPT !.processed = Less(@, Cardinality(members)),
                                !.failed = Less(@, Cardinality(members))]
    /\ GroupReturn
    /\ UNCHANGED <<rows, queues, workers, retry, locking, delivered, lost, faults, superseded>>

\* The service dies, or a statement fails: nothing is undone.
GroupCrash ==
    /\ groupOp # "idle"
    /\ Fault("crash")
    /\ GroupReturn
    /\ UNCHANGED <<status, counts, rows, queues, workers, retry, locking, delivered, lost,
                   superseded>>

-----------------------------------------------------------------------------
(* Specification *)

GroupStep ==
    \/ \E g \in Groups : FindCancelled(g) \/ FindSwitched(g)
    \/ MarkCancelled \/ CountCancelled
    \/ \E k \in Keys : PublishSwitched(k)
    \/ SwitchPublishFails \/ MarkSuperseded \/ CountSuperseded \/ GroupCrash

GroupNext == (Next /\ UNCHANGED <<handler, superseded>>) \/ GroupStep

GroupSpec == GroupInit /\ [][GroupNext]_groupVars

\* A request that was begun is handled to its end.
GroupFairness ==
    /\ WF_groupVars(MarkCancelled) /\ WF_groupVars(CountCancelled)
    /\ \A k \in Keys : WF_groupVars(PublishSwitched(k))
    /\ WF_groupVars(MarkSuperseded) /\ WF_groupVars(CountSuperseded)

FairGroupSpec == GroupSpec /\ Fairness /\ GroupFairness

-----------------------------------------------------------------------------
(* Properties *)

\* The type invariant.
GroupTypeOK ==
    /\ TypeOK
    /\ groupOp \in {"idle", "cancel", "countCancelled", "switch", "countSuperseded"}
    /\ members \subseteq Keys /\ toPublish \subseteq Keys /\ superseded \subseteq Keys

\* A row is given up for its replacement only when the replacement is on its
\* way, has been resolved, or was dropped where the workers drop jobs.
ReplacementNotForgotten ==
    \A k \in superseded :
        LET s == SwitchKey[k] IN Resolved(s) \/ Underway(s) \/ s \in lost \/ s \in claimed
=============================================================================
