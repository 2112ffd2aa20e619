------------------------- MODULE MCDispatchRollback -------------------------
(* MCDispatch with a history of the status a start found, for what the      *)
(* rollback of a start restores when two of them overlap.                   *)
EXTENDS MCDispatch

VARIABLE beforeRun  \* the status the campaign last left to become running

RollbackInit == Init /\ beforeRun = status

RollbackNext ==
    /\ Next
    /\ beforeRun' = IF status # "running" /\ status' = "running" THEN status ELSE beforeRun

RollbackSpec == RollbackInit /\ [][RollbackNext]_<<vars, beforeRun>>

\* A start whose wakeup could not be published puts back the status that the
\* campaign had before it became running, be that created or stopped.
RollbackRestoresStatus ==
    [][\A h \in Requests :
         RollbackStart(h) /\ status' # status => status' = beforeRun]_<<vars, beforeRun>>
=============================================================================
