------------------------- MODULE NotForgottenProofs -------------------------
(***************************************************************************)
(* Proofs that Delivery forgets no delivery, for every set of deliveries,  *)
(* workers and faults, every retry limit and whatever the operators do.    *)
(***************************************************************************)
EXTENDS DeliveryProofs

USE ConstantsAssumption

-----------------------------------------------------------------------------
(* The invariant *)

\* Where a worker still has the job it took, and where it owes the next one.
Early == {"lock", "active", "check", "send", "read", "upsert"}
Late == {"count", "refresh", "route"}

\* A job of k that is newer than k's row waits in a queue.
Queued(k, j) == j[1] = k /\ j[2] > attempt[k] /\ (ready[j] > 0 \/ delayed[j] > 0)

\* A worker whose delivery the broker would give to another has such a job, or
\* one has written a failure and is about to publish the next attempt.
Carries(w, k) ==
    /\ pc[w] # "idle" /\ Key(w) = k
    /\ \/ w \in holders /\ Try(w) > attempt[k] /\ (pc[w] \in Early \/ w \in failing)
       \/ pc[w] \in Late /\ HasRetry(w) /\ Try(w) >= attempt[k]

Onward(k) == (\E j \in Jobs : Queued(k, j)) \/ (\E w \in Workers : Carries(w, k))

Safe(k) == Resolved(k) \/ Onward(k) \/ k \in lost

\* A manual retry has a row that had no attempts left; it is given back if the
\* publish fails.
Held(k) ==
    /\ k \in claimed /\ op \in {"publish", "restore"}
    /\ row[k] = "queued" /\ attempt[k] >= RetryLimit

Waiting(k) == \E j \in unpublished : j[1] = k /\ j[2] > attempt[k]

Kept(k) ==
    /\ Safe(k) \/ Held(k)
    /\ op = "publish" /\ k \in claimed => Safe(k) \/ Waiting(k)

-----------------------------------------------------------------------------
\* What was lost stays so.
LEMMA LostStep == ASSUME [Next]_vars PROVE lost \subseteq lost'
  <1>1. CASE JobStep
    BY <1>1 DEF JobStep, DispatchJob, Republish, RetryDelayElapses, JobLost
  <1>2. ASSUME NEW w \in Workers, WorkerStep(w) PROVE lost \subseteq lost'
    BY <1>2 DEF WorkerStep, ProcessStep, FaultStep, Receive, AcquireLock, SkipLocked,
      CheckActive, ShouldSend, Send, ReadRow, Upsert, Recount, RefreshCounters,
      RouteFailure, Unlock, Settle, ProceedUnlocked, ReleaseFails, DbError, Crash,
      ConnectionLost, LockOutlived
  <1>3. CASE CampaignStep
    BY <1>3 DEF CampaignStep, StopCampaign, StartCampaign, CancelCampaign, SetStatus
  <1>4. CASE RetryStep
    BY <1>4 DEF RetryStep, ClaimFailedRows, PublishRetry, PublishRetryFails, RestoreRows,
      RestoreCounters, RetryCrash
  <1>5. CASE (\E k \in Keys : OrphanExpires(k)) \/ UNCHANGED vars
    BY <1>5 DEF OrphanExpires, vars
  <1> QED BY <1>1, <1>2, <1>3, <1>4, <1>5 DEF Next

\* A job leaves the queues for a worker, or is lost.
LEMMA QueuedStep ==
    ASSUME TypeInv, [Next]_vars, NEW j \in Jobs, ready[j] > 0 \/ delayed[j] > 0
    PROVE  \/ ready'[j] > 0 \/ delayed'[j] > 0 \/ j[1] \in lost'
           \/ \E w \in Workers : Receive(w, j)
  <1> DEFINE Goal == \/ ready'[j] > 0 \/ delayed'[j] > 0 \/ j[1] \in lost'
                     \/ \E w \in Workers : Receive(w, j)
  <1> USE DEF queues
  <1>0. QueuesOK
    BY TypeInvParts
  <1>1. ASSUME UNCHANGED <<ready, delayed>> PROVE Goal
    BY <1>1
  <1>2. ASSUME NEW i \in Jobs, ready' = Put(ready, i), delayed' = delayed PROVE Goal
    BY <1>0, <1>2 DEF QueuesOK, Put
  <1>3. CASE JobStep
    <2>1. ASSUME NEW k \in Keys, DispatchJob(k) \/ Republish(k) PROVE Goal
      <3>1. <<k, 1>> \in Jobs
        BY DEF Jobs, Attempts
      <3> QED BY <1>2, <2>1, <3>1 DEF DispatchJob, Republish
    <2>2. ASSUME NEW i \in Jobs, RetryDelayElapses(i) PROVE Goal
      BY <1>0, <2>2 DEF RetryDelayElapses, QueuesOK, Put, Take
    <2>3. ASSUME NEW i \in Jobs, JobLost(i) PROVE Goal
      BY <1>0, <2>3 DEF JobLost, QueuesOK, Take
    <2> QED BY <1>3, <2>1, <2>2, <2>3 DEF JobStep
  <1>4. ASSUME NEW w \in Workers, WorkerStep(w) PROVE Goal
    <2>1. ASSUME NEW i \in Jobs, Receive(w, i) PROVE Goal
      BY <1>0, <2>1 DEF Receive, QueuesOK, Take
    <2>2. CASE AcquireLock(w) \/ SkipLocked(w) \/ CheckActive(w) \/ ShouldSend(w) \/ Send(w)
               \/ ReadRow(w) \/ Upsert(w) \/ Recount(w) \/ RefreshCounters(w) \/ Unlock(w)
               \/ ProceedUnlocked(w) \/ ReleaseFails(w) \/ DbError(w) \/ LockOutlived(w)
      BY <1>1, <2>2 DEF AcquireLock, SkipLocked, CheckActive, ShouldSend, Send, ReadRow,
        Upsert, Recount, RefreshCounters, Unlock, ProceedUnlocked, ReleaseFails, DbError,
        LockOutlived
    <2>3. CASE RouteFailure(w)
      <3>1. HasRetry(w) => <<Key(w), Try(w) + 1>> \in Jobs
        BY <2>3, JobParts DEF RouteFailure, Goto, HasRetry, Jobs, Attempts
      <3> QED BY <1>0, <2>3, <3>1 DEF RouteFailure, QueuesOK, Put
    <2>4. CASE Settle(w)
      BY <1>1, <1>2, <2>4, JobParts DEF Settle
    <2>5. CASE Crash(w)
      BY <1>1, <1>2, <2>5, JobParts DEF Crash
    <2>6. CASE ConnectionLost(w)
      BY <1>2, <2>6, JobParts DEF ConnectionLost, TypeInv, HasDelivery
    <2> QED BY <1>4, <2>1, <2>2, <2>3, <2>4, <2>5, <2>6 DEF WorkerStep, ProcessStep, FaultStep
  <1>5. CASE CampaignStep
    BY <1>1, <1>5 DEF CampaignStep, StopCampaign, StartCampaign, CancelCampaign, SetStatus
  <1>6. CASE RetryStep
    <2>1. ASSUME NEW i \in Jobs, PublishRetry(i) PROVE Goal
      BY <1>2, <2>1 DEF PublishRetry
    <2> QED BY <1>1, <1>6, <2>1 DEF RetryStep, ClaimFailedRows, PublishRetryFails,
          RestoreRows, RestoreCounters, RetryCrash
  <1>7. CASE (\E k \in Keys : OrphanExpires(k)) \/ UNCHANGED vars
    BY <1>1, <1>7 DEF OrphanExpires, vars
  <1> QED BY <1>3, <1>4, <1>5, <1>6, <1>7 DEF Next

\* Once a worker has written the row, the delivery is resolved, or the worker is
\* about to route its failure.
LEMMA WrittenIsSafe ==
    ASSUME TypeInv, NEW k \in Keys, NEW w \in Workers, Key(w) = k,
           Upsert(w), MayOverwrite(k, Try(w))
    PROVE  Safe(k)'
  <1>0. RowsOK /\ WorkersOK
    BY TypeInvParts
  <1>1. /\ Try(w) \in 1..MaxAttempt /\ result[w] \in {"sent", "failed"}
        /\ pc[w] = "upsert"
    BY <1>0, JobParts DEF Upsert, WorkersOK, HasDelivery
  <1>2. /\ UNCHANGED <<job, result>> /\ pc' = [pc EXCEPT ![w] = "count"]
        /\ row' = [row EXCEPT ![Key(w)] = result[w]]
        /\ attempt' = [attempt EXCEPT ![Key(w)] = Try(w)]
    BY DEF Upsert, local
  <1>3. /\ pc'[w] = "count" /\ Key(w)' = k /\ Try(w)' = Try(w) /\ result'[w] = result[w]
        /\ row'[k] = result[w] /\ attempt'[k] = Try(w)
    BY <1>0, <1>1, <1>2 DEF RowsOK, WorkersOK, Key, Try
  <1>4. CASE result[w] = "sent" \/ Try(w) >= RetryLimit
    BY <1>1, <1>3, <1>4 DEF Safe, Resolved
  <1>5. CASE result[w] = "failed" /\ Try(w) < RetryLimit
    <2>1. Carries(w, k)'
      BY <1>1, <1>3, <1>5 DEF Carries, Late, HasRetry
    <2> QED BY <2>1 DEF Safe, Onward
  <1> QED BY <1>1, <1>4, <1>5

\* A worker that carries a job on hands it over when it stops: to the row, to a
\* queue or to lost.
LEMMA CarriesStep ==
    ASSUME TypeInv, [Next]_vars, NEW k \in Keys, NEW w \in Workers, Carries(w, k),
           attempt'[k] = attempt[k]
    PROVE  Safe(k)'
  <1> USE DEF local, rows, queues
  <1>0. /\ RowsOK /\ WorkersOK /\ QueuesOK /\ pc[w] # "idle"
        /\ job[w] \in Jobs /\ Key(w) = k /\ Try(w) \in 1..MaxAttempt
    BY TypeInvParts, JobParts DEF Carries
  <1>1. ASSUME Carries(w, k)' PROVE Safe(k)'
    BY <1>1 DEF Safe, Onward
  <1>2. ASSUME Try(w) > attempt[k], ready'[job[w]] > 0 PROVE Safe(k)'
    <2>1. job[w][1] = k /\ job[w][2] > attempt'[k]
      BY <1>0, <1>2 DEF Key, Try
    <2> QED BY <1>0, <1>2, <2>1 DEF Safe, Onward, Queued
  <1>3. ASSUME k \in lost' PROVE Safe(k)'
    BY <1>3 DEF Safe
  <1>4. ASSUME row[k] \in {"sent", "cancelled"}, row' = row PROVE Safe(k)'
    BY <1>4 DEF Safe, Resolved
  <1>5. CASE Untouched(w)
    BY <1>0, <1>1, <1>5 DEF Untouched, Carries, Key, Try, HasRetry
  <1>6. ASSUME UNCHANGED <<job, result, holders, failing>>,
               NEW there, pc' = [pc EXCEPT ![w] = there],
               \/ pc[w] \in Early /\ there \in Early
               \/ pc[w] \in Late /\ there \in Late
               \/ pc[w] \notin Early \union Late /\ there # "idle"
               \/ w \in failing \cap holders /\ Try(w) > attempt[k] /\ there # "idle"
        PROVE  Safe(k)'
    <2>1. pc'[w] = there
      BY <1>0, <1>6 DEF WorkersOK
    <2>2. Key(w)' = Key(w) /\ Try(w)' = Try(w)
      BY <1>6 DEF Key, Try
    <2>3. Carries(w, k)'
      BY <1>0, <1>6, <2>1, <2>2 DEF Carries, HasRetry, Early, Late
    <2> QED BY <1>1, <2>3
  <1>7. CASE WorkerStep(w)
    <2>1. ASSUME NEW j \in Jobs, Receive(w, j) PROVE Safe(k)'
      BY <1>0, <2>1 DEF Receive, Goto
    <2>2. CASE AcquireLock(w) \/ ProceedUnlocked(w)
      BY <1>0, <1>6, <2>2 DEF AcquireLock, ProceedUnlocked, Goto, Early
    <2>3. CASE SkipLocked(w)
      BY <1>0, <1>3, <2>3 DEF SkipLocked
    <2>4. CASE CheckActive(w)
      BY <1>0, <1>3, <1>6, <2>4 DEF CheckActive, Early
    <2>5. CASE ShouldSend(w)
      <3>1. CASE CanSend(Key(w), Try(w))
        BY <1>0, <1>6, <2>5, <3>1 DEF ShouldSend, Goto, Early
      <3>2. CASE ~CanSend(Key(w), Try(w))
        <4>1. CASE Try(w) > attempt[k]
          BY <1>0, <1>4, <2>5, <3>2, <4>1 DEF ShouldSend, CanSend, RowsOK, Processed
        <4> QED BY <1>0, <2>5, <4>1 DEF ShouldSend, Goto, Carries, Late
      <3> QED BY <3>1, <3>2
    <2>6. CASE Send(w)
      <3>1. pc[w] = "send" /\ pc'[w] = "read" /\ UNCHANGED <<job, holders, failing>>
        BY <1>0, <2>6 DEF Send, Goto, WorkersOK
      <3>2. Carries(w, k)'
        BY <1>0, <3>1 DEF Carries, Key, Try, Early, Late
      <3> QED BY <1>1, <3>2
    <2>7. CASE ReadRow(w)
      <3>1. CASE CanApply(Key(w), Try(w))
        BY <1>0, <1>6, <2>7, <3>1 DEF ReadRow, Goto, Early
      <3>2. CASE ~CanApply(Key(w), Try(w))
        <4>1. CASE Try(w) > attempt[k]
          BY <1>0, <1>4, <2>7, <3>2, <4>1 DEF ReadRow, CanApply, RowsOK, Processed
        <4> QED BY <1>0, <2>7, <4>1 DEF ReadRow, Goto, Carries, Late
      <3> QED BY <3>1, <3>2
    <2>8. CASE Upsert(w)
      <3>1. CASE MayOverwrite(Key(w), Try(w))
        BY <1>0, <2>8, <3>1, WrittenIsSafe DEF Safe, Resolved
      <3>2. CASE ~MayOverwrite(Key(w), Try(w))
        <4>1. Try(w) > attempt[k]
          BY <1>0, <2>8 DEF Upsert, Carries, Late
        <4> QED BY <1>0, <1>4, <2>8, <3>2, <4>1 DEF Upsert, MayOverwrite, CanApply, RowsOK,
              Processed
      <3> QED BY <3>1, <3>2
    <2>9. CASE Recount(w) \/ RefreshCounters(w)
      BY <1>0, <1>6, <2>9 DEF Recount, RefreshCounters, Goto, Late
    <2>10. CASE RouteFailure(w)
      <3>1. CASE HasRetry(w) /\ Try(w) >= attempt[k] /\ w \in holders
        <4>0. <<Key(w), Try(w) + 1>> \in Jobs
          BY <1>0, <3>1 DEF HasRetry, Jobs, Attempts
        <4>1. PICK next \in Jobs : next = <<Key(w), Try(w) + 1>>
          BY <4>0
        <4>2. delayed'[next] > 0
          BY <1>0, <2>10, <3>1, <4>1 DEF RouteFailure, QueuesOK, Put
        <4>3. Queued(k, next)'
          BY <1>0, <3>1, <4>1, <4>2 DEF Queued, RowsOK
        <4> QED BY <4>3 DEF Safe, Onward
      <3>2. CASE HasRetry(w) /\ w \notin holders
        BY <1>0, <1>3, <2>10, <3>2 DEF RouteFailure
      <3>3. CASE w \in failing \cap holders /\ Try(w) > attempt[k]
        BY <1>6, <2>10, <3>3 DEF RouteFailure, Goto
      <3> QED BY <2>10, <3>1, <3>2, <3>3 DEF RouteFailure, Goto, Carries, Early
    <2>11. CASE Unlock(w) \/ ReleaseFails(w)
      BY <1>0, <1>6, <2>11 DEF Unlock, ReleaseFails, Goto, Early, Late
    <2>12. CASE Settle(w)
      BY <1>0, <1>2, <2>12 DEF Settle, Carries, Early, Late, QueuesOK, Put
    <2>13. CASE DbError(w)
      <3>1. CASE pc[w] \in Early
        <4>1. pc'[w] = "unlock" /\ w \in failing' /\ UNCHANGED <<job, holders>>
          BY <1>0, <2>13 DEF DbError, WorkersOK
        <4>2. Carries(w, k)'
          BY <1>0, <3>1, <4>1 DEF Carries, Key, Try, Early, Late
        <4> QED BY <1>1, <4>2
      <3>2. CASE pc[w] = "count"
        BY <1>0, <1>3, <2>13, <3>2 DEF DbError
      <3> QED BY <2>13, <3>1, <3>2 DEF DbError, Early
    <2>14. CASE Crash(w)
      <3>1. CASE pc[w] \in Late
        BY <1>0, <1>3, <2>14, <3>1 DEF Crash, Late
      <3>2. CASE w \in holders /\ Try(w) > attempt[k]
        BY <1>0, <1>2, <2>14, <3>2 DEF Crash, QueuesOK, Put
      <3> QED BY <3>1, <3>2 DEF Carries
    <2>15. CASE ConnectionLost(w)
      <3>1. CASE Try(w) > attempt[k] /\ w \in holders
        BY <1>0, <1>2, <2>15, <3>1 DEF ConnectionLost, QueuesOK, Put
      <3>2. CASE pc[w] \in Late /\ HasRetry(w) /\ Try(w) >= attempt[k]
        BY <1>0, <1>1, <2>15, <3>2 DEF ConnectionLost, Carries, Key, Try, HasRetry
      <3> QED BY <3>1, <3>2 DEF Carries
    <2>16. CASE LockOutlived(w)
      BY <1>1, <2>16 DEF LockOutlived, Carries, Key, Try, HasRetry, workers
    <2> QED BY <1>7, <2>1, <2>2, <2>3, <2>4, <2>5, <2>6, <2>7, <2>8, <2>9, <2>10, <2>11,
          <2>12, <2>13, <2>14, <2>15, <2>16 DEF WorkerStep, ProcessStep, FaultStep
  <1> QED BY <1>5, <1>7, StepIsLocal

\* Only an upsert and the retry handler change a row.
LEMMA RowStep ==
    ASSUME [Next]_vars
    PROVE  \/ row' = row /\ attempt' = attempt
           \/ \E w \in Workers : Upsert(w)
           \/ ClaimFailedRows \/ RestoreRows
  <1> USE DEF rows
  <1>1. CASE JobStep
    BY <1>1 DEF JobStep, DispatchJob, Republish, RetryDelayElapses, JobLost
  <1>2. ASSUME NEW w \in Workers, WorkerStep(w), ~Upsert(w)
        PROVE  row' = row /\ attempt' = attempt
    BY <1>2 DEF WorkerStep, ProcessStep, FaultStep, Receive, AcquireLock, SkipLocked,
      CheckActive, ShouldSend, Send, ReadRow, Recount, RefreshCounters,
      RouteFailure, Unlock, Settle, ProceedUnlocked, ReleaseFails, DbError, Crash,
      ConnectionLost, LockOutlived
  <1>3. CASE CampaignStep
    BY <1>3 DEF CampaignStep, StopCampaign, StartCampaign, CancelCampaign, SetStatus
  <1>4. CASE RetryStep
    BY <1>4 DEF RetryStep, PublishRetry, PublishRetryFails, RestoreCounters, RetryCrash
  <1>5. CASE (\E o \in Keys : OrphanExpires(o)) \/ UNCHANGED vars
    BY <1>5 DEF OrphanExpires, vars
  <1> QED BY <1>1, <1>2, <1>3, <1>4, <1>5 DEF Next

\* Only the retry handler changes what it has claimed.
LEMMA RetryStepOnly ==
    ASSUME [Next]_vars PROVE RetryStep \/ UNCHANGED <<op, claimed, unpublished>>
  <1> USE DEF retry
  <1>1. CASE JobStep
    BY <1>1 DEF JobStep, DispatchJob, Republish, RetryDelayElapses, JobLost
  <1>2. ASSUME NEW w \in Workers, WorkerStep(w)
        PROVE  UNCHANGED <<op, claimed, unpublished>>
    BY <1>2 DEF WorkerStep, ProcessStep, FaultStep, Receive, AcquireLock, SkipLocked,
      CheckActive, ShouldSend, Send, ReadRow, Upsert, Recount, RefreshCounters,
      RouteFailure, Unlock, Settle, ProceedUnlocked, ReleaseFails, DbError, Crash,
      ConnectionLost, LockOutlived
  <1>3. CASE CampaignStep
    BY <1>3 DEF CampaignStep, StopCampaign, StartCampaign, CancelCampaign, SetStatus
  <1>4. CASE (\E o \in Keys : OrphanExpires(o)) \/ UNCHANGED vars
    BY <1>4 DEF OrphanExpires, vars
  <1> QED BY <1>1, <1>2, <1>3, <1>4 DEF Next

\* A delivery that is safe stays so, except that a manual retry may take a failed
\* row that had no attempts left.
LEMMA SafeStep ==
    ASSUME TypeInv, [Next]_vars, NEW k \in Keys, Safe(k)
    PROVE  Safe(k)' \/ (ClaimFailedRows /\ row[k] = "failed" /\ attempt[k] >= RetryLimit)
  <1>0. RowsOK /\ QueuesOK /\ WorkersOK
    BY TypeInvParts
  <1>1. ASSUME NEW w \in Workers, Upsert(w), Key(w) = k, MayOverwrite(k, Try(w))
        PROVE  Safe(k)'
    BY <1>1, WrittenIsSafe
  <1>2. ASSUME NEW w \in Workers, Upsert(w), Key(w) # k \/ ~MayOverwrite(Key(w), Try(w))
        PROVE  row'[k] = row[k] /\ attempt'[k] = attempt[k]
    BY <1>0, <1>2, JobParts DEF Upsert, rows, RowsOK
  <1>3. CASE k \in lost
    BY <1>3, LostStep DEF Safe
  <1>4. ASSUME attempt'[k] = attempt[k], NEW j \in Jobs, Queued(k, j) PROVE Safe(k)'
    <2>1. ASSUME ready'[j] > 0 \/ delayed'[j] > 0 PROVE Safe(k)'
      BY <1>4, <2>1 DEF Safe, Onward, Queued
    <2>2. ASSUME NEW w \in Workers, Receive(w, j) PROVE Safe(k)'
      <3>1. pc'[w] = "lock" /\ job'[w] = j /\ w \in holders'
        BY <1>0, <2>2 DEF Receive, Goto, WorkersOK
      <3>2. Carries(w, k)'
        BY <1>4, <3>1 DEF Carries, Queued, Early, Key, Try
      <3> QED BY <3>2 DEF Safe, Onward
    <2>3. k \in lost' => Safe(k)'
      BY DEF Safe
    <2> QED BY <1>4, <2>1, <2>2, <2>3, QueuedStep DEF Queued
  <1>5. ASSUME attempt'[k] = attempt[k], Onward(k) PROVE Safe(k)'
    BY <1>4, <1>5, CarriesStep DEF Onward
  <1>6. ASSUME row'[k] = row[k], attempt'[k] = attempt[k] PROVE Safe(k)'
    BY <1>3, <1>5, <1>6 DEF Safe, Resolved
  <1>7. CASE ClaimFailedRows
    <2>1. attempt' = attempt /\ row'[k] = IF row[k] = "failed" THEN "queued" ELSE row[k]
      BY <1>7 DEF ClaimFailedRows, FailedRows
    <2> QED BY <1>3, <1>5, <1>6, <1>7, <2>1 DEF Safe, Resolved
  <1>8. CASE RestoreRows
    <2>1. attempt' = attempt /\ (row[k] # "queued" => row'[k] = row[k])
      BY <1>8 DEF RestoreRows
    <2> QED BY <1>3, <1>5, <1>6, <2>1 DEF Safe, Resolved
  <1> QED BY <1>1, <1>2, <1>6, <1>7, <1>8, RowStep

\* Nor does the retry handler forget a row that it took.
LEMMA KeptStep ==
    ASSUME TypeInv, [Next]_vars, NEW k \in Keys, Kept(k)
    PROVE  Kept(k)'
  <1>0. RowsOK /\ QueuesOK
    BY TypeInvParts
  <1>1. ASSUME Safe(k)' PROVE Kept(k)'
    BY <1>1 DEF Kept
  <1>2. CASE ClaimFailedRows /\ row[k] = "failed" /\ attempt[k] >= RetryLimit
    <2>1. /\ k \in claimed' /\ op' = "publish" /\ row'[k] = "queued" /\ attempt' = attempt
          /\ <<k, attempt[k] + 1>> \in unpublished'
      BY <1>2 DEF ClaimFailedRows, FailedRows
    <2>2. attempt[k] + 1 > attempt[k]
      BY <1>0 DEF RowsOK
    <2>3. Held(k)' /\ Waiting(k)'
      BY <1>2, <2>1, <2>2 DEF Held, Waiting
    <2> QED BY <2>3 DEF Kept
  <1>3. CASE Safe(k)
    BY <1>1, <1>2, <1>3, SafeStep
  <1>4. CASE ~Safe(k)
    <2>0. /\ k \in claimed /\ op \in {"publish", "restore"}
          /\ row[k] = "queued" /\ attempt[k] >= RetryLimit
          /\ op = "publish" => Waiting(k)
      BY <1>4 DEF Kept, Held
    <2>1. ASSUME NEW w \in Workers, Upsert(w), Key(w) = k, MayOverwrite(k, Try(w))
          PROVE  Safe(k)'
      BY <2>1, WrittenIsSafe
    <2>2. ASSUME NEW w \in Workers, Upsert(w), Key(w) # k \/ ~MayOverwrite(Key(w), Try(w))
          PROVE  row'[k] = row[k] /\ attempt'[k] = attempt[k]
      BY <1>0, <2>2, JobParts DEF Upsert, rows, RowsOK
    <2>3. CASE RestoreRows
      <3>1. row'[k] = "failed" /\ attempt' = attempt
        BY <2>0, <2>3 DEF RestoreRows
      <3> QED BY <1>1, <2>0, <3>1 DEF Safe, Resolved
    <2>4. CASE ClaimFailedRows \/ RestoreCounters
      BY <2>0, <2>4 DEF ClaimFailedRows, RestoreCounters
    <2>5. ASSUME row'[k] = row[k], attempt'[k] = attempt[k],
                 UNCHANGED <<op, claimed, unpublished>>
          PROVE  Kept(k)'
      BY <2>0, <2>5 DEF Kept, Held, Waiting
    <2>6. ASSUME NEW j \in Jobs, PublishRetry(j) PROVE Kept(k)'
      <3>0. /\ op = "publish" /\ attempt' = attempt /\ row' = row /\ ready' = Put(ready, j)
            /\ unpublished' = unpublished \ {j}
            /\ unpublished # {j} => op' = op /\ claimed' = claimed
        BY <2>6 DEF PublishRetry, rows
      <3>1. PICK i \in unpublished : i[1] = k /\ i[2] > attempt[k]
        BY <2>0, <3>0 DEF Waiting
      <3>2. CASE i = j
        <4>1. ready'[j] > 0
          BY <1>0, <3>0 DEF QueuesOK, Put
        <4>2. Queued(k, j)'
          BY <3>0, <3>1, <3>2, <4>1 DEF Queued
        <4> QED BY <1>1, <4>2 DEF Safe, Onward
      <3>3. CASE i # j
        BY <2>0, <3>0, <3>1, <3>3 DEF Kept, Held, Waiting
      <3> QED BY <3>2, <3>3
    <2>7. CASE PublishRetryFails
      BY <2>0, <2>7 DEF PublishRetryFails, Kept, Held, rows
    <2>8. CASE RetryCrash
      BY <1>1, <2>0, <2>8 DEF RetryCrash, Safe
    <2>9. CASE RetryStep
      BY <2>3, <2>4, <2>6, <2>7, <2>8, <2>9 DEF RetryStep
    <2>10. CASE UNCHANGED <<op, claimed, unpublished>>
      BY <1>1, <2>1, <2>2, <2>3, <2>4, <2>5, <2>10, RowStep
    <2> QED BY <2>9, <2>10, RetryStepOnly
  <1> QED BY <1>3, <1>4

-----------------------------------------------------------------------------
(* Delivery by itself *)

\* A delivery with a row, and one whose first job was published, is kept.
AllKept ==
    \A k \in Keys : row[k] # "none" \/ k \in Dispatched \ toDispatch => Kept(k)

\* What is kept is what the property asks for.
LEMMA KeptIsUnderway ==
    ASSUME NEW k \in Keys, Kept(k)
    PROVE  Resolved(k) \/ Underway(k) \/ k \in lost \/ k \in claimed
  <1>1. Onward(k) => Underway(k)
    BY DEF Onward, Queued, Carries, Underway, Early, Late
  <1> QED BY <1>1 DEF Kept, Safe, Held

\* A delivery whose first job is not published yet is underway, too.
LEMMA KeptIsNotForgotten == AllKept => NoDeliveryForgotten
  <1> SUFFICES ASSUME AllKept, NEW k \in Dispatched
               PROVE  Resolved(k) \/ Underway(k) \/ k \in lost \/ k \in claimed
    BY DEF NoDeliveryForgotten
  <1>1. CASE k \in toDispatch
    BY <1>1 DEF Underway
  <1>2. CASE k \notin toDispatch
    BY <1>2, KeptIsUnderway DEF AllKept
  <1> QED BY <1>1, <1>2

\* A first job that was just published is newer than a row that is not there.
LEMMA PublishedIsSafe ==
    ASSUME TypeInv, NEW k \in Keys, row[k] = "none", attempt' = attempt,
           ready' = Put(ready, <<k, 1>>)
    PROVE  Safe(k)'
  <1>1. PICK j \in Jobs : j = <<k, 1>>
    <2>1. <<k, 1>> \in Jobs
      BY DEF Jobs, Attempts
    <2> QED BY <2>1
  <1>2. attempt'[k] = 0 /\ ready'[j] > 0
    BY <1>1, TypeInvParts DEF RowsOK, NoRowNoAttempt, QueuesOK, Put
  <1>3. Queued(k, j)'
    BY <1>1, <1>2 DEF Queued
  <1> QED BY <1>3 DEF Safe, Onward

\* Only the dispatcher takes from what it has to publish.
LEMMA ToDispatchStep ==
    ASSUME [Next]_vars PROVE toDispatch' = toDispatch \/ \E k \in Keys : DispatchJob(k)
  <1> USE DEF queues
  <1>1. CASE JobStep
    BY <1>1 DEF JobStep, Republish, RetryDelayElapses, JobLost
  <1>2. ASSUME NEW w \in Workers, WorkerStep(w) PROVE toDispatch' = toDispatch
    BY <1>2 DEF WorkerStep, ProcessStep, FaultStep, Receive, AcquireLock, SkipLocked,
      CheckActive, ShouldSend, Send, ReadRow, Upsert, Recount, RefreshCounters,
      RouteFailure, Unlock, Settle, ProceedUnlocked, ReleaseFails, DbError, Crash,
      ConnectionLost, LockOutlived
  <1>3. CASE CampaignStep
    BY <1>3 DEF CampaignStep, StopCampaign, StartCampaign, CancelCampaign, SetStatus
  <1>4. CASE RetryStep
    BY <1>4 DEF RetryStep, ClaimFailedRows, PublishRetry, PublishRetryFails, RestoreRows,
      RestoreCounters, RetryCrash
  <1>5. CASE (\E o \in Keys : OrphanExpires(o)) \/ UNCHANGED vars
    BY <1>5 DEF OrphanExpires, vars
  <1> QED BY <1>1, <1>2, <1>3, <1>4, <1>5 DEF Next

\* Every step keeps what is kept, and what gets its row or its first job.
LEMMA AllKeptStep == TypeInv /\ AllKept /\ [Next]_vars => AllKept'
  <1> SUFFICES ASSUME TypeInv, AllKept, [Next]_vars, NEW k \in Keys,
                      row'[k] # "none" \/ k \in Dispatched \ toDispatch'
               PROVE  Kept(k)'
    BY DEF AllKept
  <1>0. RowsOK
    BY TypeInvParts
  <1>1. CASE row[k] # "none" \/ k \in Dispatched \ toDispatch
    BY <1>1, KeptStep DEF AllKept
  <1>2. CASE row[k] = "none" /\ row'[k] # "none"
    <2>1. PICK w \in Workers : Upsert(w)
      BY <1>2, RowStep DEF ClaimFailedRows, FailedRows, RestoreRows
    <2>2. Key(w) = k /\ MayOverwrite(k, Try(w))
      BY <1>0, <1>2, <2>1, JobParts DEF Upsert, RowsOK, rows
    <2> QED BY <2>1, <2>2, WrittenIsSafe DEF Kept
  <1>3. CASE row[k] = "none" /\ k \in toDispatch /\ k \notin toDispatch'
    <2>1. DispatchJob(k)
      BY <1>3, ToDispatchStep DEF DispatchJob
    <2> QED BY <1>3, <2>1, PublishedIsSafe DEF DispatchJob, rows, Kept
  <1> QED BY <1>1, <1>2, <1>3

\* Every delivery is resolved or will be taken further, or was dropped at one of
\* the places the code drops jobs, for any number of faults and requests.
THEOREM NothingForgotten == Spec => []NoDeliveryForgotten
  <1>1. Init => AllKept
    BY DEF Init, AllKept
  <1>2. IInv => TypeInv
    BY DEF IInv
  <1> QED BY <1>1, <1>2, Inductive, AllKeptStep, KeptIsNotForgotten, PTL DEF Spec
=============================================================================
