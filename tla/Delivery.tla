------------------------------ MODULE Delivery ------------------------------
(***************************************************************************)
(* What becomes of the send jobs of one campaign: sender workers take them *)
(* from message.send, serialise on a Redis lock per idempotency key, look  *)
(* at the campaign and at the delivery row, call the provider, write the   *)
(* row, recount the campaign and route a failure to the retry queue; the   *)
(* campaign service stops, cancels and retries beside them.                *)
(*                                                                         *)
(* The campaign is running when the model starts; how its jobs come to be  *)
(* published is the subject of module Dispatch. A job is a key and an      *)
(* attempt. The dead-letter queue has no consumer and is left out.         *)
(***************************************************************************)
EXTENDS Naturals, FiniteSets

CONSTANTS
    Keys,        \* idempotency keys
    Dispatched,  \* those of the dispatcher's jobs: one per recipient and channel
    Workers,     \* processing goroutines, over all sender-worker replicas
    RetryLimit,  \* channels.Config.RetryLimit
    MaxAttempt,  \* bound on the attempts manual retries lead to
    Operations,  \* the operator's requests the instance has
    FaultKinds,  \* the faults the instance has
    MaxFaults    \* bound on their number

ASSUME ConstantsAssumption ==
    /\ IsFiniteSet(Keys) /\ Dispatched \subseteq Keys /\ IsFiniteSet(Workers)
    /\ {"none", "orphan"} \cap Workers = {}
    /\ RetryLimit \in Nat /\ MaxAttempt \in Nat \ {0} /\ MaxFaults \in Nat
    /\ RetryLimit <= MaxAttempt

VARIABLES
    status,       \* campaigns.status
    counts,       \* its sent_count, success_count, failed_count, cancelled_count
    row, attempt, \* message_deliveries per key, "none" while there is no row
    toDispatch,   \* keys whose first job is not yet published
    ready,        \* message.send: how many of each job
    delayed,      \* message.send.retry
    lock,         \* delivery-lock:<key>: its owner, "orphan" if it died, "none"
    pc, job, result, snapshot,  \* workers: where each is and its locals
    holders,      \* workers whose delivery is unacked on a live connection
    failing,      \* workers whose processing returned an error
    op, claimed, unpublished,   \* the retry handler: its rows, the jobs to publish
    delivered,    \* history: successful provider calls per key
    lost,         \* history: keys one of whose jobs, retries or recounts was dropped
    unlocked,     \* history: workers that process without the lock
    everUnlocked, \* history: some worker did
    faults        \* history: faults so far

rows     == <<row, attempt>>
queues   == <<toDispatch, ready, delayed>>
local    == <<job, result, snapshot>>
workers  == <<pc, local, holders, failing>>
retry    == <<op, claimed, unpublished>>
locking  == <<lock, unlocked, everUnlocked>>
vars     == <<status, counts, rows, queues, workers, retry, locking, delivered,
              lost, faults>>

Attempts == 1..MaxAttempt
Jobs     == Keys \X Attempts
NoJob    == <<>>
Total    == Cardinality(Dispatched)
Active   == status \in {"running", "retrying"}
Processed == {"sent", "failed", "cancelled"}

NoCounts == [processed |-> 0, success |-> 0, failed |-> 0, cancelled |-> 0]

Init ==
    /\ status = "running" /\ counts = NoCounts
    /\ row = [k \in Keys |-> "none"] /\ attempt = [k \in Keys |-> 0]
    /\ toDispatch = Dispatched
    /\ ready = [j \in Jobs |-> 0] /\ delayed = [j \in Jobs |-> 0]
    /\ lock = [k \in Keys |-> "none"]
    /\ pc = [w \in Workers |-> "idle"] /\ job = [w \in Workers |-> NoJob]
    /\ result = [w \in Workers |-> "none"]
    /\ snapshot = [w \in Workers |-> NoCounts]
    /\ holders = {} /\ failing = {}
    /\ op = "idle" /\ claimed = {} /\ unpublished = {}
    /\ delivered = [k \in Keys |-> 0]
    /\ lost = {} /\ unlocked = {} /\ everUnlocked = FALSE /\ faults = 0

-----------------------------------------------------------------------------
(* Helpers *)

Put(queue, j)  == [queue EXCEPT ![j] = @ + 1]
Take(queue, j) == [queue EXCEPT ![j] = @ - 1]

Fault(kind) == kind \in FaultKinds /\ faults < MaxFaults /\ faults' = faults + 1

Key(w) == job[w][1]
Try(w) == job[w][2]

Goto(w, here, there) == pc[w] = here /\ pc' = [pc EXCEPT ![w] = there]

\* Mutant: without GREATEST.
Minus(a, b) == a - b

Less(a, b) == IF a > b THEN a - b ELSE 0

CountRows == [
    processed |-> Cardinality({k \in Keys : row[k] \in Processed}),
    success   |-> Cardinality({k \in Keys : row[k] = "sent"}),
    failed    |-> Cardinality({k \in Keys : row[k] = "failed"}),
    cancelled |-> Cardinality({k \in Keys : row[k] = "cancelled"})]

-----------------------------------------------------------------------------
(* Jobs arrive *)

DispatchJob(k) ==
    /\ k \in toDispatch /\ Active
    /\ toDispatch' = toDispatch \ {k}
    /\ ready' = Put(ready, <<k, 1>>)
    /\ UNCHANGED <<status, counts, rows, delayed, workers, retry, locking,
                   delivered, lost, faults>>

\* A window whose lease ran out, or whose dispatcher died, is published again.
Republish(k) ==
    /\ k \in Dispatched \ toDispatch /\ Active
    /\ Fault("republish")
    /\ ready' = Put(ready, <<k, 1>>)
    /\ UNCHANGED <<status, counts, rows, toDispatch, delayed, workers, retry, locking,
                   delivered, lost>>

\* x-message-ttl of the retry queue, dead-lettered to message.send.
RetryDelayElapses(j) ==
    /\ delayed[j] > 0
    /\ delayed' = Take(delayed, j) /\ ready' = Put(ready, j)
    /\ UNCHANGED <<status, counts, rows, toDispatch, workers, retry, locking,
                   delivered, lost, faults>>

-----------------------------------------------------------------------------
(* sender-worker: processWithPublisher on one delivery *)

Receive(w, j) ==
    /\ Goto(w, "idle", "lock")
    /\ ready[j] > 0 /\ ready' = Take(ready, j)
    /\ job' = [job EXCEPT ![w] = j]
    /\ holders' = holders \union {w}
    /\ UNCHANGED <<status, counts, rows, toDispatch, delayed, result, snapshot, failing,
                   retry, locking, delivered, lost, faults>>

AcquireLock(w) ==
    /\ Goto(w, "lock", "active")
    /\ lock[Key(w)] = "none"
    /\ lock' = [lock EXCEPT ![Key(w)] = w]
    /\ UNCHANGED <<status, counts, rows, queues, local, holders, failing, retry, unlocked,
                   everUnlocked, delivered, lost, faults>>

\* Someone else has the lock: the delivery is acked and gone.
SkipLocked(w) ==
    /\ Goto(w, "lock", "settle")
    /\ lock[Key(w)] # "none"
    /\ lost' = lost \union {Key(w)}
    /\ UNCHANGED <<status, counts, rows, queues, local, holders, failing, retry, locking,
                   delivered, faults>>

\* Redis does not answer: the worker goes on without the lock.
ProceedUnlocked(w) ==
    /\ Goto(w, "lock", "active")
    /\ Fault("redis")
    /\ unlocked' = unlocked \union {w} /\ everUnlocked' = TRUE
    /\ UNCHANGED <<status, counts, rows, queues, local, holders, failing, retry, lock,
                   delivered, lost>>

CheckActive(w) ==
    /\ pc[w] = "active"
    /\ \/ Active /\ pc' = [pc EXCEPT ![w] = "check"] /\ UNCHANGED lost
       \/ ~Active /\ pc' = [pc EXCEPT ![w] = "unlock"] /\ lost' = lost \union {Key(w)}
    /\ UNCHANGED <<status, counts, rows, queues, local, holders, failing, retry, locking,
                   delivered, faults>>

\* Mutants: the row is not looked at; a queued row takes any attempt; a failed
\* row takes none.
CanSendAlways(k, a) == k \in Keys /\ a \in Attempts

CanSendQueued(k, a) ==
    \/ row[k] \in {"none", "queued"}
    \/ row[k] = "failed" /\ a > attempt[k]

CanSendOnce(k, a) ==
    \/ row[k] = "none"
    \/ row[k] = "queued" /\ a > attempt[k]

CanSend(k, a) ==
    \/ row[k] = "none"
    \/ row[k] \in {"queued", "failed"} /\ a > attempt[k]

ShouldSend(w) ==
    /\ Goto(w, "check", IF CanSend(Key(w), Try(w)) THEN "send" ELSE "unlock")
    /\ UNCHANGED <<status, counts, rows, queues, local, holders, failing, retry, locking,
                   delivered, lost, faults>>

Send(w) ==
    /\ Goto(w, "send", "read")
    /\ \E outcome \in {"sent", "failed"} :
         /\ result' = [result EXCEPT ![w] = outcome]
         /\ delivered' = IF outcome = "sent" THEN [delivered EXCEPT ![Key(w)] = @ + 1]
                         ELSE delivered
    /\ UNCHANGED <<status, counts, rows, queues, job, snapshot, holders, failing, retry,
                   locking, lost, faults>>

CanApply(k, a) ==
    \/ row[k] \in {"none", "queued"}
    \/ row[k] = "failed" /\ a > attempt[k]

\* writeDelivery first reads the row ...
ReadRow(w) ==
    /\ Goto(w, "read", IF CanApply(Key(w), Try(w)) THEN "upsert" ELSE "route")
    /\ UNCHANGED <<status, counts, rows, queues, local, holders, failing, retry, locking,
                   delivered, lost, faults>>

\* Mutant: the upsert has no WHERE clause.
OverwriteAlways(k, a) == k \in Keys /\ a \in Attempts

\* The WHERE clause of the upsert's ON CONFLICT.
MayOverwrite(k, a) == CanApply(k, a)

\* ... then upserts it, and only a row it changed is counted.
Upsert(w) ==
    /\ pc[w] = "upsert"
    /\ \/ /\ MayOverwrite(Key(w), Try(w))
          /\ row' = [row EXCEPT ![Key(w)] = result[w]]
          /\ attempt' = [attempt EXCEPT ![Key(w)] = Try(w)]
          /\ pc' = [pc EXCEPT ![w] = "count"]
       \/ /\ ~MayOverwrite(Key(w), Try(w))
          /\ pc' = [pc EXCEPT ![w] = "route"]
          /\ UNCHANGED rows
    /\ UNCHANGED <<status, counts, queues, local, holders, failing, retry, locking,
                   delivered, lost, faults>>

\* refreshCampaignCounters is one statement, but it counts the rows of its
\* snapshot, and updates the campaign when it gets the lock of its row.
Recount(w) ==
    /\ Goto(w, "count", "refresh")
    /\ snapshot' = [snapshot EXCEPT ![w] = CountRows]
    /\ UNCHANGED <<status, counts, rows, queues, job, result, holders, failing, retry,
                   locking, delivered, lost, faults>>

\* Mutants: the status is not looked at; off by one, either way.
ShouldFinishAnyStatus(processed) == processed >= Total /\ Total > 0

ShouldFinishEarly(processed) == processed + 1 >= Total /\ Total > 0 /\ Active

ShouldFinishLate(processed) == processed > Total /\ Total > 0 /\ Active

ShouldFinish(processed) == processed >= Total /\ Total > 0 /\ Active

RefreshCounters(w) ==
    /\ Goto(w, "refresh", "route")
    /\ counts' = snapshot[w]
    /\ status' = IF ShouldFinish(snapshot[w].processed) THEN "finished" ELSE status
    /\ snapshot' = [snapshot EXCEPT ![w] = NoCounts]
    /\ UNCHANGED <<rows, queues, job, result, holders, failing, retry, locking,
                   delivered, lost, faults>>

HasRetry(w) == result[w] = "failed" /\ Try(w) < RetryLimit

\* The next attempt goes to the retry queue, even if the row was not changed.
\* A publish on a dead channel fails, which is logged and no more.
RouteFailure(w) ==
    /\ Goto(w, "route", "unlock")
    /\ delayed' = IF HasRetry(w) /\ w \in holders THEN Put(delayed, <<Key(w), Try(w) + 1>>)
                  ELSE delayed
    /\ lost' = IF HasRetry(w) /\ w \notin holders THEN lost \union {Key(w)} ELSE lost
    /\ UNCHANGED <<status, counts, rows, toDispatch, ready, local, holders, failing, retry,
                   locking, delivered, faults>>

\* Mutant: the release deletes whatever lock there is.
UnlockAny(w) ==
    /\ Goto(w, "unlock", "settle")
    /\ lock' = [lock EXCEPT ![Key(w)] = "none"]
    /\ unlocked' = unlocked \ {w}
    /\ UNCHANGED <<status, counts, rows, queues, local, holders, failing, retry,
                   everUnlocked, delivered, lost, faults>>

\* The deferred release, DelIfValue: only the owner deletes the lock.
Unlock(w) ==
    /\ Goto(w, "unlock", "settle")
    /\ lock' = IF lock[Key(w)] = w THEN [lock EXCEPT ![Key(w)] = "none"] ELSE lock
    /\ unlocked' = unlocked \ {w}
    /\ UNCHANGED <<status, counts, rows, queues, local, holders, failing, retry,
                   everUnlocked, delivered, lost, faults>>

\* Redis does not answer the release: the lock stays until it expires.
ReleaseFails(w) ==
    /\ Goto(w, "unlock", "settle")
    /\ lock[Key(w)] = w
    /\ Fault("redis")
    /\ lock' = [lock EXCEPT ![Key(w)] = "orphan"]
    /\ UNCHANGED <<status, counts, rows, queues, local, holders, failing, retry, unlocked,
                   everUnlocked, delivered, lost>>

NextDelivery(w) ==
    /\ pc' = [pc EXCEPT ![w] = "idle"]
    /\ job' = [job EXCEPT ![w] = NoJob]
    /\ result' = [result EXCEPT ![w] = "none"]
    /\ snapshot' = [snapshot EXCEPT ![w] = NoCounts]
    /\ holders' = holders \ {w}
    /\ failing' = failing \ {w}

\* Ack, or after an error Nack(requeue); neither means anything to the broker
\* once the connection is gone.
Settle(w) ==
    /\ pc[w] = "settle"
    /\ ready' = IF w \in holders \cap failing THEN Put(ready, job[w]) ELSE ready
    /\ NextDelivery(w)
    /\ UNCHANGED <<status, counts, rows, toDispatch, delayed, retry, locking,
                   delivered, lost, faults>>

-----------------------------------------------------------------------------
(* Faults of the workers and of what they depend on *)

\* A statement fails. After the upsert, the redelivery finds the row written
\* and does not repeat the recount or the routing.
DbError(w) ==
    /\ pc[w] \in {"active", "check", "read", "upsert", "count"}
    /\ Fault("db")
    /\ pc' = [pc EXCEPT ![w] = "unlock"]
    /\ failing' = failing \union {w}
    /\ lost' = IF pc[w] = "count" THEN lost \union {Key(w)} ELSE lost
    /\ UNCHANGED <<status, counts, rows, queues, local, holders, retry, locking, delivered>>

\* The process dies: its delivery comes back, its lock stays.
Crash(w) ==
    /\ pc[w] # "idle"
    /\ Fault("crash")
    /\ ready' = IF w \in holders THEN Put(ready, job[w]) ELSE ready
    /\ lock' = [k \in Keys |-> IF lock[k] = w THEN "orphan" ELSE lock[k]]
    /\ unlocked' = unlocked \ {w}
    /\ lost' = IF pc[w] \in {"count", "refresh", "route"} THEN lost \union {Key(w)} ELSE lost
    /\ NextDelivery(w)
    /\ UNCHANGED <<status, counts, rows, toDispatch, delayed, retry, everUnlocked, delivered>>

\* The broker redelivers at once, the goroutine goes on.
ConnectionLost(w) ==
    /\ w \in holders
    /\ Fault("connection")
    /\ holders' = holders \ {w}
    /\ ready' = Put(ready, job[w])
    /\ UNCHANGED <<status, counts, rows, toDispatch, delayed, pc, local, failing, retry,
                   locking, delivered, lost>>

\* A job whose publish returned nil never reaches its queue: no publisher
\* confirms.
JobLost(j) ==
    /\ Fault("publish")
    /\ \/ ready[j] > 0 /\ ready' = Take(ready, j) /\ UNCHANGED delayed
       \/ delayed[j] > 0 /\ delayed' = Take(delayed, j) /\ UNCHANGED ready
    /\ lost' = lost \union {j[1]}
    /\ UNCHANGED <<status, counts, rows, toDispatch, workers, retry, locking, delivered>>

\* The provider takes longer than DELIVERY_LOCK_TTL_SECONDS.
LockOutlived(w) ==
    /\ pc[w] # "idle" /\ lock[Key(w)] = w
    /\ Fault("slow")
    /\ lock' = [lock EXCEPT ![Key(w)] = "none"]
    /\ unlocked' = unlocked \union {w} /\ everUnlocked' = TRUE
    /\ UNCHANGED <<status, counts, rows, queues, workers, retry, delivered, lost>>

OrphanExpires(k) ==
    /\ lock[k] = "orphan"
    /\ lock' = [lock EXCEPT ![k] = "none"]
    /\ UNCHANGED <<status, counts, rows, queues, workers, retry, unlocked, everUnlocked,
                   delivered, lost, faults>>

-----------------------------------------------------------------------------
(* campaign-service: stop, start again, cancel *)

SetStatus(newStatus) ==
    /\ status' = newStatus
    /\ UNCHANGED <<rows, queues, workers, retry, locking, delivered, lost, faults>>

StopCampaign ==
    "stop" \in Operations /\ Active /\ SetStatus("stopped") /\ UNCHANGED counts

StartCampaign ==
    "stop" \in Operations /\ status = "stopped" /\ SetStatus("running") /\ UNCHANGED counts

CancelCampaign ==
    /\ "cancel" \in Operations
    /\ counts' = [counts EXCEPT !.cancelled = Less(Total, counts.processed),
                                !.processed = Total]
    /\ SetStatus("cancelled")

-----------------------------------------------------------------------------
(* campaign-service: POST /campaigns/{id}/retry-failed *)

FailedRows == {k \in Keys : row[k] = "failed"}

\* One transaction: the failed rows become queued and the campaign running,
\* whatever its status was.
ClaimFailedRows ==
    /\ "retry" \in Operations
    /\ op = "idle" /\ FailedRows # {}
    /\ \A k \in FailedRows : attempt[k] < MaxAttempt
    /\ op' = "publish" /\ claimed' = FailedRows
    /\ unpublished' = {<<k, attempt[k] + 1>> : k \in FailedRows}
    /\ row' = [k \in Keys |-> IF k \in FailedRows THEN "queued" ELSE row[k]]
    /\ status' = "running"
    /\ counts' = [counts EXCEPT !.processed = Less(@, Cardinality(FailedRows)),
                                !.failed = Less(@, Cardinality(FailedRows))]
    /\ UNCHANGED <<attempt, queues, workers, locking, delivered, lost, faults>>

\* publishClaimedRetryRows, one row at a time; after the last the handler returns.
PublishRetry(j) ==
    /\ op = "publish" /\ j \in unpublished
    /\ ready' = Put(ready, j)
    /\ unpublished' = unpublished \ {j}
    /\ op' = IF unpublished = {j} THEN "idle" ELSE "publish"
    /\ claimed' = IF unpublished = {j} THEN {} ELSE claimed
    /\ UNCHANGED <<status, counts, rows, toDispatch, delayed, workers, locking,
                   delivered, lost, faults>>

PublishRetryFails ==
    /\ op = "publish"
    /\ Fault("publish")
    /\ op' = "restore" /\ unpublished' = {}
    /\ UNCHANGED <<status, counts, rows, queues, workers, claimed, locking, delivered, lost>>

\* restoreQueuedRowsFailed: the rows that are still queued ...
RestoreRows ==
    /\ op = "restore"
    /\ row' = [k \in Keys |-> IF k \in claimed /\ row[k] = "queued" THEN "failed" ELSE row[k]]
    /\ op' = "recount"
    /\ UNCHANGED <<status, counts, attempt, queues, workers, claimed, unpublished, locking,
                   delivered, lost, faults>>

\* ... then the counters, by the number of rows claimed.
RestoreCounters ==
    /\ op = "recount"
    /\ LET processed == counts.processed + Cardinality(claimed)
       IN  /\ counts' = [counts EXCEPT !.processed = processed,
                                       !.failed = @ + Cardinality(claimed)]
           /\ status' = IF processed >= Total THEN "finished" ELSE status
    /\ op' = "idle" /\ claimed' = {}
    /\ UNCHANGED <<rows, queues, workers, unpublished, locking, delivered, lost, faults>>

RetryCrash ==
    /\ op # "idle"
    /\ Fault("crash")
    /\ lost' = lost \union claimed
    /\ op' = "idle" /\ claimed' = {} /\ unpublished' = {}
    /\ UNCHANGED <<status, counts, rows, queues, workers, locking, delivered>>

-----------------------------------------------------------------------------
(* Specification *)

JobStep ==
    \/ \E k \in Keys : DispatchJob(k) \/ Republish(k)
    \/ \E j \in Jobs : RetryDelayElapses(j) \/ JobLost(j)

\* What a worker does by itself with the delivery it has.
ProcessStep(w) ==
    \/ AcquireLock(w) \/ SkipLocked(w) \/ CheckActive(w) \/ ShouldSend(w) \/ Send(w)
    \/ ReadRow(w) \/ Upsert(w) \/ Recount(w) \/ RefreshCounters(w) \/ RouteFailure(w)
    \/ Unlock(w) \/ Settle(w)

FaultStep(w) ==
    \/ ProceedUnlocked(w) \/ ReleaseFails(w) \/ DbError(w) \/ Crash(w)
    \/ ConnectionLost(w) \/ LockOutlived(w)

WorkerStep(w) == (\E j \in Jobs : Receive(w, j)) \/ ProcessStep(w) \/ FaultStep(w)

CampaignStep == StopCampaign \/ StartCampaign \/ CancelCampaign

RetryStep ==
    \/ ClaimFailedRows \/ (\E j \in Jobs : PublishRetry(j)) \/ PublishRetryFails
    \/ RestoreRows \/ RestoreCounters \/ RetryCrash

Next ==
    \/ JobStep
    \/ \E w \in Workers : WorkerStep(w)
    \/ \E k \in Keys : OrphanExpires(k)
    \/ CampaignStep
    \/ RetryStep

Spec == Init /\ [][Next]_vars

\* The dispatcher, the broker, the workers, Redis' clock and a retry handler
\* that was started go on. Nothing is assumed of operators and faults.
Fairness ==
    /\ \A k \in Keys : WF_vars(DispatchJob(k)) /\ WF_vars(OrphanExpires(k))
    /\ \A j \in Jobs : WF_vars(RetryDelayElapses(j)) /\ WF_vars(PublishRetry(j))
    /\ WF_vars(RestoreRows) /\ WF_vars(RestoreCounters)
    /\ \A w \in Workers : WF_vars(\E j \in Jobs : Receive(w, j)) /\ WF_vars(ProcessStep(w))

FairSpec == Spec /\ Fairness

-----------------------------------------------------------------------------
(* Properties *)

Counters == [processed : Nat, success : Nat, failed : Nat, cancelled : Nat]

\* The type invariant; no counter is ever negative.
TypeOK ==
    /\ status \in {"running", "retrying", "stopped", "cancelled", "finished"}
    /\ counts \in Counters
    /\ row \in [Keys -> {"none", "queued"} \union Processed]
    /\ attempt \in [Keys -> 0..MaxAttempt]
    /\ toDispatch \subseteq Keys
    /\ ready \in [Jobs -> Nat] /\ delayed \in [Jobs -> Nat]
    /\ lock \in [Keys -> Workers \union {"none", "orphan"}]
    /\ pc \in [Workers -> {"idle", "lock", "active", "check", "send", "read", "upsert",
                           "count", "refresh", "route", "unlock", "settle"}]
    /\ job \in [Workers -> Jobs \union {NoJob}]
    /\ result \in [Workers -> {"none", "sent", "failed"}]
    /\ snapshot \in [Workers -> Counters]
    /\ holders \subseteq Workers /\ failing \subseteq Workers
    /\ op \in {"idle", "publish", "restore", "recount"}
    /\ claimed \subseteq Keys /\ unpublished \subseteq Jobs
    /\ delivered \in [Keys -> Nat]
    /\ lost \subseteq Keys /\ unlocked \subseteq Workers /\ everUnlocked \in BOOLEAN
    /\ faults \in 0..MaxFaults

\* A delivery that was sent or cancelled keeps its row, whatever late results,
\* redeliveries and retries of it are still about.
TerminalRowsProtected ==
    [][\A k \in Keys : row[k] \in {"sent", "cancelled"} => row'[k] = row[k]]_vars

\* The attempt of a row never goes back, unless a worker ran without the lock:
\* a queued row takes any result, so only the lock keeps old attempts away.
AttemptNeverBack ==
    [][\A k \in Keys : attempt'[k] >= attempt[k] \/ everUnlocked]_vars

Processing(w) == pc[w] \notin {"idle", "lock", "settle"}

\* Two workers are at the same delivery only if one of them has no lock, be it
\* that Redis failed or that its lock ran out.
ProcessedByOne ==
    \A v, w \in Workers :
        v # w /\ Processing(v) /\ Processing(w) /\ Key(v) = Key(w)
        => v \in unlocked \/ w \in unlocked

\* The provider is asked again after a success at most once per fault.
SendsBoundedByFaults == \A k \in Keys : delivered[k] <= 1 + faults

\* A job of k that is not stale is still on its way to a worker's upsert.
Underway(k) ==
    \/ k \in toDispatch
    \/ \E j \in Jobs :
        /\ j[1] = k /\ j[2] > attempt[k]
        /\ ready[j] > 0 \/ delayed[j] > 0 \/ j \in unpublished
    \/ \E w \in Workers :
        /\ pc[w] # "idle" /\ Key(w) = k
        /\ \/ /\ pc[w] \in {"lock", "active", "check", "send", "read", "upsert"}
              /\ Try(w) > attempt[k]
           \/ pc[w] \in {"count", "refresh", "route"} /\ HasRetry(w)
           \/ w \in failing \cap holders /\ Try(w) > attempt[k]

Resolved(k) ==
    \/ row[k] \in {"sent", "cancelled"}
    \/ row[k] = "failed" /\ attempt[k] >= RetryLimit

\* Every delivery is resolved, or has a job that will take it further, or had a
\* job, retry or recount dropped at one of the places that record it in lost.
NoDeliveryForgotten ==
    \A k \in Dispatched : Resolved(k) \/ Underway(k) \/ k \in lost \/ k \in claimed

\* A campaign becomes finished only when every delivery was processed.
FinishedWhenProcessed ==
    [][status # "finished" /\ status' = "finished"
       => \A k \in Dispatched : row'[k] \in Processed]_vars

\* A campaign that was stopped or cancelled does not become finished over it.
StopNotOverwritten ==
    [][status' = "finished" => status \notin {"stopped", "cancelled"}]_vars

\* A running campaign all of whose deliveries are processed does not stay running.
AllProcessed == \A k \in Dispatched : row[k] \in Processed

CompleteFinishes == (Active /\ AllProcessed) ~> ~(Active /\ AllProcessed)

\* A running campaign with deliveries left to process finishes or is stopped,
\* unless something of it was lost. One that is resumed with everything processed
\* is CompleteFinishes' matter.
RunningFinishes == (Active /\ ~AllProcessed) ~> (~Active \/ lost # {})
=============================================================================
