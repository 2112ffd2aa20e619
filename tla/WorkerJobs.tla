------------------------------ MODULE WorkerJobs -----------------------------
(***************************************************************************)
(* One worker job of ops-gateway: POST /worker/jobs inserts its row and    *)
(* publishes it, and the consumers of the result and error queues write    *)
(* what a worker reports. Every process remembers in dictionaries the jobs *)
(* it has queued and the results it has processed; the row is what the     *)
(* processes share. Other coroutines run at each await.                    *)
(***************************************************************************)
EXTENDS Naturals, FiniteSets

CONSTANTS
    Processes,       \* replicas of ops-gateway
    Requests,        \* requests POST /worker/jobs with this key
    MaxReports,      \* bound on the results workers publish
    MaxJobFaults     \* bound on failing calls and restarts

ASSUME JobAssumption ==
    IsFiniteSet(Processes) /\ MaxReports \in Nat /\ MaxJobFaults \in Nat

VARIABLES
    job,             \* the row's status, "none" without a row
    queued,          \* processes whose queued_jobs has the key
    request,         \* per request: where create_worker_job is
    at,              \* per request: its process
    published,       \* times the job has come to message.send.request
    results,         \* per outcome: messages waiting in its queue
    reports,         \* messages ever put there
    handler,         \* per process and queue: where apply_worker_result_event is
    processed,       \* processes whose processed_result_keys has the key
    applied,         \* history: updates that found the row queued
    dropped,         \* history: a request ended between its insert and its publish
    jobFaults

jobVars == <<job, queued, request, at, published, results, reports, handler,
             processed, applied, dropped, jobFaults>>

calls == <<queued, request, at>>
reporting == <<results, reports, handler, processed, applied>>

\* A worker's result comes through message.send.result or message.send.error.
Outcomes == {"sent", "failed"}

JobInit ==
    /\ job = "none" /\ queued = {} /\ published = 0
    /\ request = [r \in Requests |-> "idle"]
    /\ at \in [Requests -> Processes]
    /\ results = [o \in Outcomes |-> 0] /\ reports = 0
    /\ handler = [p \in Processes |-> [o \in Outcomes |-> "idle"]]
    /\ processed = {} /\ applied = 0
    /\ dropped = FALSE /\ jobFaults = 0

JobFault == jobFaults < MaxJobFaults /\ jobFaults' = jobFaults + 1

-----------------------------------------------------------------------------
(* create_worker_job; with the key in queued_jobs it returns and changes nothing *)

Go(r, here, there) == request[r] = here /\ request' = [request EXCEPT ![r] = there]

Call(r) ==
    /\ Go(r, "idle", "insert") /\ at[r] \notin queued
    /\ UNCHANGED <<job, queued, at, published, reporting, dropped, jobFaults>>

\* Mutant: a key that is there already counts as inserted.
InsertedAlways == job \in Outcomes \union {"none", "queued"}

Inserted == job = "none"

\* The transaction in its thread: ON CONFLICT (idempotency_key) DO NOTHING.
WriteQueuedJob(r) ==
    /\ Go(r, "insert", IF Inserted THEN "inserted" ELSE "known")
    /\ job' = IF job = "none" THEN "queued" ELSE job
    /\ UNCHANGED <<queued, at, published, reporting, dropped, jobFaults>>

\* The error may come after the commit.
WriteQueuedJobFails(r) ==
    /\ Go(r, "insert", "idle")
    /\ JobFault
    /\ \/ UNCHANGED <<job, dropped>>
       \/ job = "none" /\ job' = "queued" /\ dropped' = TRUE
    /\ UNCHANGED <<queued, at, published, reporting>>

\* Mutant: a job that is in queued_jobs by now is taken to be published.
SkipIfQueued(r) == IF at[r] \in queued THEN "idle" ELSE "publish"

AfterInsert(r) == "publish"

\* queued_jobs is written before the job is published.
Remember(r) ==
    /\ Go(r, "inserted", AfterInsert(r)) \/ Go(r, "known", "idle")
    /\ queued' = queued \union {at[r]}
    /\ UNCHANGED <<job, at, published, reporting, dropped, jobFaults>>

PublishWorkerJob(r) ==
    /\ Go(r, "publish", "idle")
    /\ published' = published + 1
    /\ UNCHANGED <<job, queued, at, reporting, dropped, jobFaults>>

\* The error may come after the broker has taken the message.
PublishWorkerJobFails(r) ==
    /\ Go(r, "publish", "idle")
    /\ JobFault
    /\ published' \in {published, published + 1} /\ dropped' = TRUE
    /\ UNCHANGED <<job, queued, at, reporting>>

-----------------------------------------------------------------------------
(* Results *)

\* A worker reports, possibly twice, and not always the same.
Report(o) ==
    /\ published > 0 /\ reports < MaxReports
    /\ results' = [results EXCEPT ![o] = @ + 1] /\ reports' = reports + 1
    /\ UNCHANGED <<job, calls, published, handler, processed, applied, dropped, jobFaults>>

\* Mutant: the key is remembered when the result arrives.
ProcessedAtOnce(p) == processed \union {p}

ProcessedOnArrival(p) == IF p \in Processes THEN processed ELSE {}

Handle(p, o, here, there) ==
    /\ handler[p][o] = here
    /\ handler' = [handler EXCEPT ![p][o] = there]

\* The consumer of a queue takes a message and looks for its key.
TakeResult(p, o) ==
    /\ results[o] > 0
    /\ Handle(p, o, "idle", IF p \in processed THEN "idle" ELSE "write")
    /\ results' = [results EXCEPT ![o] = @ - 1]
    /\ processed' = ProcessedOnArrival(p)
    /\ UNCHANGED <<job, calls, published, reports, applied, dropped, jobFaults>>

\* Mutant: the last result wins.
MayApplyAny == job # "none"

MayApply == job = "queued"

Apply(o) ==
    IF MayApply THEN job' = o /\ applied' = applied + 1 ELSE UNCHANGED <<job, applied>>

\* The UPDATE ... WHERE status = 'queued' in its thread.
WriteDeliveryResult(p, o) ==
    /\ Handle(p, o, "write", "written")
    /\ Apply(o)
    /\ UNCHANGED <<calls, published, results, reports, processed, dropped, jobFaults>>

\* An exception, before or after the commit, puts the message back (requeue=True).
WriteDeliveryResultFails(p, o) ==
    /\ Handle(p, o, "write", "idle")
    /\ JobFault
    /\ results' = [results EXCEPT ![o] = @ + 1]
    /\ Apply(o) \/ UNCHANGED <<job, applied>>
    /\ UNCHANGED <<calls, published, reports, processed, dropped>>

\* The key is remembered, the event of an applied result sent, the message acked.
RememberResult(p, o) ==
    /\ Handle(p, o, "written", "idle")
    /\ processed' = processed \union {p}
    /\ UNCHANGED <<job, calls, published, results, reports, applied, dropped, jobFaults>>

-----------------------------------------------------------------------------
\* Mutant: messages that were acked come back, too.
RedeliveredAlways(p, o) == results[o] + IF p \in Processes THEN 1 ELSE 0

Redelivered(p, o) == results[o] + IF handler[p][o] # "idle" THEN 1 ELSE 0

\* A process restarts without its dictionaries, its requests are gone and its
\* messages are delivered again.
RestartReplica(p) ==
    /\ JobFault
    /\ queued' = queued \ {p} /\ processed' = processed \ {p}
    /\ request' = [r \in Requests |-> IF at[r] = p THEN "idle" ELSE request[r]]
    /\ dropped' = (dropped \/ \E r \in Requests :
                                at[r] = p /\ request[r] \in {"inserted", "publish"})
    /\ handler' = [handler EXCEPT ![p] = [o \in Outcomes |-> "idle"]]
    /\ results' = [o \in Outcomes |-> Redelivered(p, o)]
    /\ UNCHANGED <<job, at, published, reports, applied>>

RequestStep(r) ==
    \/ Call(r) \/ WriteQueuedJob(r) \/ WriteQueuedJobFails(r) \/ Remember(r)
    \/ PublishWorkerJob(r) \/ PublishWorkerJobFails(r)

HandlerStep(p, o) == WriteDeliveryResult(p, o) \/ RememberResult(p, o)

JobNext ==
    \/ \E r \in Requests : RequestStep(r)
    \/ \E o \in Outcomes : Report(o)
    \/ \E p \in Processes : RestartReplica(p)
    \/ \E p \in Processes, o \in Outcomes :
           TakeResult(p, o) \/ HandlerStep(p, o) \/ WriteDeliveryResultFails(p, o)

\* A message that waits is taken, and a handler that has taken one goes on.
JobFairness ==
    \A o \in Outcomes :
        /\ WF_jobVars(\E p \in Processes : TakeResult(p, o))
        /\ \A p \in Processes : WF_jobVars(HandlerStep(p, o))

JobSpec == JobInit /\ [][JobNext]_jobVars /\ JobFairness

-----------------------------------------------------------------------------
(* Properties *)

\* The type invariant; no more results wait than were reported: a message that is
\* put back or delivered again is not there twice.
JobTypeOK ==
    /\ job \in Outcomes \union {"none", "queued"}
    /\ queued \subseteq Processes /\ processed \subseteq Processes
    /\ request \in [Requests -> {"idle", "insert", "inserted", "known", "publish"}]
    /\ at \in [Requests -> Processes]
    /\ published \in Nat /\ applied \in Nat
    /\ reports \in 0..MaxReports
    /\ results \in [Outcomes -> 0..reports] /\ results["sent"] + results["failed"] <= reports
    /\ handler \in [Processes -> [Outcomes -> {"idle", "write", "written"}]]
    /\ dropped \in BOOLEAN /\ jobFaults \in 0..MaxJobFaults

\* A job is published at most once, whichever processes get its requests,
\* whatever they have forgotten, and however requests overlap.
PublishedOnce == published <= 1

\* A job that has a row was published, or will be by the request that inserted
\* it, unless that request ended before its publish succeeded: then no later
\* request publishes it.
JobNotForgotten ==
    \/ job = "none" \/ published > 0 \/ dropped
    \/ \E r \in Requests : request[r] \in {"inserted", "publish"}

\* A result that was reported comes to be written, by whichever process: none
\* passes over it because it remembers an attempt that failed.
ReportsApplied == <>[](reports > 0 => job \in Outcomes)

\* Only one result of a job is written and counted.
AppliedOnce == applied <= 1
=============================================================================
