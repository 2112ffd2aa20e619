--------------------------- MODULE DeliveryProofs ---------------------------
(***************************************************************************)
(* Proofs about Delivery, for every set of deliveries, workers and faults, *)
(* every retry limit and whatever the operators do.                        *)
(***************************************************************************)
EXTENDS Delivery, FiniteSetTheorems, TLAPS

USE ConstantsAssumption

-----------------------------------------------------------------------------
(* The invariants *)

\* A worker that is not idle has a delivery, and knows the provider's answer
\* before it writes it; only workers that are not idle hold one.
HasDelivery ==
    /\ \A w \in Workers : pc[w] # "idle" => job[w] \in Jobs
    /\ \A w \in Workers : pc[w] \in {"read", "upsert"} => result[w] \in {"sent", "failed"}
    /\ \A w \in holders \union failing : pc[w] # "idle"

\* The first attempt is 1.
NoRowNoAttempt == \A k \in Keys : row[k] = "none" => attempt[k] = 0

TypeInv == TypeOK /\ HasDelivery /\ NoRowNoAttempt

\* Whoever processes a delivery has its lock, unless Redis failed him or the
\* lock ran out.
LockHeld == \A w \in Workers : Processing(w) => lock[Key(w)] = w \/ w \in unlocked

\* Only who processes a delivery has its lock, or runs without one.
OwnersProcess ==
    \A w \in Workers :
        /\ w \in unlocked => Processing(w)
        /\ \A k \in Keys : lock[k] = w => Processing(w) /\ Key(w) = k /\ w \notin unlocked

\* As long as nobody ran without the lock, the attempt being sent is newer than
\* the row's.
Sending(w) == pc[w] \in {"send", "read", "upsert"}

SendsNewer ==
    /\ unlocked # {} => everUnlocked
    /\ ~everUnlocked => \A w \in Workers : Sending(w) => Try(w) > attempt[Key(w)]

IInv == TypeInv /\ LockHeld /\ OwnersProcess /\ SendsNewer

-----------------------------------------------------------------------------
(* What the helpers return *)

\* A worker that is not idle has a job of a key and an attempt.
LEMMA JobParts ==
    ASSUME TypeInv, NEW w \in Workers, pc[w] # "idle"
    PROVE  job[w] \in Jobs /\ Key(w) \in Keys /\ Try(w) \in 1..MaxAttempt
  BY DEF TypeInv, HasDelivery, Key, Try, Jobs, Attempts

\* Queues count jobs, as long as only jobs that are there are taken.
LEMMA PutTakeType ==
    ASSUME NEW queue \in [Jobs -> Nat], NEW j \in Jobs
    PROVE  /\ Put(queue, j) \in [Jobs -> Nat]
           /\ queue[j] > 0 => Take(queue, j) \in [Jobs -> Nat]
  BY DEF Put, Take

\* Every set of keys is finite.
LEMMA KeysAreCounted ==
    ASSUME NEW S \in SUBSET Keys
    PROVE  Cardinality(S) \in Nat
  BY FS_Subset, FS_CardinalityType

\* Counting rows gives counters.
LEMMA CountsAreNumbers ==
    /\ Total \in Nat /\ CountRows \in Counters /\ NoCounts \in Counters
    /\ Cardinality(FailedRows) \in Nat
  <1>1. Total \in Nat
    BY KeysAreCounted DEF Total
  <1>2. CountRows \in Counters
    BY KeysAreCounted DEF CountRows, Counters
  <1>3. NoCounts \in Counters
    BY DEF NoCounts, Counters
  <1>4. Cardinality(FailedRows) \in Nat
    BY KeysAreCounted DEF FailedRows
  <1> QED BY <1>1, <1>2, <1>3, <1>4

\* A counter that is set to a number stays one.
LEMMA CountersUpdate ==
    ASSUME NEW c \in Counters, NEW n \in Nat
    PROVE  /\ [c EXCEPT !.processed = n] \in Counters
           /\ [c EXCEPT !.failed = n] \in Counters
           /\ [c EXCEPT !.cancelled = n] \in Counters
  BY DEF Counters

\* GREATEST keeps a counter from getting negative.
LEMMA LessIsNumber == ASSUME NEW a \in Nat, NEW b \in Nat PROVE Less(a, b) \in Nat
  BY DEF Less

-----------------------------------------------------------------------------
(* Type correctness, one group of variables after the other *)

RowsOK ==
    /\ status \in {"running", "retrying", "stopped", "cancelled", "finished"}
    /\ row \in [Keys -> {"none", "queued"} \union Processed]
    /\ attempt \in [Keys -> 0..MaxAttempt]
    /\ toDispatch \subseteq Keys
    /\ op \in {"idle", "publish", "restore", "recount"}
    /\ claimed \subseteq Keys /\ lost \subseteq Keys
    /\ delivered \in [Keys -> Nat]
    /\ faults \in 0..MaxFaults
    /\ NoRowNoAttempt

QueuesOK ==
    ready \in [Jobs -> Nat] /\ delayed \in [Jobs -> Nat] /\ unpublished \subseteq Jobs

CountsOK == counts \in Counters /\ snapshot \in [Workers -> Counters]

WorkersOK ==
    /\ pc \in [Workers -> {"idle", "lock", "active", "check", "send", "read", "upsert",
                           "count", "refresh", "route", "unlock", "settle"}]
    /\ job \in [Workers -> Jobs \union {NoJob}]
    /\ result \in [Workers -> {"none", "sent", "failed"}]
    /\ holders \subseteq Workers /\ failing \subseteq Workers
    /\ HasDelivery

LocksOK ==
    /\ lock \in [Keys -> Workers \union {"none", "orphan"}]
    /\ unlocked \subseteq Workers

FlagOK == everUnlocked \in BOOLEAN

LEMMA TypeInvParts ==
    TypeInv <=> RowsOK /\ QueuesOK /\ CountsOK /\ WorkersOK /\ LocksOK /\ FlagOK
  BY DEF TypeInv, TypeOK, RowsOK, QueuesOK, CountsOK, WorkersOK, LocksOK, FlagOK

LEMMA FlagStep == FlagOK /\ [Next]_vars => FlagOK'
  <1> SUFFICES ASSUME FlagOK, [Next]_vars
               PROVE  everUnlocked' = everUnlocked \/ everUnlocked' = TRUE
    BY Zenon DEF FlagOK
  <1> USE DEF locking
  <1>1. CASE JobStep
    BY <1>1 DEF JobStep, DispatchJob, Republish, RetryDelayElapses, JobLost
  <1>2. ASSUME NEW w \in Workers, WorkerStep(w)
        PROVE  everUnlocked' = everUnlocked \/ everUnlocked' = TRUE
    BY <1>2 DEF WorkerStep, ProcessStep, FaultStep, Receive, AcquireLock, SkipLocked,
      CheckActive, ShouldSend, Send, ReadRow, Upsert, Recount, RefreshCounters,
      RouteFailure, Unlock, Settle, ProceedUnlocked, ReleaseFails, DbError, Crash,
      ConnectionLost, LockOutlived
  <1>3. CASE CampaignStep
    BY <1>3 DEF CampaignStep, StopCampaign, StartCampaign, CancelCampaign, SetStatus
  <1>4. CASE RetryStep
    BY <1>4 DEF RetryStep, ClaimFailedRows, PublishRetry, PublishRetryFails, RestoreRows,
      RestoreCounters, RetryCrash
  <1>5. CASE (\E k \in Keys : OrphanExpires(k)) \/ UNCHANGED vars
    BY <1>5 DEF OrphanExpires, vars
  <1> QED BY <1>1, <1>2, <1>3, <1>4, <1>5 DEF Next

\* Rows, the campaign's status and the retry handler.
LEMMA RowsStep == TypeInv /\ [Next]_vars => RowsOK'
  <1> SUFFICES ASSUME TypeInv, RowsOK, [Next]_vars PROVE RowsOK'
    BY TypeInvParts
  <1> USE DEF RowsOK, NoRowNoAttempt, rows, queues, retry, Fault
  <1>1. CASE JobStep
    <2>1. ASSUME NEW j \in Jobs, JobLost(j) PROVE RowsOK'
      BY <2>1 DEF JobLost, Jobs
    <2>2. ASSUME NEW j \in Jobs, RetryDelayElapses(j) PROVE RowsOK'
      BY <2>2 DEF RetryDelayElapses
    <2>3. ASSUME NEW k \in Keys, DispatchJob(k) \/ Republish(k) PROVE RowsOK'
      BY <2>3 DEF DispatchJob, Republish
    <2> QED BY <1>1, <2>1, <2>2, <2>3 DEF JobStep
  <1>2. ASSUME NEW w \in Workers, WorkerStep(w) PROVE RowsOK'
    <2>1. ASSUME NEW j \in Jobs, Receive(w, j) PROVE RowsOK'
      BY <2>1 DEF Receive
    <2>2. CASE AcquireLock(w) \/ ShouldSend(w) \/ ReadRow(w) \/ Recount(w) \/ Unlock(w)
               \/ Settle(w)
      BY <2>2 DEF AcquireLock, ShouldSend, ReadRow, Recount, Unlock, Settle
    <2>3. CASE SkipLocked(w) \/ CheckActive(w) \/ RouteFailure(w)
      BY <2>3, JobParts DEF SkipLocked, CheckActive, RouteFailure, Goto
    <2>4. CASE Send(w)
      BY <2>4, JobParts DEF Send, Goto
    <2>5. CASE Upsert(w)
      <3>1. Key(w) \in Keys /\ Try(w) \in 1..MaxAttempt /\ result[w] \in {"sent", "failed"}
        BY <2>5, JobParts DEF Upsert, TypeInv, HasDelivery
      <3> QED BY <2>5, <3>1 DEF Upsert, Processed
    <2>6. CASE RefreshCounters(w)
      BY <2>6 DEF RefreshCounters
    <2>7. CASE FaultStep(w)
      BY <2>7, JobParts DEF FaultStep, ProceedUnlocked, ReleaseFails, DbError, Crash,
        ConnectionLost, LockOutlived
    <2> QED BY <1>2, <2>1, <2>2, <2>3, <2>4, <2>5, <2>6, <2>7 DEF WorkerStep, ProcessStep
  <1>3. CASE CampaignStep
    BY <1>3 DEF CampaignStep, StopCampaign, StartCampaign, CancelCampaign, SetStatus
  <1>4. CASE RetryStep
    <2>1. CASE ClaimFailedRows
      BY <2>1 DEF ClaimFailedRows, FailedRows
    <2>2. ASSUME NEW j \in Jobs, PublishRetry(j) PROVE RowsOK'
      BY <2>2 DEF PublishRetry
    <2>3. CASE RestoreRows
      BY <2>3 DEF RestoreRows, Processed
    <2>4. CASE PublishRetryFails \/ RestoreCounters \/ RetryCrash
      BY <2>4 DEF PublishRetryFails, RestoreCounters, RetryCrash
    <2> QED BY <1>4, <2>1, <2>2, <2>3, <2>4 DEF RetryStep
  <1>5. CASE (\E k \in Keys : OrphanExpires(k)) \/ UNCHANGED vars
    BY <1>5 DEF OrphanExpires, vars
  <1> QED BY <1>1, <1>2, <1>3, <1>4, <1>5 DEF Next

\* The queues: only a job that is there is taken out.
LEMMA QueuesStep == TypeInv /\ [Next]_vars => QueuesOK'
  <1> SUFFICES ASSUME TypeInv, RowsOK, QueuesOK, [Next]_vars PROVE QueuesOK'
    BY TypeInvParts
  <1> USE DEF QueuesOK, queues, retry
  <1>1. CASE JobStep
    <2>1. ASSUME NEW k \in Keys, DispatchJob(k) \/ Republish(k) PROVE QueuesOK'
      <3>1. <<k, 1>> \in Jobs
        BY DEF Jobs, Attempts
      <3> QED BY <2>1, <3>1, PutTakeType DEF DispatchJob, Republish
    <2>2. ASSUME NEW j \in Jobs, RetryDelayElapses(j) \/ JobLost(j) PROVE QueuesOK'
      BY <2>2, PutTakeType DEF RetryDelayElapses, JobLost
    <2> QED BY <1>1, <2>1, <2>2 DEF JobStep
  <1>2. ASSUME NEW w \in Workers, WorkerStep(w) PROVE QueuesOK'
    <2>1. ASSUME NEW j \in Jobs, Receive(w, j) PROVE QueuesOK'
      BY <2>1, PutTakeType DEF Receive
    <2>2. CASE AcquireLock(w) \/ SkipLocked(w) \/ CheckActive(w) \/ ShouldSend(w) \/ Send(w)
               \/ ReadRow(w) \/ Upsert(w) \/ Recount(w) \/ RefreshCounters(w) \/ Unlock(w)
      BY <2>2 DEF AcquireLock, SkipLocked, CheckActive, ShouldSend, Send, ReadRow, Upsert,
        Recount, RefreshCounters, Unlock
    <2>3. CASE RouteFailure(w)
      <3>1. HasRetry(w) => <<Key(w), Try(w) + 1>> \in Jobs
        BY <2>3, JobParts DEF RouteFailure, Goto, HasRetry, Jobs, Attempts
      <3> QED BY <2>3, <3>1, PutTakeType DEF RouteFailure
    <2>4. CASE Settle(w)
      BY <2>4, JobParts, PutTakeType DEF Settle
    <2>5. CASE FaultStep(w)
      <3>1. CASE ProceedUnlocked(w) \/ ReleaseFails(w) \/ DbError(w) \/ LockOutlived(w)
        BY <3>1 DEF ProceedUnlocked, ReleaseFails, DbError, LockOutlived
      <3>2. CASE Crash(w)
        BY <3>2, JobParts, PutTakeType DEF Crash
      <3>3. CASE ConnectionLost(w)
        BY <3>3, JobParts, PutTakeType DEF ConnectionLost, TypeInv, HasDelivery
      <3> QED BY <2>5, <3>1, <3>2, <3>3 DEF FaultStep
    <2> QED BY <1>2, <2>1, <2>2, <2>3, <2>4, <2>5 DEF WorkerStep, ProcessStep
  <1>3. CASE CampaignStep
    BY <1>3 DEF CampaignStep, StopCampaign, StartCampaign, CancelCampaign, SetStatus
  <1>4. CASE RetryStep
    <2>1. CASE ClaimFailedRows
      <3>1. \A k \in FailedRows : <<k, attempt[k] + 1>> \in Jobs
        BY <2>1 DEF ClaimFailedRows, FailedRows, RowsOK, Jobs, Attempts
      <3> QED BY <2>1, <3>1 DEF ClaimFailedRows
    <2>2. ASSUME NEW j \in Jobs, PublishRetry(j) PROVE QueuesOK'
      BY <2>2, PutTakeType DEF PublishRetry
    <2>3. CASE PublishRetryFails \/ RestoreRows \/ RestoreCounters \/ RetryCrash
      BY <2>3 DEF PublishRetryFails, RestoreRows, RestoreCounters, RetryCrash
    <2> QED BY <1>4, <2>1, <2>2, <2>3 DEF RetryStep
  <1>5. CASE (\E k \in Keys : OrphanExpires(k)) \/ UNCHANGED vars
    BY <1>5 DEF OrphanExpires, vars
  <1> QED BY <1>1, <1>2, <1>3, <1>4, <1>5 DEF Next

\* No counter is ever negative: what is taken from one is cut at zero.
LEMMA CountsStep == TypeInv /\ [Next]_vars => CountsOK'
  <1> SUFFICES ASSUME TypeInv, CountsOK, [Next]_vars PROVE CountsOK'
    BY TypeInvParts
  <1> USE DEF CountsOK, workers, local
  <1>1. CASE JobStep
    BY <1>1 DEF JobStep, DispatchJob, Republish, RetryDelayElapses, JobLost
  <1>2. ASSUME NEW w \in Workers, WorkerStep(w) PROVE CountsOK'
    <2>1. CASE RefreshCounters(w)
      BY <2>1, CountsAreNumbers DEF RefreshCounters
    <2>2. CASE Recount(w)
      BY <2>2, CountsAreNumbers DEF Recount
    <2>3. CASE Settle(w) \/ Crash(w)
      BY <2>3, CountsAreNumbers DEF Settle, Crash, NextDelivery
    <2> QED BY <1>2, <2>1, <2>2, <2>3 DEF WorkerStep, ProcessStep, FaultStep, Receive,
          AcquireLock, SkipLocked, CheckActive, ShouldSend, Send, ReadRow, Upsert,
          RouteFailure, Unlock, ProceedUnlocked, ReleaseFails, DbError, ConnectionLost,
          LockOutlived
  <1>3. CASE CampaignStep
    <2>1. CASE CancelCampaign
      <3> DEFINE one == [counts EXCEPT !.cancelled = Less(Total, counts.processed)]
      <3>1. one \in Counters
        BY CountsAreNumbers, LessIsNumber, CountersUpdate DEF Counters
      <3>2. counts' = [one EXCEPT !.processed = Total]
        BY <2>1, Zenon DEF CancelCampaign
      <3> HIDE DEF one
      <3>3. counts' \in Counters
        BY <3>1, <3>2, CountsAreNumbers, CountersUpdate
      <3> QED BY <2>1, <3>3 DEF CancelCampaign, SetStatus
    <2> QED BY <1>3, <2>1 DEF CampaignStep, StopCampaign, StartCampaign, SetStatus
  <1>4. CASE RetryStep
    <2>1. CASE ClaimFailedRows
      <3> DEFINE n   == Cardinality(FailedRows)
                 one == [counts EXCEPT !.processed = Less(counts.processed, n)]
      <3>1. one \in Counters /\ Less(counts.failed, n) \in Nat
        BY CountsAreNumbers, LessIsNumber, CountersUpdate DEF Counters
      <3>2. counts' = [one EXCEPT !.failed = Less(counts.failed, n)]
        BY <2>1, Zenon DEF ClaimFailedRows
      <3> HIDE DEF one
      <3>3. counts' \in Counters
        BY <3>1, <3>2, CountersUpdate
      <3> QED BY <2>1, <3>3 DEF ClaimFailedRows
    <2>2. CASE RestoreCounters
      <3> DEFINE n   == Cardinality(claimed)
                 one == [counts EXCEPT !.processed = counts.processed + n]
      <3>1. n \in Nat
        BY KeysAreCounted, TypeInvParts DEF RowsOK
      <3>2. one \in Counters /\ counts.failed + n \in Nat
        BY <3>1, CountersUpdate DEF Counters
      <3>3. counts' = [one EXCEPT !.failed = counts.failed + n]
        BY <2>2, Zenon DEF RestoreCounters
      <3> HIDE DEF one, n
      <3>4. counts' \in Counters
        BY <3>2, <3>3, CountersUpdate
      <3> QED BY <2>2, <3>4 DEF RestoreCounters
    <2> QED BY <1>4, <2>1, <2>2 DEF RetryStep, PublishRetry, PublishRetryFails, RestoreRows,
          RetryCrash
  <1>5. CASE (\E k \in Keys : OrphanExpires(k)) \/ UNCHANGED vars
    BY <1>5 DEF OrphanExpires, vars
  <1> QED BY <1>1, <1>2, <1>3, <1>4, <1>5 DEF Next

\* The workers: each step of one leaves the others where they are.
LEMMA WorkersStep == TypeInv /\ [Next]_vars => WorkersOK'
  <1> SUFFICES ASSUME TypeInv, WorkersOK, [Next]_vars PROVE WorkersOK'
    BY TypeInvParts
  <1> USE DEF WorkersOK, HasDelivery, workers, local
  <1>1. CASE JobStep
    BY <1>1 DEF JobStep, DispatchJob, Republish, RetryDelayElapses, JobLost
  <1>2. ASSUME NEW w \in Workers, WorkerStep(w) PROVE WorkersOK'
    <2>1. ASSUME NEW j \in Jobs, Receive(w, j) PROVE WorkersOK'
      BY <2>1 DEF Receive, Goto
    <2>2. CASE AcquireLock(w) \/ SkipLocked(w) \/ CheckActive(w) \/ ShouldSend(w)
               \/ ProceedUnlocked(w)
      BY <2>2 DEF AcquireLock, SkipLocked, CheckActive, ShouldSend, ProceedUnlocked, Goto
    <2>3. CASE Send(w)
      BY <2>3 DEF Send, Goto
    <2>4. CASE ReadRow(w) \/ Upsert(w)
      BY <2>4 DEF ReadRow, Upsert, Goto
    <2>5. CASE Recount(w) \/ RefreshCounters(w) \/ RouteFailure(w) \/ Unlock(w)
               \/ ReleaseFails(w)
      BY <2>5 DEF Recount, RefreshCounters, RouteFailure, Unlock, ReleaseFails, Goto
    <2>6. CASE DbError(w)
      BY <2>6 DEF DbError
    <2>7. CASE Settle(w) \/ Crash(w)
      BY <2>7 DEF Settle, Crash, NextDelivery
    <2>8. CASE ConnectionLost(w) \/ LockOutlived(w)
      BY <2>8 DEF ConnectionLost, LockOutlived
    <2> QED BY <1>2, <2>1, <2>2, <2>3, <2>4, <2>5, <2>6, <2>7, <2>8
          DEF WorkerStep, ProcessStep, FaultStep
  <1>3. CASE CampaignStep
    BY <1>3 DEF CampaignStep, StopCampaign, StartCampaign, CancelCampaign, SetStatus
  <1>4. CASE RetryStep
    BY <1>4 DEF RetryStep, ClaimFailedRows, PublishRetry, PublishRetryFails, RestoreRows,
      RestoreCounters, RetryCrash
  <1>5. CASE (\E k \in Keys : OrphanExpires(k)) \/ UNCHANGED vars
    BY <1>5 DEF OrphanExpires, vars
  <1> QED BY <1>1, <1>2, <1>3, <1>4, <1>5 DEF Next

\* The locks.
LEMMA LocksStep == TypeInv /\ [Next]_vars => LocksOK'
  <1> SUFFICES ASSUME LocksOK, [Next]_vars PROVE LocksOK'
    BY TypeInvParts
  <1> USE DEF LocksOK, locking
  <1>1. CASE JobStep
    BY <1>1 DEF JobStep, DispatchJob, Republish, RetryDelayElapses, JobLost
  <1>2. ASSUME NEW w \in Workers, WorkerStep(w) PROVE LocksOK'
    <2>1. CASE AcquireLock(w) \/ Unlock(w) \/ ProceedUnlocked(w)
      BY <2>1 DEF AcquireLock, Unlock, ProceedUnlocked
    <2>2. CASE ReleaseFails(w) \/ Crash(w) \/ LockOutlived(w)
      BY <2>2 DEF ReleaseFails, Crash, LockOutlived
    <2> QED BY <1>2, <2>1, <2>2 DEF WorkerStep, ProcessStep, FaultStep, Receive, SkipLocked,
          CheckActive, ShouldSend, Send, ReadRow, Upsert, Recount, RefreshCounters,
          RouteFailure, Settle, DbError, ConnectionLost
  <1>3. CASE CampaignStep
    BY <1>3 DEF CampaignStep, StopCampaign, StartCampaign, CancelCampaign, SetStatus
  <1>4. CASE RetryStep
    BY <1>4 DEF RetryStep, ClaimFailedRows, PublishRetry, PublishRetryFails, RestoreRows,
      RestoreCounters, RetryCrash
  <1>5. CASE (\E k \in Keys : OrphanExpires(k)) \/ UNCHANGED vars
    BY <1>5 DEF OrphanExpires, vars
  <1> QED BY <1>1, <1>2, <1>3, <1>4, <1>5 DEF Next

LEMMA TypeInvStep == TypeInv /\ [Next]_vars => TypeInv'
  <1>1. (TypeInv <=> RowsOK /\ QueuesOK /\ CountsOK /\ WorkersOK /\ LocksOK /\ FlagOK)'
    BY DEF TypeInv, TypeOK, RowsOK, QueuesOK, CountsOK, WorkersOK, LocksOK, FlagOK
  <1> QED BY <1>1, TypeInvParts, RowsStep, QueuesStep, CountsStep, WorkersStep, LocksStep,
        FlagStep

LEMMA TypeInvInit == Init => TypeInv
  <1> SUFFICES ASSUME Init PROVE TypeInv
    OBVIOUS
  <1> USE DEF Init
  <1>1. RowsOK
    BY DEF RowsOK, NoRowNoAttempt
  <1>2. QueuesOK
    BY DEF QueuesOK
  <1>3. CountsOK
    BY CountsAreNumbers DEF CountsOK
  <1>4. WorkersOK
    BY DEF WorkersOK, HasDelivery
  <1>5. LocksOK
    BY DEF LocksOK
  <1>6. FlagOK
    BY DEF FlagOK
  <1> QED BY <1>1, <1>2, <1>3, <1>4, <1>5, <1>6, TypeInvParts

-----------------------------------------------------------------------------
(* The lock *)

\* Steps that neither take nor give back a lock, and neither start nor end
\* processing.
LockQuiet ==
    /\ UNCHANGED <<lock, unlocked>>
    /\ \A w \in Workers : /\ Processing(w)' <=> Processing(w)
                          /\ Processing(w) => job'[w] = job[w]

\* The steps that are not: the lock protocol and its faults.
LockStep(w) ==
    \/ AcquireLock(w) \/ ProceedUnlocked(w) \/ Unlock(w) \/ ReleaseFails(w) \/ Crash(w)
    \/ LockOutlived(w)

\* Every step is quiet in this sense, or is one of the lock protocol.
LEMMA StepIsLockQuiet ==
    ASSUME TypeInv, [Next]_vars
    PROVE  \/ LockQuiet
           \/ \E w \in Workers : LockStep(w)
           \/ \E k \in Keys : OrphanExpires(k)
  <1> USE DEF workers, local, locking
  <1>0. WorkersOK
    BY TypeInvParts
  <1>1. ASSUME UNCHANGED <<lock, unlocked, pc, job>> PROVE LockQuiet
    BY <1>1 DEF LockQuiet, Processing
  <1>2. ASSUME JobStep PROVE LockQuiet
    BY <1>1, <1>2 DEF JobStep, DispatchJob, Republish, RetryDelayElapses, JobLost
  <1>3. ASSUME NEW w \in Workers, WorkerStep(w) PROVE LockQuiet \/ LockStep(w)
    <2>1. ASSUME NEW j \in Jobs, Receive(w, j) PROVE LockQuiet
      BY <1>0, <2>1 DEF Receive, Goto, LockQuiet, Processing, WorkersOK
    <2>2. CASE SkipLocked(w)
      BY <1>0, <2>2 DEF SkipLocked, Goto, LockQuiet, Processing, WorkersOK
    <2>3. CASE CheckActive(w) \/ ShouldSend(w) \/ Send(w) \/ ReadRow(w) \/ Upsert(w)
               \/ Recount(w) \/ RefreshCounters(w) \/ RouteFailure(w) \/ DbError(w)
      <3>1. UNCHANGED <<lock, unlocked, job>>
        BY <2>3 DEF CheckActive, ShouldSend, Send, ReadRow, Upsert, Recount,
          RefreshCounters, RouteFailure, DbError
      <3>2. \E there \in {"check", "unlock", "send", "read", "upsert", "route", "count",
                          "refresh"} : pc' = [pc EXCEPT ![w] = there]
        BY <2>3 DEF CheckActive, ShouldSend, Send, ReadRow, Upsert, Recount,
          RefreshCounters, RouteFailure, DbError, Goto
      <3>3. Processing(w)
        BY <2>3 DEF CheckActive, ShouldSend, Send, ReadRow, Upsert, Recount,
          RefreshCounters, RouteFailure, DbError, Goto, Processing
      <3> QED BY <1>0, <3>1, <3>2, <3>3 DEF LockQuiet, Processing, WorkersOK
    <2>4. CASE Settle(w)
      BY <1>0, <2>4 DEF Settle, NextDelivery, LockQuiet, Processing, WorkersOK
    <2>5. CASE ConnectionLost(w)
      BY <1>1, <2>5 DEF ConnectionLost
    <2> QED BY <1>3, <2>1, <2>2, <2>3, <2>4, <2>5 DEF WorkerStep, ProcessStep, FaultStep, LockStep
  <1>4. ASSUME CampaignStep PROVE LockQuiet
    BY <1>1, <1>4 DEF CampaignStep, StopCampaign, StartCampaign, CancelCampaign, SetStatus
  <1>5. ASSUME RetryStep PROVE LockQuiet
    BY <1>1, <1>5 DEF RetryStep, ClaimFailedRows, PublishRetry, PublishRetryFails,
      RestoreRows, RestoreCounters, RetryCrash
  <1>6. ASSUME UNCHANGED vars PROVE LockQuiet
    BY <1>1, <1>6 DEF vars
  <1> QED BY <1>2, <1>3, <1>4, <1>5, <1>6 DEF Next

\* Only its owner gives a lock back, so whoever processes keeps his.
LEMMA LockHeldStep == TypeInv /\ LockHeld /\ [Next]_vars => LockHeld'
  <1> SUFFICES ASSUME TypeInv, LockHeld, [Next]_vars PROVE LockHeld'
    OBVIOUS
  <1>0. WorkersOK /\ LocksOK
    BY TypeInvParts
  <1>1. CASE LockQuiet
    BY <1>1 DEF LockQuiet, LockHeld, Key
  <1>2. ASSUME NEW k \in Keys, OrphanExpires(k) PROVE LockHeld'
    <2>1. UNCHANGED <<pc, job, unlocked>> /\ lock[k] = "orphan"
          /\ lock' = [lock EXCEPT ![k] = "none"]
      BY <1>2 DEF OrphanExpires, workers, local
    <2>2. \A v \in Workers : lock[Key(v)] = v => lock'[Key(v)] = v
      BY <1>0, <2>1 DEF LocksOK
    <2> QED BY <2>1, <2>2 DEF LockHeld, Processing, Key
  <1>3. ASSUME NEW w \in Workers, LockStep(w) PROVE LockHeld'
    <2>1. ASSUME NEW v \in Workers \ {w}, Processing(v)'
          PROVE  Processing(v) /\ Key(v)' = Key(v) /\ (v \in unlocked => v \in unlocked')
      BY <1>0, <1>3, <2>1 DEF LockStep, AcquireLock, ProceedUnlocked, Unlock, ReleaseFails,
        Crash, LockOutlived, NextDelivery, Goto, Processing, Key, WorkersOK, workers, local
    <2>2. ASSUME NEW v \in Workers \ {w}, Processing(v), lock[Key(v)] = v
          PROVE  lock'[Key(v)] = v
      <3>1. Key(v) \in Keys /\ v # "none" /\ v # "orphan"
        BY <2>2, JobParts DEF Processing
      <3> QED BY <1>0, <1>3, <2>2, <3>1 DEF LockStep, AcquireLock, ProceedUnlocked, Unlock,
            ReleaseFails, Crash, LockOutlived, LocksOK
    <2>3. Processing(w)' => lock'[Key(w)'] = w \/ w \in unlocked'
      <3>1. CASE AcquireLock(w)
        <4>1. Key(w) \in Keys /\ Key(w)' = Key(w)
          BY <3>1, JobParts DEF AcquireLock, Goto, Key, local
        <4> QED BY <1>0, <3>1, <4>1 DEF AcquireLock, LocksOK
      <3>2. CASE ProceedUnlocked(w) \/ LockOutlived(w)
        BY <3>2 DEF ProceedUnlocked, LockOutlived
      <3>3. CASE Unlock(w) \/ ReleaseFails(w) \/ Crash(w)
        BY <1>0, <3>3 DEF Unlock, ReleaseFails, Crash, Goto, NextDelivery, Processing, WorkersOK
      <3> QED BY <1>3, <3>1, <3>2, <3>3 DEF LockStep
    <2> QED BY <2>1, <2>2, <2>3 DEF LockHeld
  <1> QED BY <1>1, <1>2, <1>3, StepIsLockQuiet

\* A lock is taken at the beginning of the processing and given back at its end.
LEMMA OwnersProcessStep ==
    TypeInv /\ OwnersProcess /\ [Next]_vars => OwnersProcess'
  <1> SUFFICES ASSUME TypeInv, OwnersProcess, [Next]_vars PROVE OwnersProcess'
    OBVIOUS
  <1>0. WorkersOK /\ LocksOK
    BY TypeInvParts
  <1>1. CASE LockQuiet
    BY <1>1 DEF LockQuiet, OwnersProcess, Key
  <1>2. ASSUME NEW k \in Keys, OrphanExpires(k) PROVE OwnersProcess'
    BY <1>0, <1>2 DEF OrphanExpires, OwnersProcess, Processing, Key, LocksOK, workers, local
  <1>3. ASSUME NEW w \in Workers, LockStep(w) PROVE OwnersProcess'
    <2> SUFFICES ASSUME NEW v \in Workers
                 PROVE  /\ v \in unlocked' => Processing(v)'
                        /\ \A k \in Keys : lock'[k] = v =>
                             Processing(v)' /\ Key(v)' = k /\ v \notin unlocked'
      BY Zenon DEF OwnersProcess
    <2> USE DEF OwnersProcess, Processing, Key, local, workers
    <2>1. CASE AcquireLock(w) \/ ProceedUnlocked(w)
      BY <1>0, <2>1 DEF AcquireLock, ProceedUnlocked, Goto, WorkersOK, LocksOK
    <2>2. CASE Unlock(w) \/ ReleaseFails(w)
      BY <1>0, <2>2, JobParts DEF Unlock, ReleaseFails, Goto, WorkersOK, LocksOK
    <2>3. CASE Crash(w)
      BY <1>0, <2>3 DEF Crash, NextDelivery, WorkersOK, LocksOK
    <2>4. CASE LockOutlived(w)
      BY <1>0, <2>4, JobParts DEF LockOutlived, WorkersOK, LocksOK
    <2> QED BY <1>3, <2>1, <2>2, <2>3, <2>4 DEF LockStep
  <1> QED BY <1>1, <1>2, <1>3, StepIsLockQuiet

\* It follows that nobody processes what another processes under his lock.
LEMMA LockExcludes == TypeInv /\ LockHeld => ProcessedByOne
  BY DEF LockHeld, ProcessedByOne

-----------------------------------------------------------------------------
(* Attempts *)

\* Steps that change no attempt and start no sending.
AttemptQuiet ==
    /\ attempt' = attempt
    /\ \A w \in Workers : Sending(w)' => Sending(w) /\ job'[w] = job[w]

\* Every step is quiet in this sense, or is a worker's check or upsert.
LEMMA StepIsAttemptQuiet ==
    ASSUME TypeInv, [Next]_vars
    PROVE  AttemptQuiet \/ \E w \in Workers : ShouldSend(w) \/ Upsert(w)
  <1> USE DEF workers, local, rows
  <1>0. WorkersOK
    BY TypeInvParts
  <1>1. ASSUME UNCHANGED <<attempt, pc, job>> PROVE AttemptQuiet
    BY <1>1 DEF AttemptQuiet, Sending
  <1>2. ASSUME JobStep PROVE AttemptQuiet
    BY <1>1, <1>2 DEF JobStep, DispatchJob, Republish, RetryDelayElapses, JobLost
  <1>3. ASSUME NEW w \in Workers, WorkerStep(w)
        PROVE  AttemptQuiet \/ ShouldSend(w) \/ Upsert(w)
    <2>1. ASSUME NEW j \in Jobs, Receive(w, j) PROVE AttemptQuiet
      BY <1>0, <2>1 DEF Receive, Goto, AttemptQuiet, Sending, WorkersOK
    <2>2. CASE Send(w) \/ ReadRow(w)
      <3>1. UNCHANGED <<attempt, job>> /\ Sending(w)
            /\ \A v \in Workers \ {w} : pc'[v] = pc[v]
        BY <1>0, <2>2 DEF Send, ReadRow, Goto, Sending, WorkersOK
      <3> QED BY <3>1 DEF AttemptQuiet, Sending
    <2>3. CASE \/ AcquireLock(w) \/ SkipLocked(w) \/ CheckActive(w) \/ Recount(w)
               \/ RefreshCounters(w) \/ RouteFailure(w) \/ Unlock(w) \/ ProceedUnlocked(w)
               \/ ReleaseFails(w) \/ DbError(w)
      <3>1. UNCHANGED <<attempt, job>>
        BY <2>3 DEF AcquireLock, SkipLocked, CheckActive, Recount, RefreshCounters,
          RouteFailure, Unlock, ProceedUnlocked, ReleaseFails, DbError
      <3>2. \E there \in {"settle", "active", "check", "unlock", "route", "refresh"} :
              pc' = [pc EXCEPT ![w] = there]
        BY <2>3 DEF AcquireLock, SkipLocked, CheckActive, Recount, RefreshCounters,
          RouteFailure, Unlock, ProceedUnlocked, ReleaseFails, DbError, Goto
      <3> QED BY <1>0, <3>1, <3>2 DEF AttemptQuiet, Sending, WorkersOK
    <2>4. CASE Settle(w) \/ Crash(w)
      BY <1>0, <2>4 DEF Settle, Crash, NextDelivery, AttemptQuiet, Sending, WorkersOK
    <2>5. CASE ConnectionLost(w) \/ LockOutlived(w)
      BY <1>1, <2>5 DEF ConnectionLost, LockOutlived
    <2> QED BY <1>3, <2>1, <2>2, <2>3, <2>4, <2>5 DEF WorkerStep, ProcessStep, FaultStep
  <1>4. ASSUME CampaignStep PROVE AttemptQuiet
    BY <1>1, <1>4 DEF CampaignStep, StopCampaign, StartCampaign, CancelCampaign, SetStatus
  <1>5. ASSUME RetryStep PROVE AttemptQuiet
    BY <1>1, <1>5 DEF RetryStep, ClaimFailedRows, PublishRetry, PublishRetryFails,
      RestoreRows, RestoreCounters, RetryCrash
  <1>6. ASSUME (\E k \in Keys : OrphanExpires(k)) \/ UNCHANGED vars PROVE AttemptQuiet
    BY <1>1, <1>6 DEF OrphanExpires, vars
  <1> QED BY <1>2, <1>3, <1>4, <1>5, <1>6 DEF Next

\* Whoever runs without the lock is remembered.
LEMMA UnlockedStep ==
    ASSUME [Next]_vars
    PROVE  /\ everUnlocked => everUnlocked'
           /\ unlocked' \subseteq unlocked \/ everUnlocked'
  <1> USE DEF locking
  <1> SUFFICES \/ everUnlocked' = everUnlocked /\ unlocked' \subseteq unlocked
               \/ everUnlocked' = TRUE
    OBVIOUS
  <1>1. CASE JobStep
    BY <1>1 DEF JobStep, DispatchJob, Republish, RetryDelayElapses, JobLost
  <1>2. ASSUME NEW w \in Workers, WorkerStep(w)
        PROVE  \/ everUnlocked' = everUnlocked /\ unlocked' \subseteq unlocked
               \/ everUnlocked' = TRUE
    BY <1>2 DEF WorkerStep, ProcessStep, FaultStep, Receive, AcquireLock, SkipLocked,
      CheckActive, ShouldSend, Send, ReadRow, Upsert, Recount, RefreshCounters,
      RouteFailure, Unlock, Settle, ProceedUnlocked, ReleaseFails, DbError, Crash,
      ConnectionLost, LockOutlived
  <1>3. CASE CampaignStep
    BY <1>3 DEF CampaignStep, StopCampaign, StartCampaign, CancelCampaign, SetStatus
  <1>4. CASE RetryStep
    BY <1>4 DEF RetryStep, ClaimFailedRows, PublishRetry, PublishRetryFails, RestoreRows,
      RestoreCounters, RetryCrash
  <1>5. CASE (\E k \in Keys : OrphanExpires(k)) \/ UNCHANGED vars
    BY <1>5 DEF OrphanExpires, vars
  <1> QED BY <1>1, <1>2, <1>3, <1>4, <1>5 DEF Next

\* What is sent stays newer than the row: only the owner of the lock writes it.
LEMMA SendsNewerStep == IInv /\ [Next]_vars => SendsNewer'
  <1> SUFFICES ASSUME IInv, [Next]_vars PROVE SendsNewer'
    OBVIOUS
  <1>0. TypeInv /\ LockHeld /\ SendsNewer /\ WorkersOK /\ RowsOK /\ ProcessedByOne
    BY TypeInvParts, LockExcludes DEF IInv
  <1>1. (unlocked # {} => everUnlocked)'
    <2>1. unlocked' # {} /\ unlocked' \subseteq unlocked => everUnlocked
      BY <1>0 DEF SendsNewer
    <2> QED BY <2>1, UnlockedStep
  <1>2. SUFFICES ASSUME ~everUnlocked', ~everUnlocked,
                        NEW v \in Workers, Sending(v)'
                 PROVE  Try(v)' > attempt'[Key(v)']
    BY <1>1, UnlockedStep, Zenon DEF SendsNewer, Key
  <1>3. /\ unlocked = {}
        /\ \A w \in Workers : Sending(w) => Try(w) > attempt[Key(w)]
    BY <1>0, <1>2 DEF SendsNewer
  <1>4. CASE AttemptQuiet
    BY <1>2, <1>3, <1>4 DEF AttemptQuiet, Key, Try
  <1>5. ASSUME NEW w \in Workers, ShouldSend(w) PROVE Try(v)' > attempt'[Key(v)']
    <2>1. UNCHANGED <<attempt, job>> /\ pc[w] = "check"
          /\ pc' = [pc EXCEPT ![w] = IF CanSend(Key(w), Try(w)) THEN "send" ELSE "unlock"]
      BY <1>5 DEF ShouldSend, Goto, rows, local
    <2>2. CASE v = w
      <3>1. CanSend(Key(w), Try(w))
        BY <1>0, <1>2, <2>1, <2>2 DEF Sending, WorkersOK
      <3>2. Key(w) \in Keys /\ Try(w) \in 1..MaxAttempt
        BY <1>0, <2>1, JobParts
      <3>3. Try(w) > attempt[Key(w)]
        BY <1>0, <3>1, <3>2 DEF CanSend, RowsOK, NoRowNoAttempt
      <3> QED BY <2>1, <2>2, <3>3 DEF Key, Try
    <2>3. CASE v # w
      <3>1. Sending(v)
        BY <1>0, <1>2, <2>1, <2>3 DEF Sending, WorkersOK
      <3> QED BY <1>3, <2>1, <3>1 DEF Key, Try
    <2> QED BY <2>2, <2>3
  <1>6. ASSUME NEW w \in Workers, Upsert(w) PROVE Try(v)' > attempt'[Key(v)']
    <2>1. /\ pc[w] = "upsert" /\ job' = job
          /\ \E there \in {"count", "route"} : pc' = [pc EXCEPT ![w] = there]
          /\ attempt' = attempt \/ attempt' = [attempt EXCEPT ![Key(w)] = Try(w)]
      BY <1>6 DEF Upsert, rows, local
    <2>2. v # w /\ Sending(v)
      BY <1>0, <1>2, <2>1 DEF Sending, WorkersOK
    <2>3. Key(v) # Key(w)
      BY <1>0, <1>3, <2>1, <2>2 DEF ProcessedByOne, Processing, Sending
    <2>4. Key(v) \in Keys
      BY <1>0, <2>2, JobParts DEF Sending
    <2>5. attempt'[Key(v)] = attempt[Key(v)]
      BY <1>0, <2>1, <2>3, <2>4 DEF RowsOK
    <2> QED BY <1>3, <2>1, <2>2, <2>5 DEF Key, Try
  <1> QED BY <1>0, <1>4, <1>5, <1>6, StepIsAttemptQuiet

\* The invariant holds at first and is kept by every step.
LEMMA IInvInit == Init => IInv
  BY TypeInvInit DEF Init, IInv, LockHeld, OwnersProcess, SendsNewer, Processing, Sending

LEMMA IInvStep == IInv /\ [Next]_vars => IInv'
  BY TypeInvStep, LockHeldStep, OwnersProcessStep, SendsNewerStep DEF IInv

LEMMA Inductive == Spec => []IInv
  BY IInvInit, IInvStep, PTL DEF Spec

\* As long as nobody ran without the lock, no step takes an attempt back.
LEMMA AttemptStep ==
    ASSUME IInv, [Next]_vars, NEW k \in Keys, ~everUnlocked
    PROVE  attempt'[k] >= attempt[k]
  <1>0. TypeInv /\ SendsNewer /\ attempt \in [Keys -> 0..MaxAttempt]
    BY TypeInvParts DEF IInv, RowsOK
  <1>1. CASE attempt' = attempt
    BY <1>0, <1>1
  <1>2. ASSUME NEW w \in Workers, ShouldSend(w) PROVE attempt' = attempt
    BY <1>2 DEF ShouldSend, rows
  <1>3. ASSUME NEW w \in Workers, Upsert(w) PROVE attempt'[k] >= attempt[k]
    <2>1. Key(w) \in Keys /\ Try(w) \in Nat /\ Try(w) > attempt[Key(w)]
      BY <1>0, <1>3, JobParts DEF Upsert, SendsNewer, Sending
    <2>2. attempt' = attempt \/ attempt' = [attempt EXCEPT ![Key(w)] = Try(w)]
      BY <1>3 DEF Upsert, rows
    <2> QED BY <1>0, <2>1, <2>2
  <1> QED BY <1>0, <1>1, <1>2, <1>3, StepIsAttemptQuiet DEF AttemptQuiet

-----------------------------------------------------------------------------
(* Sends *)

\* What is a worker's own.
Untouched(w) ==
    /\ pc'[w] = pc[w] /\ job'[w] = job[w] /\ result'[w] = result[w]
    /\ w \in holders' <=> w \in holders
    /\ w \in failing' <=> w \in failing
    /\ w \in unlocked' <=> w \in unlocked

\* At most one worker steps; the steps of the others write no row and call no
\* provider.
LEMMA OneWorkerSteps ==
    ASSUME TypeInv, [Next]_vars
    PROVE  \/ \E w \in Workers : WorkerStep(w) /\ \A v \in Workers \ {w} : Untouched(v)
           \/ UNCHANGED <<delivered, attempt>> /\ \A v \in Workers : Untouched(v)
  <1> DEFINE Quiet == UNCHANGED <<delivered, attempt>> /\ \A v \in Workers : Untouched(v)
  <1> USE DEF workers, local, locking, rows
  <1>0. WorkersOK
    BY TypeInvParts
  <1>1. ASSUME UNCHANGED <<delivered, attempt, pc, job, result, holders, failing, unlocked>>
        PROVE  Quiet
    BY <1>1 DEF Untouched
  <1>2. ASSUME JobStep PROVE Quiet
    BY <1>1, <1>2 DEF JobStep, DispatchJob, Republish, RetryDelayElapses, JobLost
  <1>3. ASSUME NEW w \in Workers, WorkerStep(w), NEW v \in Workers \ {w} PROVE Untouched(v)
    <2>1. ASSUME NEW j \in Jobs, Receive(w, j) PROVE Untouched(v)
      BY <1>0, <2>1 DEF Receive, Goto, Untouched, WorkersOK
    <2>2. CASE AcquireLock(w) \/ SkipLocked(w) \/ CheckActive(w) \/ ShouldSend(w) \/ Send(w)
      BY <1>0, <2>2 DEF AcquireLock, SkipLocked, CheckActive, ShouldSend, Send, Goto,
        Untouched, WorkersOK
    <2>3. CASE ReadRow(w) \/ Upsert(w) \/ Recount(w) \/ RefreshCounters(w)
               \/ RouteFailure(w) \/ Unlock(w)
      BY <1>0, <2>3 DEF ReadRow, Upsert, Recount, RefreshCounters, RouteFailure, Unlock, Goto,
        Untouched, WorkersOK
    <2>4. CASE Settle(w) \/ Crash(w)
      BY <1>0, <2>4 DEF Settle, Crash, NextDelivery, Untouched, WorkersOK
    <2>5. CASE ProceedUnlocked(w) \/ ReleaseFails(w) \/ DbError(w) \/ ConnectionLost(w)
               \/ LockOutlived(w)
      BY <1>0, <2>5 DEF ProceedUnlocked, ReleaseFails, DbError, ConnectionLost, LockOutlived,
        Goto, Untouched, WorkersOK
    <2> QED BY <1>3, <2>1, <2>2, <2>3, <2>4, <2>5 DEF WorkerStep, ProcessStep, FaultStep
  <1>4. ASSUME CampaignStep PROVE Quiet
    BY <1>1, <1>4 DEF CampaignStep, StopCampaign, StartCampaign, CancelCampaign, SetStatus
  <1>5. ASSUME RetryStep PROVE Quiet
    BY <1>1, <1>5 DEF RetryStep, ClaimFailedRows, PublishRetry, PublishRetryFails,
      RestoreRows, RestoreCounters, RetryCrash
  <1>6. ASSUME (\E k \in Keys : OrphanExpires(k)) \/ UNCHANGED vars PROVE Quiet
    BY <1>1, <1>6 DEF OrphanExpires, vars
  <1> HIDE DEF Quiet
  <1>7. Quiet \/ \E w \in Workers : WorkerStep(w)
    BY <1>2, <1>4, <1>5, <1>6 DEF Next
  <1> QED BY <1>3, <1>7 DEF Quiet

\* What is a worker's own changes only by a step of that worker.
LEMMA StepIsLocal ==
    ASSUME TypeInv, [Next]_vars, NEW w \in Workers
    PROVE  Untouched(w) \/ WorkerStep(w)
  BY OneWorkerSteps

\* Nothing changes a row that was sent or cancelled.
LEMMA TerminalStep ==
    ASSUME TypeInv, [Next]_vars, NEW k \in Keys, row[k] \in {"sent", "cancelled"}
    PROVE  row'[k] = row[k]
  <1> USE DEF rows
  <1>0. row \in [Keys -> {"none", "queued"} \union Processed]
    BY TypeInvParts DEF RowsOK
  <1>1. CASE JobStep
    BY <1>1 DEF JobStep, DispatchJob, Republish, RetryDelayElapses, JobLost
  <1>2. ASSUME NEW w \in Workers, WorkerStep(w) PROVE row'[k] = row[k]
    <2>1. CASE Upsert(w)
      BY <1>0, <2>1 DEF Upsert, MayOverwrite, CanApply
    <2> QED BY <1>2, <2>1 DEF WorkerStep, ProcessStep, FaultStep, Receive, AcquireLock,
          SkipLocked, CheckActive, ShouldSend, Send, ReadRow, Recount, RefreshCounters,
          RouteFailure, Unlock, Settle, ProceedUnlocked, ReleaseFails, DbError, Crash,
          ConnectionLost, LockOutlived
  <1>3. CASE CampaignStep
    BY <1>3 DEF CampaignStep, StopCampaign, StartCampaign, CancelCampaign, SetStatus
  <1>4. CASE RetryStep
    BY <1>4 DEF RetryStep, ClaimFailedRows, FailedRows, PublishRetry, PublishRetryFails,
      RestoreRows, RestoreCounters, RetryCrash
  <1>5. CASE (\E o \in Keys : OrphanExpires(o)) \/ UNCHANGED vars
    BY <1>5 DEF OrphanExpires, vars
  <1> QED BY <1>1, <1>2, <1>3, <1>4, <1>5 DEF Next

-----------------------------------------------------------------------------
(* The account of sends *)

\* Each fault allows one send too many. It is spent when a worker that runs
\* without the lock writes what the provider answered, or when the answer of a
\* worker that has the lock is not written; until then it is accounted for by
\* the sets below. Workers that are calling the provider:
IsSender(w, k) == pc[w] = "send" /\ Key(w) = k

\* ... that run without the lock and may yet spoil another's send,
IsSpare(w, k) ==
    /\ w \in unlocked /\ Key(w) = k
    /\ \/ pc[w] \in {"active", "check", "send"}
       \/ pc[w] \in {"read", "upsert"} /\ result[w] = "failed"

\* ... that have the lock and are calling the provider in vain: the row already
\* has their attempt or a later one,
IsStale(w, k) ==
    w \notin unlocked /\ pc[w] = "send" /\ Key(w) = k /\ Try(w) <= attempt[k]

\* ... and that have the lock and a success to write.
IsSuccess(w, k) ==
    /\ w \notin unlocked /\ Key(w) = k
    /\ pc[w] \in {"read", "upsert"} /\ result[w] = "sent" /\ Try(w) > attempt[k]

Senders(k)   == {w \in Workers : IsSender(w, k)}
Spares(k)    == {w \in Workers : IsSpare(w, k)}
Stales(k)    == {w \in Workers : IsStale(w, k)}
Successes(k) == {w \in Workers : IsSuccess(w, k)}

Terminal(k) == row[k] \in {"sent", "cancelled"}

\* As long as the row is open, every success is about to be written or was paid
\* for; once it is closed no sender joins those that are left.
SendsPaid(k) ==
    IF Terminal(k) THEN delivered[k] + Cardinality(Senders(k)) <= 1 + faults
    ELSE delivered[k] + Cardinality(Spares(k)) + Cardinality(Stales(k))
           <= faults + Cardinality(Successes(k))

\* Every set of workers is finite.
LEMMA WorkersAreCounted ==
    ASSUME NEW S \in SUBSET Workers
    PROVE  IsFiniteSet(S) /\ Cardinality(S) \in Nat
  BY FS_Subset, FS_CardinalityType

\* A part of a set of workers has no more of them.
LEMMA FewerWorkers ==
    ASSUME NEW T \in SUBSET Workers, NEW S \in SUBSET T
    PROVE  Cardinality(S) <= Cardinality(T)
  BY WorkersAreCounted, FS_Subset

\* A set that one worker joins grows by one at most.
LEMMA OneWorkerMore ==
    ASSUME NEW T \in SUBSET Workers, NEW w \in Workers, NEW S \in SUBSET Workers,
           S \subseteq T \union {w}
    PROVE  Cardinality(S) <= Cardinality(T) + 1
  <1>1. IsFiniteSet(T) /\ Cardinality(T \union {w}) \in {Cardinality(T), Cardinality(T) + 1}
    BY WorkersAreCounted, FS_AddElement
  <1>2. Cardinality(S) <= Cardinality(T \union {w})
    BY FewerWorkers
  <1> QED BY <1>1, <1>2, WorkersAreCounted

\* A set that a worker leaves shrinks by one at least.
LEMMA OneWorkerLess ==
    ASSUME NEW T \in SUBSET Workers, NEW w \in T, NEW S \in SUBSET (T \ {w})
    PROVE  Cardinality(S) + 1 <= Cardinality(T)
  <1>1. Cardinality(T \ {w}) = Cardinality(T) - 1
    BY WorkersAreCounted, FS_RemoveElement
  <1>2. Cardinality(S) <= Cardinality(T \ {w})
    BY FewerWorkers
  <1> QED BY <1>1, <1>2, WorkersAreCounted

\* At most one worker processes a delivery under its lock.
LEMMA OneHasLock ==
    ASSUME TypeInv, LockHeld, NEW v \in Workers \ unlocked, NEW w \in Workers \ unlocked,
           Processing(v), Processing(w), Key(v) = Key(w)
    PROVE  v = w
  BY LockExcludes DEF ProcessedByOne

\* Disjoint sets without two different workers have one worker at most.
LEMMA AtMostOne ==
    ASSUME NEW S \in SUBSET Workers, NEW T \in SUBSET Workers,
           \A v, w \in S \union T : v = w, S \cap T = {}
    PROVE  Cardinality(S) + Cardinality(T) <= 1
  <1>1. CASE S \union T = {}
    <2>1. S = {} /\ T = {}
      BY <1>1
    <2> QED BY <2>1, FS_EmptySet
  <1>2. ASSUME NEW w \in S \union T PROVE Cardinality(S) + Cardinality(T) <= 1
    <2>1. (S = {w} /\ T = {}) \/ (S = {} /\ T = {w})
      BY <1>2
    <2>2. Cardinality({w}) = 1 /\ Cardinality({}) = 0
      BY FS_Singleton, FS_EmptySet
    <2> QED BY <2>1, <2>2
  <1> QED BY <1>1, <1>2

\* What is paid bounds the sends.
LEMMA PaidIsBounded ==
    ASSUME TypeInv, LockHeld, NEW k \in Keys, SendsPaid(k)
    PROVE  delivered[k] + Cardinality(Senders(k)) <= 1 + faults
  <1>0. delivered[k] \in Nat /\ faults \in Nat
    BY TypeInvParts DEF RowsOK
  <1>1. CASE Terminal(k)
    BY <1>1 DEF SendsPaid
  <1>2. CASE ~Terminal(k)
    <2> DEFINE locked == Senders(k) \ unlocked
               a == Cardinality(Senders(k))
               b == Cardinality(Spares(k))
               c == Cardinality(Stales(k))
               d == Cardinality(Successes(k))
               e == Cardinality(locked)
    <2>1. Senders(k) \subseteq Spares(k) \union locked
      BY DEF Senders, Spares, IsSender, IsSpare
    <2>2. \A v, w \in locked \union Successes(k) : v = w
      BY OneHasLock DEF Senders, Successes, IsSender, IsSuccess, Processing
    <2>3. locked \cap Successes(k) = {}
      BY DEF Senders, Successes, IsSender, IsSuccess
    <2>4. e + d <= 1
      BY <2>2, <2>3, AtMostOne DEF Senders, Successes
    <2>5. a \in Nat /\ b \in Nat /\ c \in Nat /\ d \in Nat /\ e \in Nat
      BY WorkersAreCounted DEF Senders, Spares, Stales, Successes
    <2>6. a <= b + e
      <3>1. CASE locked = {}
        <4>1. a <= b
          BY <2>1, <3>1, FewerWorkers DEF Spares
        <4> QED BY <2>5, <4>1
      <3>2. ASSUME NEW w \in locked PROVE a <= b + e
        <4>1. locked = {w} /\ w \in Workers
          BY <2>2, <3>2 DEF Senders
        <4>2. a <= b + 1
          BY <2>1, <4>1, OneWorkerMore DEF Spares, Senders
        <4>3. e = 1
          BY <4>1, FS_Singleton
        <4> QED BY <4>2, <4>3
      <3> QED BY <3>1, <3>2
    <2>7. delivered[k] + b + c <= faults + d
      BY <1>2 DEF SendsPaid
    <2> HIDE DEF a, b, c, d, e
    <2>8. delivered[k] + a <= 1 + faults
      BY <1>0, <2>4, <2>5, <2>6, <2>7
    <2> QED BY <2>8 DEF a
  <1> QED BY <1>1, <1>2

\* A step of a worker with an open delivery adds to neither side, or is a fault,
\* or is a success that the worker was charged for.
LEMMA SendAccount ==
    ASSUME TypeInv, OwnersProcess, NEW k \in Keys, NEW w \in Workers, WorkerStep(w),
           attempt'[k] = attempt[k], ~Terminal(k), ~Terminal(k)'
    PROVE  \/ /\ delivered'[k] = delivered[k] /\ faults' >= faults
              /\ IsSpare(w, k)' => IsSpare(w, k)
              /\ IsStale(w, k)' => IsStale(w, k)
              /\ IsSuccess(w, k) => IsSuccess(w, k)'
           \/ /\ delivered'[k] = delivered[k] /\ faults' = faults + 1
              /\ ~(IsSpare(w, k)' /\ IsSuccess(w, k))
              /\ IsStale(w, k)' => IsStale(w, k)
           \/ /\ delivered'[k] = delivered[k] + 1 /\ faults' = faults
              /\ ~IsSpare(w, k)' /\ ~IsStale(w, k)' /\ ~IsSuccess(w, k)
              /\ IsSpare(w, k) \/ IsStale(w, k) \/ IsSuccess(w, k)'
  <1> DEFINE Quiet == /\ delivered'[k] = delivered[k] /\ faults' >= faults
                      /\ IsSpare(w, k)' => IsSpare(w, k)
                      /\ IsStale(w, k)' => IsStale(w, k)
                      /\ IsSuccess(w, k) => IsSuccess(w, k)'
             Faulty == /\ delivered'[k] = delivered[k] /\ faults' = faults + 1
                       /\ ~(IsSpare(w, k)' /\ IsSuccess(w, k))
                       /\ IsStale(w, k)' => IsStale(w, k)
             Success == /\ delivered'[k] = delivered[k] + 1 /\ faults' = faults
                        /\ ~IsSpare(w, k)' /\ ~IsStale(w, k)' /\ ~IsSuccess(w, k)
                        /\ IsSpare(w, k) \/ IsStale(w, k) \/ IsSuccess(w, k)'
  <1> SUFFICES Quiet \/ Faulty \/ Success
    OBVIOUS
  <1> USE DEF local, locking, rows, IsSpare, IsStale, IsSuccess, Key, Try
  <1>0. RowsOK /\ WorkersOK /\ faults \in Nat
    BY TypeInvParts DEF RowsOK
  <1>1. ASSUME NEW j \in Jobs, Receive(w, j) PROVE Quiet
    BY <1>0, <1>1 DEF Receive, Goto, WorkersOK
  <1>2. CASE AcquireLock(w) \/ SkipLocked(w)
    BY <1>0, <1>2 DEF AcquireLock, SkipLocked, Goto, WorkersOK, OwnersProcess, Processing
  <1>3. CASE CheckActive(w)
    BY <1>0, <1>3 DEF CheckActive, WorkersOK
  <1>4. CASE ShouldSend(w)
    <2>1. /\ UNCHANGED <<job, result, delivered, unlocked, faults>> /\ pc[w] = "check"
          /\ pc' = [pc EXCEPT ![w] = IF CanSend(Key(w), Try(w)) THEN "send" ELSE "unlock"]
      BY <1>4 DEF ShouldSend, Goto
    <2>2. pc'[w] = "unlock" \/ (pc'[w] = "send" /\ CanSend(Key(w), Try(w)))
      BY <1>0, <2>1 DEF WorkersOK
    <2>3. Key(w) = k /\ CanSend(Key(w), Try(w)) => Try(w) > attempt[k]
      BY <1>0, <2>1, JobParts DEF CanSend, RowsOK, NoRowNoAttempt
    <2> QED BY <1>0, <2>1, <2>2, <2>3, JobParts DEF RowsOK
  <1>5. CASE Send(w)
    <2>1. /\ UNCHANGED <<job, unlocked, faults>> /\ pc[w] = "send" /\ pc'[w] = "read"
          /\ \/ result'[w] = "failed" /\ delivered' = delivered
             \/ result'[w] = "sent" /\ delivered' = [delivered EXCEPT ![Key(w)] = @ + 1]
      BY <1>0, <1>5 DEF Send, Goto, WorkersOK
    <2>2. CASE Key(w) # k \/ result'[w] = "failed"
      BY <1>0, <2>1, <2>2, JobParts DEF RowsOK
    <2>3. CASE Key(w) = k /\ result'[w] = "sent"
      <3>1. delivered'[k] = delivered[k] + 1
        BY <1>0, <2>1, <2>3 DEF RowsOK
      <3>2. Try(w) <= attempt[k] \/ Try(w) > attempt[k]
        BY <1>0, <2>1, <2>3, JobParts DEF RowsOK
      <3> QED BY <2>1, <2>3, <3>1, <3>2
    <2> QED BY <2>1, <2>2, <2>3
  <1>6. CASE ReadRow(w) \/ Upsert(w)
    <2>1. UNCHANGED <<job, result, delivered, unlocked, faults>> /\ pc[w] \in {"read", "upsert"}
      BY <1>6 DEF ReadRow, Upsert, Goto
    <2>2. pc'[w] \in {"route", "count", "upsert"}
          /\ (pc'[w] = "upsert" => pc[w] = "read")
      BY <1>0, <1>6 DEF ReadRow, Upsert, Goto, WorkersOK
    <2>3. ASSUME IsSuccess(w, k) PROVE pc'[w] = "upsert"
      <3>1. CanApply(Key(w), Try(w))
        BY <1>0, <2>3 DEF CanApply, Terminal, RowsOK, Processed
      <3>2. Upsert(w) => row'[k] = "sent"
        BY <1>0, <2>3, <3>1 DEF Upsert, MayOverwrite, RowsOK
      <3>3. ReadRow(w)
        BY <1>6, <3>2 DEF Terminal
      <3> QED BY <1>0, <3>1, <3>3 DEF ReadRow, Goto, WorkersOK
    <2> QED BY <1>0, <2>1, <2>2, <2>3
  <1>7. CASE Recount(w) \/ RefreshCounters(w) \/ RouteFailure(w) \/ Unlock(w)
    BY <1>0, <1>7 DEF Recount, RefreshCounters, RouteFailure, Unlock, Goto, WorkersOK
  <1>8. CASE Settle(w)
    BY <1>0, <1>8 DEF Settle, NextDelivery, WorkersOK
  <1>9. CASE ProceedUnlocked(w)
    BY <1>0, <1>9 DEF ProceedUnlocked, Fault, Goto, WorkersOK
  <1>10. CASE ReleaseFails(w)
    BY <1>0, <1>10 DEF ReleaseFails, Fault, Goto, WorkersOK
  <1>11. CASE DbError(w)
    BY <1>0, <1>11 DEF DbError, Fault, WorkersOK
  <1>12. CASE Crash(w)
    BY <1>0, <1>12 DEF Crash, NextDelivery, Fault, WorkersOK
  <1>13. CASE ConnectionLost(w)
    BY <1>0, <1>13 DEF ConnectionLost, Fault
  <1>14. CASE LockOutlived(w)
    BY <1>0, <1>14 DEF LockOutlived, Fault, workers
  <1> HIDE DEF Quiet, Faulty, Success
  <1> QED BY <1>1, <1>2, <1>3, <1>4, <1>5, <1>6, <1>7, <1>8, <1>9, <1>10, <1>11, <1>12, <1>13,
          <1>14 DEF WorkerStep, ProcessStep, FaultStep

\* The steps of the others change nothing of it.
LEMMA OthersAccount ==
    ASSUME NEW k \in Keys, NEW v \in Workers, Untouched(v), attempt'[k] = attempt[k]
    PROVE  /\ IsSpare(v, k)' <=> IsSpare(v, k)
           /\ IsStale(v, k)' <=> IsStale(v, k)
           /\ IsSuccess(v, k)' <=> IsSuccess(v, k)
  BY DEF Untouched, IsSpare, IsStale, IsSuccess, Key, Try

\* The number of faults never goes down.
LEMMA FaultsStep == ASSUME TypeInv, [Next]_vars PROVE faults' >= faults
  <1> USE DEF Fault
  <1>0. faults \in Nat
    BY TypeInvParts DEF RowsOK
  <1> SUFFICES faults' = faults \/ faults' = faults + 1
    BY <1>0
  <1>1. CASE JobStep
    BY <1>1 DEF JobStep, DispatchJob, Republish, RetryDelayElapses, JobLost
  <1>2. ASSUME NEW w \in Workers, WorkerStep(w) PROVE faults' = faults \/ faults' = faults + 1
    BY <1>2 DEF WorkerStep, ProcessStep, FaultStep, Receive, AcquireLock, SkipLocked,
      CheckActive, ShouldSend, Send, ReadRow, Upsert, Recount, RefreshCounters,
      RouteFailure, Unlock, Settle, ProceedUnlocked, ReleaseFails, DbError, Crash,
      ConnectionLost, LockOutlived
  <1>3. CASE CampaignStep
    BY <1>3 DEF CampaignStep, StopCampaign, StartCampaign, CancelCampaign, SetStatus
  <1>4. CASE RetryStep
    BY <1>4 DEF RetryStep, ClaimFailedRows, PublishRetry, PublishRetryFails, RestoreRows,
      RestoreCounters, RetryCrash
  <1>5. CASE (\E k \in Keys : OrphanExpires(k)) \/ UNCHANGED vars
    BY <1>5 DEF OrphanExpires, vars
  <1> QED BY <1>1, <1>2, <1>3, <1>4, <1>5 DEF Next

\* Sums of the account.
LEMMA AccountSums ==
    ASSUME TypeInv, TypeInv', NEW k \in Keys
    PROVE  /\ delivered[k] \in Nat /\ delivered'[k] \in Nat /\ faults \in Nat /\ faults' \in Nat
           /\ Cardinality(Spares(k)) \in Nat /\ Cardinality(Spares(k)') \in Nat
           /\ Cardinality(Stales(k)) \in Nat /\ Cardinality(Stales(k)') \in Nat
           /\ Cardinality(Successes(k)) \in Nat /\ Cardinality(Successes(k)') \in Nat
           /\ Cardinality(Senders(k)) \in Nat /\ Cardinality(Senders(k)') \in Nat
  <1>1. RowsOK /\ RowsOK'
    BY DEF TypeInv, TypeOK, RowsOK
  <1> QED BY <1>1, WorkersAreCounted DEF RowsOK, Spares, Stales, Successes, Senders

\* With the row open and its attempt unchanged, the account stays balanced.
LEMMA OpenStep ==
    ASSUME TypeInv, TypeInv', OwnersProcess, [Next]_vars, NEW k \in Keys, SendsPaid(k),
           ~Terminal(k), ~Terminal(k)', attempt'[k] = attempt[k]
    PROVE  SendsPaid(k)'
  <1> DEFINE A == Spares(k)
             B == Stales(k)
             C == Successes(k)
             a == Cardinality(A)
             b == Cardinality(B)
             c == Cardinality(C)
  <1>1. delivered[k] + a + b <= faults + c
    BY DEF SendsPaid
  <1>2. /\ A \in SUBSET Workers /\ B \in SUBSET Workers /\ C \in SUBSET Workers
        /\ A' \in SUBSET Workers /\ B' \in SUBSET Workers /\ C' \in SUBSET Workers
    BY DEF Spares, Stales, Successes
  <1>3. /\ delivered[k] \in Nat /\ delivered'[k] \in Nat /\ faults \in Nat /\ faults' \in Nat
        /\ a \in Nat /\ a' \in Nat /\ b \in Nat /\ b' \in Nat /\ c \in Nat /\ c' \in Nat
    BY AccountSums
  <1>t. delivered[k] \in Nat /\ faults \in Nat /\ a \in Nat /\ b \in Nat /\ c \in Nat
    BY AccountSums
  <1> SUFFICES delivered'[k] + a' + b' <= faults' + c'
    BY DEF SendsPaid
  <1>4. CASE UNCHANGED <<delivered, attempt>> /\ \A v \in Workers : Untouched(v)
    <2>1. A' = A /\ B' = B /\ C' = C
      BY <1>4, OthersAccount DEF Spares, Stales, Successes
    <2>2. a' = a /\ b' = b /\ c' = c /\ faults' >= faults /\ delivered'[k] = delivered[k]
      BY <1>4, <2>1, FaultsStep
    <2> HIDE DEF a, b, c
    <2> QED BY <1>1, <1>3, <2>2
  <1>5. ASSUME NEW w \in Workers, WorkerStep(w), \A v \in Workers \ {w} : Untouched(v)
        PROVE  delivered'[k] + a' + b' <= faults' + c'
    <2>1. /\ A' \ {w} = A \ {w} /\ B' \ {w} = B \ {w} /\ C' \ {w} = C \ {w}
      BY <1>5, OthersAccount DEF Spares, Stales, Successes
    <2>2. /\ w \in A <=> IsSpare(w, k)
          /\ w \in B <=> IsStale(w, k)
          /\ w \in C <=> IsSuccess(w, k)
          /\ w \in A' <=> IsSpare(w, k)'
          /\ w \in B' <=> IsStale(w, k)'
          /\ w \in C' <=> IsSuccess(w, k)'
      BY <1>5 DEF Spares, Stales, Successes
    <2> HIDE DEF A, B, C
    <2>3. CASE /\ delivered'[k] = delivered[k] /\ faults' >= faults
               /\ w \in A' => w \in A
               /\ w \in B' => w \in B
               /\ w \in C => w \in C'
      <3>1. A' \subseteq A /\ B' \subseteq B /\ C \subseteq C'
        BY <2>1, <2>3
      <3>2. a' <= a /\ b' <= b /\ c <= c'
        BY <1>2, <3>1, FewerWorkers
      <3> HIDE DEF a, b, c
      <3> QED BY <1>1, <1>3, <2>3, <3>2
    <2>4. CASE /\ delivered'[k] = delivered[k] /\ faults' = faults + 1
               /\ ~(w \in A' /\ w \in C)
               /\ w \in B' => w \in B
      <3>1. B' \subseteq B /\ (A' \subseteq A \/ C \subseteq C')
            /\ A' \subseteq A \union {w} /\ C \subseteq C' \union {w}
        BY <2>1, <2>4
      <3>2. b' <= b /\ (a' <= a \/ c <= c') /\ a' <= a + 1 /\ c <= c' + 1
        BY <1>2, <3>1, FewerWorkers, OneWorkerMore
      <3>3. delivered'[k] = delivered[k] /\ faults' = faults + 1
        BY <2>4
      <3> HIDE DEF a, b, c
      <3>4. CASE a' <= a
        <4>1. PICK m \in Nat, n \in Nat, p \in Nat : m = a' /\ n = b' /\ p = c'
          BY <1>3
        <4>2. m <= a /\ n <= b /\ c <= p + 1
          BY <3>2, <3>4, <4>1
        <4>3. delivered[k] + m + n <= (faults + 1) + p
          BY <1>1, <1>t, <4>2
        <4> QED BY <3>3, <4>1, <4>3
      <3>5. CASE c <= c'
        <4>1. b' <= b /\ a' <= a + 1
          BY <3>2
        <4> QED BY <1>1, <1>3, <3>3, <3>5, <4>1
      <3> QED BY <3>2, <3>4, <3>5
    <2>5. CASE /\ delivered'[k] = delivered[k] + 1 /\ faults' = faults
               /\ w \notin A' /\ w \notin B' /\ w \notin C
               /\ w \in A \/ w \in B \/ w \in C'
      <3>1. A' \subseteq A \ {w} /\ B' \subseteq B \ {w} /\ C \subseteq C' \ {w}
        BY <2>1, <2>5
      <3>2. a' <= a /\ b' <= b /\ c <= c'
        BY <1>2, <3>1, FewerWorkers
      <3>3. /\ w \in A => a' + 1 <= a
            /\ w \in B => b' + 1 <= b
            /\ w \in C' => c + 1 <= c'
        BY <1>2, <3>1, OneWorkerLess
      <3>4. /\ delivered'[k] = delivered[k] + 1 /\ faults' = faults
            /\ a' + 1 <= a \/ b' + 1 <= b \/ c + 1 <= c'
        BY <2>5, <3>3
      <3> HIDE DEF a, b, c
      <3>5. PICK m \in Nat, n \in Nat, p \in Nat : m = a' /\ n = b' /\ p = c'
        BY <1>3
      <3>6. /\ m <= a /\ n <= b /\ c <= p
            /\ m + 1 <= a \/ n + 1 <= b \/ c + 1 <= p
        BY <3>2, <3>4, <3>5
      <3>7. (delivered[k] + 1) + m + n <= faults + p
        BY <1>1, <1>t, <3>6
      <3> QED BY <3>4, <3>5, <3>7
    <2> QED BY <1>5, <2>2, <2>3, <2>4, <2>5, SendAccount
  <1> QED BY <1>4, <1>5, OneWorkerSteps

\* A failure written by a worker that runs without the lock makes at most one
\* send stale; one written under the lock makes none.
LEMMA FailureStep ==
    ASSUME TypeInv, TypeInv', LockHeld, NEW k \in Keys, SendsPaid(k),
           ~Terminal(k), ~Terminal(k)', NEW w \in Workers, Upsert(w), Key(w) = k,
           MayOverwrite(k, Try(w)), \A v \in Workers \ {w} : Untouched(v)
    PROVE  SendsPaid(k)'
  <1> DEFINE A == Spares(k)
             B == Stales(k)
             C == Successes(k)
             a == Cardinality(A)
             b == Cardinality(B)
             c == Cardinality(C)
  <1>0. WorkersOK /\ RowsOK
    BY TypeInvParts
  <1>1. delivered[k] + a + b <= faults + c
    BY DEF SendsPaid
  <1>2. /\ A \in SUBSET Workers /\ B \in SUBSET Workers /\ C \in SUBSET Workers
        /\ A' \in SUBSET Workers /\ B' \in SUBSET Workers /\ C' \in SUBSET Workers
    BY DEF Spares, Stales, Successes
  <1>3. /\ delivered[k] \in Nat /\ delivered'[k] \in Nat /\ faults \in Nat /\ faults' \in Nat
        /\ a \in Nat /\ a' \in Nat /\ b \in Nat /\ b' \in Nat /\ c \in Nat /\ c' \in Nat
    BY AccountSums
  <1>t. delivered[k] \in Nat /\ faults \in Nat /\ a \in Nat /\ b \in Nat /\ c \in Nat
    BY AccountSums
  <1> SUFFICES delivered'[k] + a' + b' <= faults' + c'
    BY DEF SendsPaid
  <1>4. /\ pc[w] = "upsert" /\ pc'[w] = "count" /\ UNCHANGED <<job, unlocked, delivered, faults>>
        /\ row'[k] = result[w]
    BY <1>0 DEF Upsert, WorkersOK, RowsOK, local, locking
  <1>e. delivered'[k] = delivered[k] /\ faults' = faults
    BY <1>4
  <1>5. result[w] = "failed"
    BY <1>0, <1>4 DEF WorkersOK, HasDelivery, Terminal
  <1>6. A' \subseteq A \ {w}
    BY <1>4 DEF Spares, IsSpare, Untouched, Key
  <1>7. /\ B' \subseteq {v \in Workers \ unlocked : v # w /\ pc[v] = "send" /\ Key(v) = k}
        /\ C \subseteq {v \in Workers \ unlocked : v # w /\ pc[v] \in {"read", "upsert"}
                                                         /\ Key(v) = k}
    BY <1>4, <1>5 DEF Stales, IsStale, Successes, IsSuccess, Untouched, Key
  <1>8. b' + c <= 1
    <2>1. \A v, u \in B' \union C : v = u
      BY <1>7, OneHasLock DEF Processing
    <2>2. B' \cap C = {}
      BY <1>7
    <2> QED BY <1>2, <2>1, <2>2, AtMostOne
  <1>9. CASE w \in unlocked
    <2>1. w \in A
      BY <1>4, <1>5, <1>9 DEF Spares, IsSpare
    <2>2. a' + 1 <= a
      BY <1>2, <1>6, <2>1, OneWorkerLess
    <2> HIDE DEF a, b, c
    <2>3. PICK m \in Nat, n \in Nat, p \in Nat : m = a' /\ n = b' /\ p = c'
      BY <1>3
    <2>4. n + c <= 1 /\ m + 1 <= a
      BY <1>8, <2>2, <2>3
    <2>5. delivered[k] + m + n <= faults + p
      BY <1>1, <1>t, <2>4
    <2> QED BY <1>e, <2>3, <2>5
  <1>10. CASE w \notin unlocked
    <2>1. B' = {} /\ C = {}
      BY <1>4, <1>7, <1>10, OneHasLock DEF Processing
    <2>2. b' = 0 /\ c = 0
      BY <2>1, FS_EmptySet
    <2>3. a' <= a
      BY <1>2, <1>6, FewerWorkers
    <2> HIDE DEF a, b, c
    <2> QED BY <1>1, <1>3, <1>e, <2>2, <2>3
  <1> QED BY <1>9, <1>10

\* No worker starts to send a delivery whose row is closed.
LEMMA NoNewSender ==
    ASSUME TypeInv, OwnersProcess, NEW k \in Keys, Terminal(k)', NEW w \in Workers,
           WorkerStep(w), ~Send(w), IsSender(w, k)'
    PROVE  IsSender(w, k)
  <1> USE DEF local, locking, rows, IsSender, Key, Try
  <1>0. RowsOK /\ WorkersOK
    BY TypeInvParts
  <1>1. ASSUME NEW j \in Jobs, Receive(w, j) PROVE FALSE
    BY <1>0, <1>1 DEF Receive, Goto, WorkersOK
  <1>2. ~ShouldSend(w)
    <2>1. CASE ShouldSend(w)
      <3>1. /\ UNCHANGED <<job, row, attempt>>
            /\ pc'[w] = IF CanSend(Key(w), Try(w)) THEN "send" ELSE "unlock"
        BY <1>0, <2>1 DEF ShouldSend, Goto, WorkersOK
      <3>2. CanSend(k, Try(w)) /\ row[k] \in {"sent", "cancelled"}
        BY <3>1 DEF Terminal
      <3> QED BY <3>2 DEF CanSend
    <2> QED BY <2>1
  <1>3. CASE AcquireLock(w) \/ SkipLocked(w) \/ CheckActive(w) \/ ReadRow(w) \/ Upsert(w)
             \/ Recount(w) \/ RefreshCounters(w) \/ RouteFailure(w) \/ Unlock(w)
    BY <1>0, <1>3 DEF AcquireLock, SkipLocked, CheckActive, ReadRow, Upsert, Recount,
      RefreshCounters, RouteFailure, Unlock, Goto, WorkersOK
  <1>4. CASE Settle(w) \/ Crash(w)
    BY <1>0, <1>4 DEF Settle, Crash, NextDelivery, WorkersOK
  <1>5. CASE ProceedUnlocked(w) \/ ReleaseFails(w) \/ DbError(w)
    BY <1>0, <1>5 DEF ProceedUnlocked, ReleaseFails, DbError, Goto, WorkersOK
  <1>6. CASE ConnectionLost(w) \/ LockOutlived(w)
    BY <1>6 DEF ConnectionLost, LockOutlived, workers
  <1> QED BY <1>1, <1>2, <1>3, <1>4, <1>5, <1>6 DEF WorkerStep, ProcessStep, FaultStep

\* Once the row is closed nobody who checks it goes on to send.
LEMMA ClosedStep ==
    ASSUME TypeInv, TypeInv', OwnersProcess, [Next]_vars, NEW k \in Keys, Terminal(k)',
           delivered[k] + Cardinality(Senders(k)) <= 1 + faults
    PROVE  SendsPaid(k)'
  <1> DEFINE S == Senders(k)
             s == Cardinality(S)
  <1>0. RowsOK /\ WorkersOK
    BY TypeInvParts
  <1>1. /\ delivered[k] \in Nat /\ delivered'[k] \in Nat /\ faults \in Nat /\ faults' \in Nat
        /\ s \in Nat /\ s' \in Nat /\ faults' >= faults
        /\ delivered[k] + s <= 1 + faults
    BY AccountSums, FaultsStep
  <1>s. S \in SUBSET Workers /\ S' \in SUBSET Workers
    BY DEF Senders
  <1> SUFFICES delivered'[k] + s' <= 1 + faults'
    BY DEF SendsPaid
  <1>2. ASSUME NEW v \in Workers, Untouched(v) PROVE v \in S' <=> v \in S
    BY <1>2 DEF Untouched, Senders, IsSender, Key
  <1>3. ASSUME delivered'[k] = delivered[k], S' \subseteq S
        PROVE  delivered'[k] + s' <= 1 + faults'
    <2>1. s' <= s
      BY <1>s, <1>3, FewerWorkers
    <2> HIDE DEF S, s
    <2> QED BY <1>1, <1>3, <2>1
  <1>4. ASSUME NEW w \in Workers, WorkerStep(w), \A v \in Workers \ {w} : Untouched(v)
        PROVE  delivered'[k] + s' <= 1 + faults'
    <2>1. S' \ {w} = S \ {w}
      BY <1>s, <1>2, <1>4
    <2>2. CASE Send(w)
      <3>1. pc[w] = "send" /\ pc'[w] = "read" /\ job' = job
            /\ (delivered' = delivered \/ delivered' = [delivered EXCEPT ![Key(w)] = @ + 1])
        BY <1>0, <2>2 DEF Send, Goto, WorkersOK
      <3>2. w \notin S' /\ S' \subseteq S
        BY <2>1, <3>1 DEF Senders, IsSender
      <3>3. CASE Key(w) = k
        <4>1. w \in S
          BY <3>1, <3>3 DEF Senders, IsSender
        <4>2. s' + 1 <= s
          BY <1>s, <3>2, <4>1, OneWorkerLess
        <4>3. delivered'[k] <= delivered[k] + 1
          BY <1>0, <1>1, <3>1, <3>3 DEF RowsOK
        <4> HIDE DEF S, s
        <4>4. delivered'[k] + s' <= delivered[k] + s
          <5>1. PICK m \in Nat, n \in Nat : m = delivered'[k] /\ n = s'
            BY <1>1
          <5>2. m <= delivered[k] + 1 /\ n + 1 <= s
            BY <4>2, <4>3, <5>1
          <5>3. m + n <= delivered[k] + s
            BY <1>1, <5>2
          <5> QED BY <5>1, <5>3
        <4> QED BY <1>1, <4>4
      <3>4. CASE Key(w) # k
        <4>1. delivered'[k] = delivered[k]
          BY <1>0, <3>1, <3>4 DEF RowsOK
        <4> QED BY <1>3, <3>2, <4>1
      <3> QED BY <3>3, <3>4
    <2>3. CASE ~Send(w)
      <3>1. delivered' = delivered
        BY <1>4, <2>3 DEF WorkerStep, ProcessStep, FaultStep, Receive, AcquireLock, SkipLocked,
          CheckActive, ShouldSend, ReadRow, Upsert, Recount, RefreshCounters,
          RouteFailure, Unlock, Settle, ProceedUnlocked, ReleaseFails, DbError, Crash,
          ConnectionLost, LockOutlived
      <3>2. w \in S' => w \in S
        BY <1>4, <2>3, NoNewSender DEF Senders
      <3>3. S' \subseteq S
        BY <2>1, <3>2
      <3> QED BY <1>3, <3>1, <3>3
    <2> QED BY <2>2, <2>3
  <1>5. CASE UNCHANGED <<delivered, attempt>> /\ \A v \in Workers : Untouched(v)
    <2>1. S' \subseteq S
      BY <1>s, <1>2, <1>5
    <2> QED BY <1>3, <1>5, <2>1
  <1> QED BY <1>4, <1>5, OneWorkerSteps

\* Every step keeps the account of each delivery.
LEMMA SendsPaidStep ==
    ASSUME TypeInv, TypeInv', LockHeld, OwnersProcess, [Next]_vars, NEW k \in Keys, SendsPaid(k)
    PROVE  SendsPaid(k)'
  <1>0. RowsOK /\ WorkersOK
    BY TypeInvParts
  <1>1. CASE Terminal(k)'
    BY <1>1, ClosedStep, PaidIsBounded
  <1>2. CASE ~Terminal(k)'
    <2>1. ~Terminal(k)
      BY <1>2, TerminalStep DEF Terminal
    <2>2. CASE attempt'[k] = attempt[k]
      BY <1>2, <2>1, <2>2, OpenStep
    <2>3. CASE attempt'[k] # attempt[k]
      <3>1. PICK w \in Workers : WorkerStep(w) /\ \A v \in Workers \ {w} : Untouched(v)
        BY <2>3, OneWorkerSteps
      <3>2. PICK u \in Workers : Upsert(u)
        BY <2>3, StepIsAttemptQuiet DEF AttemptQuiet, ShouldSend, rows
      <3>3. u = w
        BY <1>0, <3>1, <3>2 DEF Upsert, Untouched, WorkersOK
      <3>4. Key(w) = k /\ MayOverwrite(k, Try(w))
        BY <1>0, <2>3, <3>2, <3>3, JobParts DEF Upsert, RowsOK, rows
      <3> QED BY <1>2, <2>1, <3>1, <3>2, <3>3, <3>4, FailureStep
    <2> QED BY <2>2, <2>3
  <1> QED BY <1>1, <1>2

AllPaid == \A k \in Keys : SendsPaid(k)

LEMMA AllPaidInit == Init => AllPaid
  <1> SUFFICES ASSUME Init, NEW k \in Keys PROVE SendsPaid(k)
    BY DEF AllPaid
  <1>1. Spares(k) = {} /\ Stales(k) = {} /\ Successes(k) = {}
    BY DEF Init, Spares, Stales, Successes, IsSpare, IsStale, IsSuccess
  <1>2. /\ Cardinality(Spares(k)) = 0 /\ Cardinality(Stales(k)) = 0
        /\ Cardinality(Successes(k)) = 0
    BY <1>1, FS_EmptySet
  <1>3. delivered[k] = 0 /\ faults = 0 /\ ~Terminal(k)
    BY DEF Init, Terminal
  <1> QED BY <1>2, <1>3 DEF SendsPaid

LEMMA AllPaidStep == IInv /\ IInv' /\ AllPaid /\ [Next]_vars => AllPaid'
  <1> SUFFICES ASSUME IInv, IInv', AllPaid, [Next]_vars, NEW k \in Keys PROVE SendsPaid(k)'
    BY DEF AllPaid
  <1> QED BY SendsPaidStep DEF IInv, AllPaid

\* Accounts that are kept bound the sends, as the run's invariant says.
LEMMA AllPaidBounds == IInv /\ AllPaid => SendsBoundedByFaults
  <1> SUFFICES ASSUME IInv, AllPaid, NEW k \in Keys PROVE delivered[k] <= 1 + faults
    BY DEF SendsBoundedByFaults
  <1>1. delivered[k] + Cardinality(Senders(k)) <= 1 + faults
    BY PaidIsBounded DEF IInv, AllPaid
  <1>2. delivered[k] \in Nat /\ faults \in Nat /\ Cardinality(Senders(k)) \in Nat
    BY TypeInvParts, WorkersAreCounted DEF RowsOK, Senders, IInv
  <1> QED BY <1>1, <1>2

-----------------------------------------------------------------------------
(* Finishing, as long as nobody retries by hand *)

ProcessedRows == {k \in Keys : row[k] \in Processed}

\* The retry handler does nothing, and what a worker counted was there and still
\* is: a retry takes processed rows away, which is what makes counts too high.
CountsNotTooHigh ==
    /\ op = "idle"
    /\ \A w \in Workers : snapshot[w].processed <= Cardinality(ProcessedRows)

\* Without a retry handler at work, a processed row stays processed.
LEMMA ProcessedStays ==
    ASSUME TypeInv, op = "idle", "retry" \notin Operations, [Next]_vars
    PROVE  /\ op' = "idle"
           /\ \A k \in Keys : row[k] \in Processed => row'[k] \in Processed
  <1> USE DEF rows, retry, workers
  <1>0. /\ row \in [Keys -> {"none", "queued"} \union Processed]
        /\ result \in [Workers -> {"none", "sent", "failed"}]
    BY DEF TypeInv, TypeOK
  <1>1. CASE JobStep
    BY <1>1 DEF JobStep, DispatchJob, Republish, RetryDelayElapses, JobLost
  <1>2. ASSUME NEW w \in Workers, WorkerStep(w)
        PROVE  /\ op' = "idle"
               /\ \A k \in Keys : row[k] \in Processed => row'[k] \in Processed
    <2>1. CASE Upsert(w)
      <3>1. op' = op
        BY <2>1 DEF Upsert
      <3>2. result[w] \in Processed
        BY <2>1 DEF Upsert, TypeInv, HasDelivery, Processed
      <3> QED BY <1>0, <2>1, <3>1, <3>2 DEF Upsert
    <2> QED BY <1>2, <2>1 DEF WorkerStep, ProcessStep, FaultStep, Receive, AcquireLock,
          SkipLocked, CheckActive, ShouldSend, Send, ReadRow, Recount, RefreshCounters,
          RouteFailure, Unlock, Settle, ProceedUnlocked, ReleaseFails, DbError, Crash,
          ConnectionLost, LockOutlived
  <1>3. CASE CampaignStep
    BY <1>3 DEF CampaignStep, StopCampaign, StartCampaign, CancelCampaign, SetStatus
  <1>4. CASE RetryStep
    BY <1>4 DEF RetryStep, ClaimFailedRows, PublishRetry, PublishRetryFails, RestoreRows,
      RestoreCounters, RetryCrash
  <1>5. CASE (\E o \in Keys : OrphanExpires(o)) \/ UNCHANGED vars
    BY <1>5 DEF OrphanExpires, vars
  <1> QED BY <1>1, <1>2, <1>3, <1>4, <1>5 DEF Next

\* A snapshot changes when a worker counts, and is cleared with the delivery.
LEMMA SnapshotStep ==
    ASSUME TypeInv, [Next]_vars, NEW w \in Workers
    PROVE  snapshot'[w] \in {snapshot[w], NoCounts, CountRows}
  <1> USE DEF local, workers
  <1>0. snapshot \in [Workers -> Counters]
    BY DEF TypeInv, TypeOK
  <1>1. CASE JobStep
    BY <1>1 DEF JobStep, DispatchJob, Republish, RetryDelayElapses, JobLost
  <1>2. ASSUME NEW v \in Workers, WorkerStep(v)
        PROVE  snapshot'[w] \in {snapshot[w], NoCounts, CountRows}
    <2>1. CASE Recount(v)
      BY <1>0, <2>1 DEF Recount
    <2>2. CASE RefreshCounters(v) \/ Settle(v) \/ Crash(v)
      BY <1>0, <2>2 DEF RefreshCounters, Settle, Crash, NextDelivery
    <2> QED BY <1>2, <2>1, <2>2 DEF WorkerStep, ProcessStep, FaultStep, Receive, AcquireLock,
          SkipLocked, CheckActive, ShouldSend, Send, ReadRow, Upsert, RouteFailure, Unlock,
          ProceedUnlocked, ReleaseFails, DbError, ConnectionLost, LockOutlived
  <1>3. CASE CampaignStep
    BY <1>3 DEF CampaignStep, StopCampaign, StartCampaign, CancelCampaign, SetStatus
  <1>4. CASE RetryStep
    BY <1>4 DEF RetryStep, ClaimFailedRows, PublishRetry, PublishRetryFails, RestoreRows,
      RestoreCounters, RetryCrash
  <1>5. CASE (\E o \in Keys : OrphanExpires(o)) \/ UNCHANGED vars
    BY <1>5 DEF OrphanExpires, vars
  <1> QED BY <1>1, <1>2, <1>3, <1>4, <1>5 DEF Next

\* Rows are only added to the processed ones, so a count that was not too high stays so.
LEMMA NotTooHighStep ==
    ASSUME TypeInv, CountsNotTooHigh, "retry" \notin Operations, [Next]_vars
    PROVE  CountsNotTooHigh'
  <1>1. op' = "idle" /\ ProcessedRows \subseteq ProcessedRows'
    BY ProcessedStays DEF CountsNotTooHigh, ProcessedRows
  <1>2. PICK before : before = Cardinality(ProcessedRows)
    OBVIOUS
  <1>3. PICK after : after = Cardinality(ProcessedRows')
    OBVIOUS
  <1>4. IsFiniteSet(ProcessedRows') /\ before \in Nat /\ after \in Nat /\ before <= after
    <2>1. IsFiniteSet(ProcessedRows')
      BY FS_Subset DEF ProcessedRows
    <2>2. Cardinality(ProcessedRows) <= Cardinality(ProcessedRows')
      BY <1>1, <2>1, FS_Subset
    <2>3. before \in Nat
      BY <1>2, KeysAreCounted DEF ProcessedRows
    <2>4. after \in Nat
      BY <1>3, <2>1, FS_CardinalityType
    <2> QED BY <1>2, <1>3, <2>1, <2>2, <2>3, <2>4
  <1>5. ASSUME NEW w \in Workers PROVE snapshot'[w].processed <= after
    <2>1. snapshot'[w] \in {snapshot[w], NoCounts, CountRows}
      BY SnapshotStep
    <2>2. snapshot[w].processed <= before /\ snapshot[w].processed \in Nat
      BY <1>2 DEF CountsNotTooHigh, TypeInv, TypeOK, Counters
    <2>3. NoCounts.processed = 0 /\ CountRows.processed = before
      BY <1>2 DEF NoCounts, CountRows, ProcessedRows
    <2>4. CASE snapshot'[w] = snapshot[w]
      BY <1>4, <2>2, <2>4
    <2>5. CASE snapshot'[w] \in {NoCounts, CountRows}
      BY <1>4, <2>3, <2>5
    <2> QED BY <2>1, <2>4, <2>5
  <1> QED BY <1>1, <1>3, <1>5 DEF CountsNotTooHigh

\* A worker whose count reaches the total has counted every delivery, if each key is
\* one that was dispatched.
LEMMA AllCounted ==
    ASSUME Keys = Dispatched, TypeInv, CountsNotTooHigh, NEW w \in Workers,
           snapshot[w].processed >= Total
    PROVE  \A k \in Dispatched : row[k] \in Processed
  <1>1. PICK n : n = Cardinality(ProcessedRows)
    OBVIOUS
  <1>2. n \in Nat /\ Total \in Nat /\ snapshot[w].processed \in Nat
    BY <1>1, KeysAreCounted, CountsAreNumbers DEF ProcessedRows, TypeInv, TypeOK, Counters
  <1>3. snapshot[w].processed <= n
    BY <1>1 DEF CountsNotTooHigh
  <1>4. n >= Total
    BY <1>2, <1>3
  <1>5. /\ ProcessedRows \subseteq Keys
        /\ Cardinality(ProcessedRows) <= Cardinality(Keys)
        /\ Cardinality(ProcessedRows) = Cardinality(Keys) => ProcessedRows = Keys
    BY FS_Subset DEF ProcessedRows
  <1>6. n <= Total
    BY <1>1, <1>5 DEF Total
  <1>7. n = Total
    BY <1>2, <1>4, <1>6
  <1>8. ProcessedRows = Keys
    BY <1>1, <1>5, <1>7 DEF Total
  <1> QED BY <1>8 DEF ProcessedRows

\* A campaign becomes finished by the recount of a worker, while it is active, or when
\* a failed retry is restored.
LEMMA FinishingStep ==
    ASSUME TypeInv, [Next]_vars, status' = "finished", status # "finished"
    PROVE  \/ op = "recount"
           \/ \E w \in Workers : /\ snapshot[w].processed >= Total /\ Active
                                 /\ row' = row
  <1> USE DEF rows
  <1>1. CASE JobStep
    BY <1>1 DEF JobStep, DispatchJob, Republish, RetryDelayElapses, JobLost
  <1>2. ASSUME NEW w \in Workers, WorkerStep(w)
        PROVE  snapshot[w].processed >= Total /\ Active /\ row' = row
    <2>1. CASE RefreshCounters(w)
      BY <2>1 DEF RefreshCounters, ShouldFinish
    <2> QED BY <1>2, <2>1 DEF WorkerStep, ProcessStep, FaultStep, Receive, AcquireLock,
          SkipLocked, CheckActive, ShouldSend, Send, ReadRow, Upsert, Recount,
          RouteFailure, Unlock, Settle, ProceedUnlocked, ReleaseFails, DbError, Crash,
          ConnectionLost, LockOutlived
  <1>3. CASE CampaignStep
    BY <1>3 DEF CampaignStep, StopCampaign, StartCampaign, CancelCampaign, SetStatus
  <1>4. CASE RetryStep
    BY <1>4 DEF RetryStep, ClaimFailedRows, PublishRetry, PublishRetryFails, RestoreRows,
      RestoreCounters, RetryCrash
  <1>5. CASE (\E o \in Keys : OrphanExpires(o)) \/ UNCHANGED vars
    BY <1>5 DEF OrphanExpires, vars
  <1> QED BY <1>1, <1>2, <1>3, <1>4, <1>5 DEF Next

LEMMA NotTooHighInit == Init => CountsNotTooHigh
  <1> SUFFICES ASSUME Init PROVE CountsNotTooHigh
    OBVIOUS
  <1>1. Cardinality(ProcessedRows) \in Nat
    BY KeysAreCounted DEF ProcessedRows
  <1>2. op = "idle" /\ \A w \in Workers : snapshot[w].processed = 0
    BY DEF Init, NoCounts
  <1> QED BY <1>1, <1>2 DEF CountsNotTooHigh

LEMMA NotTooHighInvariant ==
    ASSUME "retry" \notin Operations
    PROVE  Spec => [](TypeInv /\ CountsNotTooHigh)
  <1>1. TypeInv /\ CountsNotTooHigh /\ [Next]_vars => CountsNotTooHigh'
    BY NotTooHighStep
  <1>2. IInv => TypeInv
    BY DEF IInv
  <1> QED BY <1>1, <1>2, NotTooHighInit, Inductive, PTL DEF Spec

-----------------------------------------------------------------------------
(* The theorems *)

\* Every reachable state has the declared types: in particular no counter, and no
\* number of jobs in a queue, is ever negative.
THEOREM DeliveryTypes == Spec => []TypeOK
  <1>1. IInv => TypeOK
    BY DEF IInv, TypeInv
  <1> QED BY <1>1, Inductive, PTL

\* Two workers are at one delivery only if Redis failed one or his lock ran out:
\* redelivery, crashes and late releases do not lead there.
THEOREM LockExcludesAll == Spec => []ProcessedByOne
  <1>1. IInv => ProcessedByOne
    BY LockExcludes DEF IInv
  <1> QED BY <1>1, Inductive, PTL

\* A row that was sent or cancelled is never changed again.
THEOREM TerminalRows == Spec => TerminalRowsProtected
  <1>1. TypeInv /\ [Next]_vars =>
          [\A k \in Keys : row[k] \in {"sent", "cancelled"} => row'[k] = row[k]]_vars
    BY TerminalStep
  <1>2. IInv => TypeInv
    BY DEF IInv
  <1> QED BY <1>1, <1>2, Inductive, PTL DEF Spec, TerminalRowsProtected

\* The attempt of a row goes back only after some worker ran without the lock.
THEOREM AttemptMonotone == Spec => AttemptNeverBack
  <1>1. IInv /\ [Next]_vars =>
          [\A k \in Keys : attempt'[k] >= attempt[k] \/ everUnlocked]_vars
    BY AttemptStep
  <1> QED BY <1>1, Inductive, PTL DEF Spec, AttemptNeverBack

\* A delivery is sent once, and once more per fault at most: what is sent without
\* the lock, or sent and not written, is paid for by a fault of its own.
THEOREM SendsBounded == Spec => []SendsBoundedByFaults
  BY Inductive, AllPaidInit, AllPaidStep, AllPaidBounds, PTL DEF Spec
\* Without manual retries, and with no keys but the dispatcher's, a campaign becomes
\* finished only when every delivery was processed: a late recount may be too low, but
\* never too high. A retry, or a key that a switch adds, breaks it.
THEOREM FinishedMeansProcessed ==
    ASSUME "retry" \notin Operations, Keys = Dispatched
    PROVE  Spec => FinishedWhenProcessed
  <1>1. TypeInv /\ CountsNotTooHigh /\ [Next]_vars =>
          [status # "finished" /\ status' = "finished"
             => \A k \in Dispatched : row'[k] \in Processed]_vars
    <2> SUFFICES ASSUME TypeInv, CountsNotTooHigh, [Next]_vars,
                        status # "finished", status' = "finished"
                 PROVE  \A k \in Dispatched : row'[k] \in Processed
      BY Zenon
    <2>1. PICK w \in Workers : snapshot[w].processed >= Total /\ row' = row
      BY FinishingStep DEF CountsNotTooHigh
    <2> QED BY <2>1, AllCounted
  <1> QED BY <1>1, NotTooHighInvariant, PTL DEF Spec, FinishedWhenProcessed

\* Without manual retries a campaign that was stopped or cancelled does not become
\* finished, however late a worker's recount comes.
THEOREM StopIsFinal ==
    ASSUME "retry" \notin Operations
    PROVE  Spec => StopNotOverwritten
  <1>1. TypeInv /\ CountsNotTooHigh /\ [Next]_vars =>
          [status' = "finished" => status \notin {"stopped", "cancelled"}]_vars
    BY FinishingStep DEF CountsNotTooHigh, Active
  <1> QED BY <1>1, NotTooHighInvariant, PTL DEF Spec, StopNotOverwritten
=============================================================================
