----------------------------- MODULE WorkerPool -----------------------------
(***************************************************************************)
(* The pool of consumers of one sender-worker process (workerPool in       *)
(* main.go). A ticker reads the depth of the queue and, under the pool's   *)
(* mutex, launches or stops workers. A worker is a goroutine that runs     *)
(* RunWithReconnect, which runs consumeMessages in another goroutine and   *)
(* does not wait for it. Stopping a worker takes it off the map at once;   *)
(* the goroutines end later.                                               *)
(***************************************************************************)
EXTENDS Integers, FiniteSetsExt

CONSTANTS
    MinWorkers, MaxWorkers,  \* WORKER_MIN_POOL, WORKER_MAX_POOL, 1 <= min <= max
    ScaleMaxDepth,           \* WORKER_SCALE_MAX_DEPTH, 200 if it is not positive
    Depths,                  \* depths the management API reports; -1: no answer
    MaxLaunches              \* bound on the workers ever launched

ASSUME PoolAssumption ==
    /\ MinWorkers \in Nat \ {0} /\ MaxWorkers \in Nat /\ ScaleMaxDepth \in Nat \ {0}
    /\ MinWorkers <= MaxWorkers
    /\ Depths \subseteq Int
    /\ MaxLaunches \in Nat /\ MinWorkers <= MaxLaunches

VARIABLES
    pool,           \* run: "start", "wait" for the ticker, "scale" or "stopped"
    workers,        \* the map's keys
    nextID,
    cancelled,      \* workers whose own context was cancelled
    goroutine,      \* per worker: "none", "running", "returned" or "ended"
    consuming,      \* workers whose consumeMessages runs
    depth,          \* the depth last read
    shutdown        \* the process was told to stop: the parent context is done

poolVars == <<pool, workers, nextID, cancelled, goroutine, consuming, depth, shutdown>>

IDs == 1..MaxLaunches

\* The context of a worker, a child of the pool's. Mutant: the pool's own.
PoolDone(w) == w \in IDs /\ shutdown

Done(w) == w \in cancelled \/ shutdown

PoolInit ==
    /\ pool = "start" /\ workers = {} /\ nextID = 1 /\ cancelled = {}
    /\ goroutine = [w \in IDs |-> "none"] /\ consuming = {}
    /\ depth = 0 /\ shutdown = FALSE

-----------------------------------------------------------------------------
(* run and scale *)

\* n times launch.
Launch(n) ==
    LET new == nextID .. nextID + n - 1
    IN  /\ nextID' = nextID + n
        /\ workers' = workers \union new
        /\ goroutine' = [w \in IDs |-> IF w \in new THEN "running" ELSE goroutine[w]]

Start ==
    /\ pool = "start" /\ pool' = "wait"
    /\ Launch(MinWorkers)
    /\ UNCHANGED <<cancelled, consuming, depth, shutdown>>

\* The ticker fires; the API answers or does not. The mutex is not held.
ReadDepth ==
    /\ pool = "wait" /\ pool' = "scale"
    /\ depth' \in Depths
    /\ UNCHANGED <<workers, nextID, cancelled, goroutine, consuming, shutdown>>

\* Mutants: no upper bound; without an answer, back to the minimum of a pool
\* that may be empty.
TargetUnbounded ==
    IF depth < 0 THEN Max({Cardinality(workers), MinWorkers})
    ELSE MinWorkers + ((MaxWorkers - MinWorkers) * depth) \div ScaleMaxDepth

Target ==
    IF depth < 0 THEN Max({Cardinality(workers), MinWorkers})
    ELSE Min({MaxWorkers,
              MinWorkers + ((MaxWorkers - MinWorkers) * depth) \div ScaleMaxDepth})

ScaleUp ==
    /\ pool = "scale" /\ pool' = "wait" /\ depth' = 0
    /\ Target >= Cardinality(workers)
    /\ nextID + Target - Cardinality(workers) <= MaxLaunches + 1
    /\ Launch(Target - Cardinality(workers))
    /\ UNCHANGED <<cancelled, consuming, shutdown>>

\* The n workers with the highest IDs.
Newest(n) == {w \in workers : Cardinality({v \in workers : v > w}) < n}

\* Mutant: killOne takes the worker off the map and does not cancel it.
NotCancelled(stopped) == cancelled

Cancelled(stopped) == cancelled \union stopped

\* killOne until the target is reached.
ScaleDown ==
    /\ pool = "scale" /\ pool' = "wait" /\ depth' = 0
    /\ Target < Cardinality(workers)
    /\ LET stopped == Newest(Cardinality(workers) - Target)
       IN  workers' = workers \ stopped /\ cancelled' = Cancelled(stopped)
    /\ UNCHANGED <<nextID, goroutine, consuming, shutdown>>

\* SIGTERM. The ticker may still win the select of run, and scale once more.
Shutdown ==
    /\ ~shutdown /\ shutdown' = TRUE
    /\ UNCHANGED <<pool, workers, nextID, cancelled, goroutine, consuming, depth>>

StopPool ==
    /\ pool = "wait" /\ shutdown
    /\ pool' = "stopped" /\ cancelled' = cancelled \union workers
    /\ UNCHANGED <<workers, nextID, goroutine, consuming, depth, shutdown>>

-----------------------------------------------------------------------------
(* A worker's goroutines *)

\* Connected: consumeMessages is started.
StartConsumer(w) ==
    /\ goroutine[w] = "running" /\ ~Done(w) /\ w \notin consuming
    /\ consuming' = consuming \union {w}
    /\ UNCHANGED <<pool, workers, nextID, cancelled, goroutine, depth, shutdown>>

\* The connection is lost: consumeMessages returns, RunWithReconnect goes on.
ConsumerLost(w) ==
    /\ w \in consuming /\ ~Done(w)
    /\ consuming' = consuming \ {w}
    /\ UNCHANGED <<pool, workers, nextID, cancelled, goroutine, depth, shutdown>>

EndConsumer(w) ==
    /\ w \in consuming /\ Done(w)
    /\ consuming' = consuming \ {w}
    /\ UNCHANGED <<pool, workers, nextID, cancelled, goroutine, depth, shutdown>>

\* RunWithReconnect returns, with consumeMessages running or not.
Return(w) ==
    /\ goroutine[w] = "running" /\ Done(w)
    /\ goroutine' = [goroutine EXCEPT ![w] = "returned"]
    /\ UNCHANGED <<pool, workers, nextID, cancelled, consuming, depth, shutdown>>

\* The deferred delete; it finds nothing if killOne took the worker off the map.
\* Mutant: it is left to killOne.
Kept(w) == IF w \in cancelled THEN workers \ {w} ELSE workers

Deleted(w) == workers \ {w}

Unregister(w) ==
    /\ goroutine[w] = "returned"
    /\ goroutine' = [goroutine EXCEPT ![w] = "ended"]
    /\ workers' = Deleted(w)
    /\ UNCHANGED <<pool, nextID, cancelled, consuming, depth, shutdown>>

-----------------------------------------------------------------------------
WorkerStep(w) ==
    StartConsumer(w) \/ ConsumerLost(w) \/ EndConsumer(w) \/ Return(w) \/ Unregister(w)

PoolNext ==
    \/ Start \/ ReadDepth \/ ScaleUp \/ ScaleDown \/ Shutdown \/ StopPool
    \/ \E w \in IDs : WorkerStep(w)

\* A goroutine that can return is scheduled.
PoolFairness ==
    \A w \in IDs : WF_poolVars(EndConsumer(w)) /\ WF_poolVars(Return(w) \/ Unregister(w))

PoolSpec == PoolInit /\ [][PoolNext]_poolVars /\ PoolFairness

-----------------------------------------------------------------------------
(* Properties *)

\* The type invariant; no worker whose goroutine has ended is counted in the map.
PoolTypeOK ==
    /\ pool \in {"start", "wait", "scale", "stopped"}
    /\ workers \subseteq 1 .. nextID - 1 /\ nextID \in 1 .. MaxLaunches + 1
    /\ cancelled \subseteq 1 .. nextID - 1
    /\ goroutine \in [IDs -> {"none", "running", "returned", "ended"}]
    /\ \A w \in workers : goroutine[w] \in {"running", "returned"}
    /\ consuming \subseteq IDs
    /\ depth \in Depths \union {0} /\ shutdown \in BOOLEAN

\* Until the process stops, the map has between MinWorkers and MaxWorkers
\* workers, whatever depth was read and whichever workers are still ending.
PoolBounded ==
    pool # "start" /\ ~shutdown => Cardinality(workers) \in MinWorkers..MaxWorkers

\* Every goroutine of a worker that was not told to stop is in the map, where
\* run can stop it: what runs beyond the maximum is ending.
NoneUnsupervised ==
    \A w \in IDs : goroutine[w] = "running" \/ w \in consuming => w \in workers \/ Done(w)

\* A worker that was told to stop ends, and so does its consumer.
CancelledEnds == <>[](\A w \in cancelled : goroutine[w] = "ended" /\ w \notin consuming)
=============================================================================
