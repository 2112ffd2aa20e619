-------------------------- MODULE WorkerPoolProofs --------------------------
(***************************************************************************)
(* Proofs about WorkerPool, for every minimum, maximum and scale of the    *)
(* pool and every depth the management API may report.                     *)
(***************************************************************************)
EXTENDS WorkerPool, FiniteSetTheorems, TLAPS

USE PoolAssumption

\* A goroutine returns only once its context is done.
ReturnedIsDone == \A w \in IDs : goroutine[w] \in {"returned", "ended"} => Done(w)

\* Nothing was launched before run has begun.
StartsEmpty == pool = "start" => nextID = 1

PoolInv == PoolTypeOK /\ NoneUnsupervised /\ ReturnedIsDone /\ StartsEmpty

-----------------------------------------------------------------------------
LEMMA MaxOfTwo == ASSUME NEW a \in Int, NEW b \in Int PROVE Max({a, b}) \in {a, b}
  <1>1. \E x \in {a, b} : \A y \in {a, b} : x >= y
    OBVIOUS
  <1> QED BY <1>1 DEF Max

LEMMA MinOfTwo == ASSUME NEW a \in Int, NEW b \in Int PROVE Min({a, b}) \in {a, b}
  <1>1. \E x \in {a, b} : \A y \in {a, b} : x =< y
    OBVIOUS
  <1> QED BY <1>1 DEF Min

\* The size the pool is scaled to is a number, and so is the one it has.
LEMMA TargetIsNumber ==
    ASSUME PoolTypeOK PROVE Cardinality(workers) \in Nat /\ Target \in Int
  <1>1. Cardinality(workers) \in Nat
    <2>1. nextID - 1 \in Int /\ workers \subseteq 1 .. nextID - 1
      BY DEF PoolTypeOK
    <2>2. IsFiniteSet(1 .. nextID - 1)
      BY <2>1, FS_Interval
    <2> QED BY <2>1, <2>2, FS_Subset, FS_CardinalityType
  <1> DEFINE more == ((MaxWorkers - MinWorkers) * depth) \div ScaleMaxDepth
  <1>2. more \in Int
    <2>1. depth \in Int
      BY DEF PoolTypeOK
    <2>2. (MaxWorkers - MinWorkers) * depth \in Int
      BY <2>1
    <2>3. \A a \in Int, b \in Nat \ {0} : a \div b \in Int
      OBVIOUS
    <2> QED BY <2>2, <2>3
  <1> HIDE DEF more
  <1>3. Max({Cardinality(workers), MinWorkers}) \in Int
    BY <1>1, MaxOfTwo
  <1>4. Min({MaxWorkers, MinWorkers + more}) \in Int
    BY <1>2, MinOfTwo
  <1> QED BY <1>1, <1>3, <1>4 DEF Target, more

\* Launching workers that the bound allows keeps the invariant.
LEMMA LaunchInv ==
    ASSUME PoolInv, NEW n \in Nat, nextID + n <= MaxLaunches + 1, Launch(n),
           pool' = "wait", depth' \in Depths \union {0},
           UNCHANGED <<cancelled, consuming, shutdown>>
    PROVE  PoolInv'
  <1> DEFINE new == nextID .. nextID + n - 1
  <1>1. workers' = workers \union new /\ nextID' = nextID + n
    BY DEF Launch
  <1>2. goroutine' = [w \in IDs |-> IF w \in new THEN "running" ELSE goroutine[w]]
    BY DEF Launch
  <1>3. nextID' \in 1 .. MaxLaunches + 1 /\ new \subseteq 1 .. nextID' - 1 /\ new \subseteq IDs
    BY <1>1 DEF PoolInv, PoolTypeOK, IDs
  <1>4. 1 .. nextID - 1 \subseteq 1 .. nextID' - 1
    BY <1>1 DEF PoolInv, PoolTypeOK
  <1>5. workers \subseteq IDs
    BY DEF PoolInv, PoolTypeOK, IDs
  <1> HIDE DEF new
  <1>6. PoolTypeOK'
    BY <1>1, <1>2, <1>3, <1>4, <1>5 DEF PoolInv, PoolTypeOK
  <1>7. NoneUnsupervised' /\ ReturnedIsDone'
    BY <1>1, <1>2 DEF PoolInv, NoneUnsupervised, ReturnedIsDone, Done
  <1> QED BY <1>6, <1>7 DEF PoolInv, StartsEmpty

LEMMA PoolInvInit == PoolInit => PoolInv
  <1> SUFFICES ASSUME PoolInit PROVE PoolInv
    OBVIOUS
  <1>1. shutdown \in BOOLEAN
    BY DEF PoolInit
  <1> QED BY <1>1 DEF PoolInit, PoolInv, PoolTypeOK, NoneUnsupervised,
            ReturnedIsDone, StartsEmpty, IDs

\* The steps of run, scale and the process.
LEMMA RunInv ==
    ASSUME PoolInv,
           Start \/ ReadDepth \/ ScaleUp \/ ScaleDown \/ Shutdown \/ StopPool
    PROVE  PoolInv'
  <1> USE DEF PoolInv
  <1>1. CASE Start
    <2>1. nextID + MinWorkers <= MaxLaunches + 1 /\ MinWorkers \in Nat
      BY <1>1 DEF Start, StartsEmpty
    <2>2. depth' \in Depths \union {0}
      BY <1>1 DEF Start, PoolTypeOK
    <2> QED BY <1>1, <2>1, <2>2, LaunchInv DEF Start
  <1>2. CASE ReadDepth
    BY <1>2 DEF ReadDepth, PoolTypeOK, NoneUnsupervised, ReturnedIsDone, StartsEmpty, Done
  <1>3. CASE ScaleUp
    <2> DEFINE n == Target - Cardinality(workers)
    <2>1. n \in Nat
      BY <1>3, TargetIsNumber DEF ScaleUp
    <2>2. nextID + n <= MaxLaunches + 1
      BY <1>3, TargetIsNumber DEF ScaleUp, PoolTypeOK
    <2>3. Launch(n) /\ pool' = "wait" /\ depth' = 0 /\ UNCHANGED <<cancelled, consuming, shutdown>>
      BY <1>3 DEF ScaleUp
    <2> HIDE DEF n
    <2> QED BY <2>1, <2>2, <2>3, LaunchInv
  <1>4. CASE ScaleDown
    <2>1. PICK stopped \in SUBSET workers :
            workers' = workers \ stopped /\ cancelled' = cancelled \union stopped
      BY <1>4 DEF ScaleDown, Newest, Cancelled
    <2> QED BY <1>4, <2>1 DEF ScaleDown, PoolTypeOK, NoneUnsupervised, ReturnedIsDone,
              StartsEmpty, Done
  <1>5. CASE Shutdown
    <2>1. shutdown' \in BOOLEAN
      BY <1>5 DEF Shutdown
    <2> QED BY <1>5, <2>1 DEF Shutdown, PoolTypeOK, NoneUnsupervised, ReturnedIsDone,
              StartsEmpty, Done
  <1>6. CASE StopPool
    BY <1>6 DEF StopPool, PoolTypeOK, NoneUnsupervised, ReturnedIsDone, StartsEmpty, Done
  <1> QED BY <1>1, <1>2, <1>3, <1>4, <1>5, <1>6

\* The steps of a worker's goroutines.
LEMMA WorkerInv == ASSUME PoolInv, NEW w \in IDs, WorkerStep(w) PROVE PoolInv'
  <1> USE DEF PoolInv, PoolTypeOK, NoneUnsupervised, ReturnedIsDone, StartsEmpty, Done
  <1>1. CASE StartConsumer(w)
    BY <1>1 DEF StartConsumer
  <1>2. CASE ConsumerLost(w)
    BY <1>2 DEF ConsumerLost
  <1>3. CASE EndConsumer(w)
    BY <1>3 DEF EndConsumer
  <1>4. CASE Return(w)
    BY <1>4 DEF Return
  <1>5. CASE Unregister(w)
    <2>1. workers \subseteq IDs
      BY DEF IDs
    <2> QED BY <1>5, <2>1 DEF Unregister, Deleted
  <1> QED BY <1>1, <1>2, <1>3, <1>4, <1>5 DEF WorkerStep

LEMMA PoolInvStep == PoolInv /\ [PoolNext]_poolVars => PoolInv'
  <1> SUFFICES ASSUME PoolInv, [PoolNext]_poolVars PROVE PoolInv'
    OBVIOUS
  <1>1. CASE UNCHANGED poolVars
    BY <1>1 DEF poolVars, PoolInv, PoolTypeOK, NoneUnsupervised, ReturnedIsDone, StartsEmpty,
      Done
  <1> QED BY <1>1, RunInv, WorkerInv DEF PoolNext

\* The types hold, and no worker whose goroutine has ended is counted in the map.
THEOREM MapHasLiveWorkers == PoolSpec => []PoolTypeOK
  <1>1. PoolInv => PoolTypeOK
    BY DEF PoolInv
  <1> QED BY <1>1, PoolInvInit, PoolInvStep, PTL DEF PoolSpec

\* Whatever the pool launches and stops, what runs outside the map was told to stop.
THEOREM Supervised == PoolSpec => []NoneUnsupervised
  <1>1. PoolInv => NoneUnsupervised
    BY DEF PoolInv
  <1> QED BY <1>1, PoolInvInit, PoolInvStep, PTL DEF PoolSpec

-----------------------------------------------------------------------------
(* The size of the pool *)

\* A set of numbers is counted by the ranks of its members: as many have a rank
\* below n as there are ranks below n.
Rank(S, w) == Cardinality({v \in S : v > w})

\* The larger of two has the smaller rank.
LEMMA RanksDiffer ==
    ASSUME NEW S \in SUBSET Int, IsFiniteSet(S), NEW v \in S, NEW w \in S, v > w
    PROVE  Rank(S, v) < Rank(S, w) /\ Rank(S, v) \in Nat /\ Rank(S, w) \in Nat
  <1> DEFINE V == {u \in S : u > v}
             W == {u \in S : u > w}
  <1>1. V \subseteq W /\ v \in W /\ v \notin V
    <2>1. v \in Int /\ w \in Int /\ \A u \in S : u \in Int
      OBVIOUS
    <2>2. \A u \in S : u > v => u > w
      BY <2>1
    <2>3. ~(v > v)
      BY <2>1
    <2> QED BY <2>2, <2>3
  <1>2. IsFiniteSet(W) /\ Cardinality(V) <= Cardinality(W)
        /\ (Cardinality(W) = Cardinality(V) => W = V)
    <2>1. W \in SUBSET S
      OBVIOUS
    <2> HIDE DEF V, W
    <2>2. IsFiniteSet(W)
      BY <2>1, FS_Subset
    <2> QED BY <1>1, <2>2, FS_Subset
  <1>3. Cardinality(V) \in Nat /\ Cardinality(W) \in Nat
    BY <1>1, <1>2, FS_Subset, FS_CardinalityType
  <1>4. Cardinality(V) # Cardinality(W)
    BY <1>1, <1>2
  <1> HIDE DEF V, W
  <1>5. Cardinality(V) < Cardinality(W)
    BY <1>2, <1>3, <1>4
  <1> QED BY <1>3, <1>5 DEF Rank, V, W

\* All ranks are below the number of members.
LEMMA RankBelow ==
    ASSUME NEW S \in SUBSET Int, IsFiniteSet(S), NEW w \in S
    PROVE  Rank(S, w) \in 0 .. Cardinality(S) - 1
  <1> DEFINE W == {u \in S : u > w}
  <1>1. W \subseteq S \ {w}
    OBVIOUS
  <1>2. IsFiniteSet(S \ {w}) /\ Cardinality(S \ {w}) = Cardinality(S) - 1
    BY FS_RemoveElement
  <1>3. Cardinality(S) \in Nat
    BY FS_CardinalityType
  <1> HIDE DEF W
  <1>4. IsFiniteSet(W) /\ Cardinality(W) <= Cardinality(S) - 1
    <2>1. IsFiniteSet(W) /\ Cardinality(W) <= Cardinality(S \ {w})
      BY <1>1, <1>2, FS_Subset
    <2> QED BY <1>2, <2>1
  <1>5. Cardinality(W) \in Nat
    BY <1>4, FS_CardinalityType
  <1> QED BY <1>3, <1>4, <1>5 DEF Rank, W

\* A subset whose ranks lie in an interval is no larger than the interval.
LEMMA RanksCount ==
    ASSUME NEW S \in SUBSET Int, IsFiniteSet(S), NEW T \in SUBSET S,
           NEW a \in Int, NEW b \in Int, \A w \in T : Rank(S, w) \in a .. b
    PROVE  Cardinality(T) <= Cardinality(a .. b)
  <1> DEFINE f == [w \in T |-> Rank(S, w)]
  <1>1. f \in [T -> a .. b]
    OBVIOUS
  <1>2. ASSUME NEW v \in T, NEW w \in T, v # w PROVE f[v] # f[w]
    <2>0. v \in Int /\ w \in Int
      OBVIOUS
    <2>1. CASE v > w
      <3>1. Rank(S, v) < Rank(S, w) /\ Rank(S, v) \in Nat /\ Rank(S, w) \in Nat
        BY <2>1, RanksDiffer
      <3> QED BY <3>1
    <2>2. CASE w > v
      <3>1. Rank(S, w) < Rank(S, v) /\ Rank(S, v) \in Nat /\ Rank(S, w) \in Nat
        BY <2>2, RanksDiffer
      <3> QED BY <3>1
    <2> QED BY <1>2, <2>0, <2>1, <2>2
  <1>3. f \in Injection(T, a .. b)
    BY <1>1, <1>2 DEF Injection, IsInjective
  <1>4. IsFiniteSet(a .. b)
    BY FS_Interval
  <1> HIDE DEF f
  <1> QED BY <1>3, <1>4, FS_Injection

\* Of a set of numbers, the n largest are n.
LEMMA NewestCount ==
    ASSUME workers \in SUBSET Int, IsFiniteSet(workers), NEW n \in 0 .. Cardinality(workers)
    PROVE  Cardinality(workers \ Newest(n)) = Cardinality(workers) - n
  <1> DEFINE c == Cardinality(workers)
             New == Newest(n)
             Old == workers \ New
  <1>0. c \in Nat
    BY FS_CardinalityType
  <1>1. New \in SUBSET workers /\ Old \in SUBSET workers
    BY DEF Newest
  <1>2. \A w \in workers : Rank(workers, w) \in 0 .. c - 1
    BY RankBelow
  <1>3. \A w \in New : Rank(workers, w) \in 0 .. n - 1
    <2> SUFFICES ASSUME NEW w \in New PROVE Rank(workers, w) \in 0 .. n - 1
      OBVIOUS
    <2>1. w \in workers /\ Rank(workers, w) < n
      BY DEF Newest, Rank
    <2> HIDE DEF c
    <2> QED BY <1>0, <1>2, <2>1
  <1>4. \A w \in Old : Rank(workers, w) \in n .. c - 1
    <2> SUFFICES ASSUME NEW w \in Old PROVE Rank(workers, w) \in n .. c - 1
      OBVIOUS
    <2>1. w \in workers /\ ~(Rank(workers, w) < n)
      BY DEF Newest, Rank
    <2> HIDE DEF c
    <2> QED BY <1>0, <1>2, <2>1
  <1>5. Cardinality(New) <= Cardinality(0 .. n - 1)
    BY <1>1, <1>3, RanksCount
  <1>6. Cardinality(Old) <= Cardinality(n .. c - 1)
    <2>1. n \in Int /\ c - 1 \in Int
      BY <1>0
    <2> HIDE DEF c, Old
    <2> QED BY <1>1, <1>4, <2>1, RanksCount
  <1>7. Cardinality(0 .. n - 1) = n
    <2>1. n - 1 \in Int /\ n \in Nat
      BY <1>0
    <2>2. Cardinality(0 .. n - 1) = IF 0 > n - 1 THEN 0 ELSE n - 1 - 0 + 1
      BY <2>1, FS_Interval
    <2> QED BY <2>1, <2>2
  <1>8. Cardinality(n .. c - 1) = c - n
    <2>1. c - 1 \in Int /\ n \in Nat /\ n <= c
      BY <1>0
    <2> HIDE DEF c
    <2>2. Cardinality(n .. c - 1) = IF n > c - 1 THEN 0 ELSE c - 1 - n + 1
      BY <2>1, FS_Interval
    <2> QED BY <1>0, <2>1, <2>2
  <1>9. c = Cardinality(New) + Cardinality(Old) /\ Cardinality(New) \in Nat
        /\ Cardinality(Old) \in Nat
    <2>1. IsFiniteSet(New) /\ IsFiniteSet(Old)
      BY <1>1, FS_Subset
    <2>2. Cardinality(Old) = c - Cardinality(workers \cap New)
      BY FS_Difference
    <2>3. workers \cap New = New
      BY <1>1
    <2>4. Cardinality(New) \in Nat /\ Cardinality(Old) \in Nat
      BY <2>1, FS_CardinalityType
    <2> HIDE DEF New, Old, c
    <2>5. Cardinality(Old) = c - Cardinality(New)
      BY <2>2, <2>3
    <2> QED BY <1>0, <2>4, <2>5
  <1>10. n \in Nat
    OBVIOUS
  <1> HIDE DEF c, New, Old
  <1>11. Cardinality(Old) = c - n
    BY <1>0, <1>5, <1>6, <1>7, <1>8, <1>9, <1>10
  <1> QED BY <1>11 DEF Old, New, c

\* The minimum is no more than either.
LEMMA MinIsLess == ASSUME NEW a \in Int, NEW b \in Int PROVE Min({a, b}) <= a
  <1>1. \E x \in {a, b} : \A y \in {a, b} : x =< y
    OBVIOUS
  <1> QED BY <1>1 DEF Min

\* From a size within the bounds the pool is scaled to one within the bounds.
LEMMA TargetBounded ==
    ASSUME PoolTypeOK, Cardinality(workers) \in MinWorkers .. MaxWorkers
    PROVE  Target \in MinWorkers .. MaxWorkers
  <1> DEFINE more == ((MaxWorkers - MinWorkers) * depth) \div ScaleMaxDepth
  <1>1. CASE depth < 0
    BY <1>1, MaxOfTwo DEF Target
  <1>2. CASE ~(depth < 0)
    <2>1. more \in Nat
      <3>1. MaxWorkers - MinWorkers \in Nat /\ depth \in Nat
        BY <1>2 DEF PoolTypeOK
      <3>2. \A a \in Nat, b \in Nat : a * b \in Nat
        OBVIOUS
      <3>3. (MaxWorkers - MinWorkers) * depth \in Nat
        BY <3>1, <3>2
      <3>4. \A a \in Nat, b \in Nat \ {0} : a \div b \in Nat
        OBVIOUS
      <3> QED BY <3>3, <3>4
    <2> HIDE DEF more
    <2>2. /\ MaxWorkers \in Int /\ MinWorkers + more \in Int
          /\ MinWorkers + more >= MinWorkers
      BY <2>1
    <2>3. Min({MaxWorkers, MinWorkers + more}) \in MinWorkers .. MaxWorkers
      <3>1. PICK size \in {MaxWorkers, MinWorkers + more} :
              size = Min({MaxWorkers, MinWorkers + more}) /\ size <= MaxWorkers
        BY <2>2, MinOfTwo, MinIsLess
      <3>2. size \in Int /\ size >= MinWorkers /\ size <= MaxWorkers
        BY <2>2, <3>1
      <3> QED BY <3>1, <3>2
    <2> QED BY <1>2, <2>3 DEF Target, more
  <1> QED BY <1>1, <1>2

\* Until the process stops, no worker of the map was cancelled: one that ends was
\* taken off the map before.
NoneCancelled == ~shutdown => workers \cap cancelled = {}

BoundedInv == PoolInv /\ NoneCancelled /\ PoolBounded

\* The map is a finite set of numbers.
LEMMA WorkersFinite ==
    ASSUME PoolTypeOK
    PROVE  IsFiniteSet(workers) /\ Cardinality(workers) \in Nat /\ workers \in SUBSET Int
  <1>1. nextID - 1 \in Int /\ workers \in SUBSET (1 .. nextID - 1)
    BY DEF PoolTypeOK
  <1>2. IsFiniteSet(1 .. nextID - 1)
    BY <1>1, FS_Interval
  <1>3. IsFiniteSet(workers)
    BY <1>1, <1>2, FS_Subset
  <1>4. workers \in SUBSET Int
    BY <1>1
  <1> QED BY <1>3, <1>4, FS_CardinalityType

\* What is launched was not in the map and was not cancelled.
LEMMA LaunchCount ==
    ASSUME PoolTypeOK, NEW n \in Nat, Launch(n), cancelled' = cancelled
    PROVE  /\ Cardinality(workers') = Cardinality(workers) + n
           /\ workers' \cap cancelled' = workers \cap cancelled
  <1> DEFINE new == nextID .. nextID + n - 1
  <1>1. workers' = workers \union new /\ nextID \in Nat
    BY DEF Launch, PoolTypeOK
  <1>2. workers \cap new = {} /\ cancelled \cap new = {}
    BY DEF PoolTypeOK
  <1>3. IsFiniteSet(new) /\ Cardinality(new) = n
    <2>1. nextID + n - 1 \in Int
      BY <1>1
    <2>2. /\ IsFiniteSet(nextID .. nextID + n - 1)
          /\ Cardinality(nextID .. nextID + n - 1)
               = IF nextID > nextID + n - 1 THEN 0 ELSE nextID + n - 1 - nextID + 1
      BY <1>1, <2>1, FS_Interval
    <2> QED BY <1>1, <2>1, <2>2
  <1> HIDE DEF new
  <1>4. Cardinality(workers') = Cardinality(workers) + n - Cardinality(workers \cap new)
    BY <1>1, <1>3, WorkersFinite, FS_Union
  <1>5. Cardinality(workers \cap new) = 0
    BY <1>2, FS_EmptySet
  <1>6. Cardinality(workers') = Cardinality(workers) + n
    BY <1>4, <1>5, WorkersFinite
  <1> QED BY <1>1, <1>2, <1>6

\* Every step keeps the bounds.
LEMMA BoundedStep == BoundedInv /\ [PoolNext]_poolVars => BoundedInv'
  <1> SUFFICES ASSUME BoundedInv, [PoolNext]_poolVars PROVE NoneCancelled' /\ PoolBounded'
    BY PoolInvStep DEF BoundedInv
  <1> USE DEF BoundedInv, PoolInv, NoneCancelled, PoolBounded
  <1>1. CASE Start
    <2>1. workers = {} /\ Launch(MinWorkers) /\ cancelled' = cancelled
      BY <1>1 DEF Start, StartsEmpty, PoolTypeOK
    <2>2. /\ Cardinality(workers') = Cardinality(workers) + MinWorkers
          /\ workers' \cap cancelled' = workers \cap cancelled
      BY <2>1, LaunchCount
    <2>3. Cardinality(workers) = 0
      BY <2>1, FS_EmptySet
    <2> QED BY <2>1, <2>2, <2>3
  <1>2. CASE ReadDepth \/ Shutdown
    BY <1>2 DEF ReadDepth, Shutdown
  <1>3. CASE ScaleUp
    <2>0. Target \in Int /\ Cardinality(workers) \in Nat /\ Target >= Cardinality(workers)
      BY <1>3, TargetIsNumber DEF ScaleUp
    <2>1. Target - Cardinality(workers) \in Nat
      BY <2>0
    <2>2. Launch(Target - Cardinality(workers)) /\ UNCHANGED <<cancelled, shutdown>>
          /\ pool = "scale"
      BY <1>3 DEF ScaleUp
    <2>3. /\ Cardinality(workers') = Cardinality(workers) + (Target - Cardinality(workers))
          /\ workers' \cap cancelled' = workers \cap cancelled
      BY <2>1, <2>2, LaunchCount
    <2>4. Cardinality(workers') = Target
      BY <2>0, <2>3
    <2> QED BY <2>2, <2>3, <2>4, TargetBounded
  <1>4. CASE ScaleDown
    <2> DEFINE n == Cardinality(workers) - Target
    <2>0. Target \in Int /\ Cardinality(workers) \in Nat /\ Target < Cardinality(workers)
      BY <1>4, TargetIsNumber DEF ScaleDown
    <2>1. /\ workers' = workers \ Newest(n) /\ cancelled' = cancelled \union Newest(n)
          /\ shutdown' = shutdown /\ pool = "scale"
      BY <1>4 DEF ScaleDown, Cancelled
    <2>2. ASSUME ~shutdown PROVE Cardinality(workers') = Target /\ Target \in MinWorkers .. MaxWorkers
      <3>1. Target \in MinWorkers .. MaxWorkers
        BY <2>1, <2>2, TargetBounded
      <3>2. n \in 0 .. Cardinality(workers)
        BY <2>0, <3>1
      <3>3. Cardinality(workers') = Cardinality(workers) - n
        BY <2>1, <3>2, WorkersFinite, NewestCount
      <3> QED BY <2>0, <3>1, <3>3
    <2> HIDE DEF n
    <2> QED BY <2>1, <2>2
  <1>5. CASE StopPool
    BY <1>5 DEF StopPool
  <1>6. ASSUME NEW w \in IDs, WorkerStep(w) PROVE NoneCancelled' /\ PoolBounded'
    <2>1. CASE Unregister(w)
      <3>1. ~shutdown => w \notin workers
        BY <2>1 DEF Unregister, ReturnedIsDone, Done
      <3>2. ~shutdown => workers' = workers
        BY <2>1, <3>1 DEF Unregister, Deleted
      <3> QED BY <2>1, <3>2 DEF Unregister
    <2> QED BY <1>6, <2>1 DEF WorkerStep, StartConsumer, ConsumerLost, EndConsumer, Return
  <1>7. CASE UNCHANGED poolVars
    BY <1>7 DEF poolVars
  <1> QED BY <1>1, <1>2, <1>3, <1>4, <1>5, <1>6, <1>7 DEF PoolNext

\* The map has between MinWorkers and MaxWorkers workers until the process stops,
\* for every depth that is read and however long stopped workers take to end.
THEOREM PoolWithinBounds == PoolSpec => []PoolBounded
  <1>1. PoolInit => BoundedInv
    <2>1. PoolInit => NoneCancelled /\ PoolBounded
      BY DEF PoolInit, NoneCancelled, PoolBounded
    <2> QED BY <2>1, PoolInvInit DEF BoundedInv
  <1>2. BoundedInv => PoolBounded
    BY DEF BoundedInv
  <1> QED BY <1>1, <1>2, BoundedStep, PTL DEF PoolSpec
=============================================================================
