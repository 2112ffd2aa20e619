--------------------------- MODULE SharedRowProofs ---------------------------
(***************************************************************************)
(* Proofs about the components whose processes share a row of Postgres and *)
(* keep something of it in memory or in Redis: ChannelConfig, for every    *)
(* number of workers, gateways, administrators and updates, and every set  *)
(* of retry limits; TemplateStore, for every number of creators and        *)
(* versions; WorkerJobs, for every number of replicas, requests, results   *)
(* and faults.                                                             *)
(***************************************************************************)
EXTENDS ChannelConfig, TemplateStore, WorkerJobs, FiniteSetTheorems, TLAPS

USE ConfigAssumption, JobAssumption

-----------------------------------------------------------------------------
(* ChannelConfig *)

StaleOK == stale \in BOOLEAN

ConfigValuesOK ==
    /\ row \in Rows /\ redis \in Copies
    /\ local \in [Workers -> Copies]
    /\ filler \in [Fillers -> {"idle", "redis", "postgres", "store"}]
    /\ found \in [Fillers -> Copies]
    /\ \A w \in Workers : filler[w] = "store" => found[w] \in Rows
    /\ admin \in [Admins -> {"idle", "read", "write"}]
    /\ payload \in [Admins -> (Rows \intersect EnabledConfigs) \union {Absent}]
    /\ outdated \subseteq InHand
    /\ updates \in 0..MaxUpdates /\ configFaults \in 0..MaxConfigFaults

\* What is in hand and not outdated is the configuration of the row as it is.
InHandCurrent ==
    /\ \A f \in Fillers : filler[f] = "store" => f \in outdated \/ found[f] \in Redisable
    /\ \A a \in Admins : admin[a] = "write" => a \in outdated \/ payload[a] \in Redisable

ConfigInv == StaleOK /\ ConfigValuesOK /\ InHandCurrent /\ StaleOnlyByRace

\* What may be copied: nothing, the default, the configuration of an enabled row.
LEMMA CopiesMade ==
    /\ Absent \in Copies /\ DefaultConfig \in Copies
    /\ \A config \in Rows : config.enabled => config \in Copies /\ config \in EnabledConfigs
    /\ \A copy \in Copies : FromCache(copy) \in Copies
    /\ EnabledConfigs \subseteq Copies
  <1>1. Absent \in Copies /\ DefaultConfig \in Copies /\ EnabledConfigs \subseteq Copies
    BY DEF Copies, DefaultConfig, Default, EnabledConfigs
  <1>2. \A config \in Rows : config.enabled => config \in EnabledConfigs
    BY DEF Rows, EnabledConfigs
  <1>3. ASSUME NEW copy \in Copies PROVE FromCache(copy) \in Copies
    <2>1. CASE copy = Absent
      BY <2>1 DEF FromCache, Copies, Absent
    <2>2. CASE copy \in EnabledConfigs
      BY <2>2 DEF FromCache, Copies, EnabledConfigs, Default
    <2> QED BY <2>1, <2>2 DEF Copies
  <1> QED BY <1>1, <1>2, <1>3

LEMMA ConfigInvInit == ConfigInit => ConfigInv
  <1> SUFFICES ASSUME ConfigInit PROVE ConfigInv
    OBVIOUS
  <1>1. StaleOK
    BY DEF ConfigInit, StaleOK
  <1>2. ConfigValuesOK
    BY CopiesMade DEF ConfigInit, ConfigValuesOK, Fillers, InHand
  <1>3. InHandCurrent /\ StaleOnlyByRace
    BY DEF ConfigInit, InHandCurrent, StaleOnlyByRace, Redisable
  <1> QED BY <1>1, <1>2, <1>3 DEF ConfigInv

LEMMA StaleStep == StaleOK /\ [ConfigNext]_configVars => StaleOK'
  <1> SUFFICES ASSUME StaleOK, [ConfigNext]_configVars PROVE StaleOK'
    OBVIOUS
  <1> USE DEF StaleOK
  <1>1. ASSUME NEW f \in Fillers, StoreRedis(f) PROVE StaleOK'
    <2>1. stale' = (f \in outdated) \/ stale' = stale
      BY <1>1 DEF StoreRedis
    <2>2. (f \in outdated) \in BOOLEAN
      OBVIOUS
    <2> QED BY <2>1, <2>2, Zenon
  <1>2. ASSUME NEW a \in Admins, AdminStep(a) PROVE StaleOK'
    <2>1. stale' = TRUE \/ stale' = stale \/ stale' = (a \in outdated)
      BY <1>2 DEF AdminStep, ReadBack, CacheWorkerChannelConfig
    <2>2. (a \in outdated) \in BOOLEAN
      OBVIOUS
    <2> QED BY <2>1, <2>2, Zenon
  <1>3. CASE ExpireRedis
    BY <1>3 DEF ExpireRedis
  <1>4. ASSUME stale' = stale PROVE StaleOK'
    BY <1>4
  <1> QED BY <1>1, <1>2, <1>3, <1>4
        DEF ConfigNext, Miss, FillerStep, RedisHit, RedisMiss, ReadPostgres, GatewayReadFails,
          Update, UpdateFails, ExpireLocal, configVars

-----------------------------------------------------------------------------
(* Type correctness *)

\* The steps of a lookup.
LEMMA LookupTypes ==
    ASSUME ConfigValuesOK, NEW f \in Fillers, Miss(f) \/ FillerStep(f)
    PROVE  ConfigValuesOK'
  <1> USE DEF ConfigValuesOK, Fillers, InHand, mutations
  <1>1. CASE Miss(f)
    BY <1>1 DEF Miss
  <1>2. CASE RedisHit(f)
    BY <1>2, CopiesMade DEF RedisHit
  <1>3. CASE RedisMiss(f)
    BY <1>3 DEF RedisMiss, ConfigFault
  <1>4. CASE ReadPostgres(f)
    BY <1>4, CopiesMade DEF ReadPostgres, StoresInRedis, ConfigFault
  <1>5. CASE StoreRedis(f)
    BY <1>5, CopiesMade DEF StoreRedis, ConfigFault
  <1> QED BY <1>1, <1>2, <1>3, <1>4, <1>5 DEF FillerStep

\* The steps of an administrator's request.
LEMMA MutationTypes ==
    ASSUME ConfigValuesOK, NEW a \in Admins,
           Update(a) \/ UpdateFails(a) \/ AdminStep(a)
    PROVE  ConfigValuesOK'
  <1> USE DEF ConfigValuesOK, Fillers, InHand, lookups
  <1>1. CASE Update(a)
    BY <1>1 DEF Update
  <1>2. CASE UpdateFails(a)
    BY <1>2 DEF UpdateFails, ConfigFault
  <1>3. CASE ReadBack(a)
    BY <1>3, CopiesMade DEF ReadBack, Payload, ConfigFault
  <1>4. CASE CacheWorkerChannelConfig(a)
    BY <1>4, CopiesMade DEF CacheWorkerChannelConfig, ConfigFault
  <1> QED BY <1>1, <1>2, <1>3, <1>4 DEF AdminStep

LEMMA TypesStep ==
    ASSUME ConfigValuesOK, [ConfigNext]_configVars PROVE ConfigValuesOK'
  <1>1. ASSUME NEW g \in Gateways, GatewayReadFails(g) PROVE ConfigValuesOK'
    BY <1>1 DEF GatewayReadFails, ConfigFault, ConfigValuesOK, Fillers,
      InHand, mutations
  <1>2. ASSUME ExpireRedis \/ \E w \in Workers : ExpireLocal(w) PROVE ConfigValuesOK'
    BY <1>2, CopiesMade DEF ExpireRedis, ExpireLocal, ConfigValuesOK, InHand, lookups, mutations
  <1>3. CASE UNCHANGED configVars
    BY <1>3 DEF configVars, ConfigValuesOK, InHand
  <1> QED BY <1>1, <1>2, <1>3, LookupTypes, MutationTypes DEF ConfigNext

-----------------------------------------------------------------------------
(* Redis is stale only after a race or a failed call *)

\* A lookup stores the row's configuration unless the row has changed since.
LEMMA LookupCurrent ==
    ASSUME ConfigValuesOK, InHandCurrent, StaleOK, StaleOnlyByRace,
           NEW f \in Fillers, Miss(f) \/ FillerStep(f)
    PROVE  InHandCurrent' /\ StaleOnlyByRace'
  <1> USE DEF ConfigValuesOK, InHandCurrent, StaleOnlyByRace, Redisable, mutations
  <1>1. CASE Miss(f)
    BY <1>1 DEF Miss
  <1>2. CASE RedisHit(f)
    BY <1>2 DEF RedisHit
  <1>3. CASE RedisMiss(f)
    BY <1>3 DEF RedisMiss
  <1>4. CASE ReadPostgres(f)
    BY <1>4 DEF ReadPostgres, StoresInRedis, Rows, Fillers
  <1>5. CASE StoreRedis(f)
    BY <1>5 DEF StoreRedis, Fillers
  <1> QED BY <1>1, <1>2, <1>3, <1>4, <1>5 DEF FillerStep

\* An administrator's request writes what the row has, unless it was overtaken.
LEMMA MutationCurrent ==
    ASSUME ConfigValuesOK, InHandCurrent, StaleOK, StaleOnlyByRace,
           NEW a \in Admins, Update(a) \/ UpdateFails(a) \/ AdminStep(a)
    PROVE  InHandCurrent' /\ StaleOnlyByRace'
  <1> USE DEF ConfigValuesOK, InHandCurrent, StaleOnlyByRace, Redisable, lookups
  <1>1. CASE Update(a)
    BY <1>1 DEF Update, InHand
  <1>2. CASE UpdateFails(a)
    BY <1>2 DEF UpdateFails
  <1>3. CASE ReadBack(a)
    BY <1>3 DEF ReadBack, Payload
  <1>4. CASE CacheWorkerChannelConfig(a)
    BY <1>4 DEF CacheWorkerChannelConfig, Fillers
  <1> QED BY <1>1, <1>2, <1>3, <1>4 DEF AdminStep

LEMMA CurrentStep ==
    ASSUME ConfigInv, [ConfigNext]_configVars
    PROVE  InHandCurrent' /\ StaleOnlyByRace'
  <1>1. ASSUME NEW g \in Gateways, GatewayReadFails(g) PROVE InHandCurrent' /\ StaleOnlyByRace'
    BY <1>1 DEF GatewayReadFails, ConfigInv, ConfigValuesOK, Fillers, InHandCurrent,
      StaleOnlyByRace, Redisable, mutations
  <1>2. ASSUME ExpireRedis \/ \E w \in Workers : ExpireLocal(w)
        PROVE  InHandCurrent' /\ StaleOnlyByRace'
    BY <1>2 DEF ExpireRedis, ExpireLocal, ConfigInv, InHandCurrent, StaleOnlyByRace, Redisable,
      lookups, mutations
  <1>3. CASE UNCHANGED configVars
    BY <1>3 DEF configVars, ConfigInv, InHandCurrent, StaleOnlyByRace, Redisable
  <1> QED BY <1>1, <1>2, <1>3, LookupCurrent, MutationCurrent DEF ConfigNext, ConfigInv

LEMMA ConfigInvariant == ConfigSpec => []ConfigInv
  <1>1. ConfigInit => ConfigInv
    BY ConfigInvInit
  <1>2. ConfigInv /\ [ConfigNext]_configVars => ConfigInv'
    BY StaleStep, TypesStep, CurrentStep DEF ConfigInv
  <1> QED BY <1>1, <1>2, PTL DEF ConfigSpec

\* The types hold: no copy is of a disabled channel, and a worker stores only what
\* it read from a row.
THEOREM ConfigTypes == ConfigSpec => []ConfigTypeOK
  <1>1. ConfigInv => ConfigTypeOK
    BY DEF ConfigInv, StaleOK, ConfigValuesOK, ConfigTypeOK
  <1> QED BY <1>1, ConfigInvariant, PTL

\* Without a change under way Redis has the row's configuration or nothing,
\* unless someone wrote what he had read before a change, a call failed, or
\* ops-gateway stored the default of a disabled channel.
THEOREM RedisFollowsRow == ConfigSpec => []StaleOnlyByRace
  <1>1. ConfigInv => StaleOnlyByRace
    BY DEF ConfigInv
  <1> QED BY <1>1, ConfigInvariant, PTL

-----------------------------------------------------------------------------
(* TemplateStore *)

RowStaleOK == rowStale \in BOOLEAN

CreatingOK == creating \in [Creators -> [body : Bodies \union {"none"}, version : Nat]]

\* A POST that has not saved yet has what the map has, unless it was overtaken.
PendingCurrent ==
    \A c \in Creators : creating[c] # NoTemplate => c \in overtakenPosts \/ creating[c] = store

StoreInv == RowStaleOK /\ CreatingOK /\ PendingCurrent /\ TableFollowsStore

\* What a save does to row and history.
LEMMA SaveEffect ==
    ASSUME NEW template, NEW late \in BOOLEAN, rowStale \in BOOLEAN,
           SaveTemplateToDB(template, late)
    PROVE  rowStale' \in BOOLEAN /\ (rowStale' \/ late \/ table' = template)
  BY Zenon DEF SaveTemplateToDB

LEMMA StoreInvStep == StoreInv /\ [TemplateNext]_templateVars => StoreInv'
  <1> SUFFICES ASSUME StoreInv, [TemplateNext]_templateVars PROVE StoreInv'
    OBVIOUS
  <1> USE DEF StoreInv, RowStaleOK, CreatingOK, NoTemplate, PendingCurrent, TableFollowsStore,
          Pending
  <1>1. ASSUME NEW c \in Creators, Create(c) PROVE StoreInv'
    BY <1>1 DEF Create
  <1>2. ASSUME NEW c \in Creators, SaveCreated(c) PROVE StoreInv'
    <2>1. /\ SaveTemplateToDB(creating[c], c \in overtakenPosts)
          /\ creating' = [creating EXCEPT ![c] = NoTemplate]
          /\ overtakenPosts' = overtakenPosts \ {c} /\ store' = store
          /\ creating[c] # NoTemplate
      BY <1>2 DEF SaveCreated
    <2>0. (c \in overtakenPosts) \in BOOLEAN
      OBVIOUS
    <2>2. rowStale' \in BOOLEAN /\ (rowStale' \/ c \in overtakenPosts \/ table' = creating[c])
      BY <2>0, <2>1, SaveEffect, Zenon
    <2>3. c \in overtakenPosts => rowStale' = TRUE
      BY <2>1 DEF SaveTemplateToDB
    <2>4. \A d \in Creators \ {c} : creating'[d] = creating[d]
      BY <2>1
    <2>5. rowStale' = TRUE \/ table' = store'
      BY <2>1, <2>2, <2>3
    <2> QED BY <2>1, <2>2, <2>4, <2>5
  <1>3. CASE Put
    <2>1. PICK updated : store' = updated /\ SaveTemplateToDB(updated, FALSE)
      BY <1>3 DEF Put
    <2>2. rowStale' \in BOOLEAN /\ (rowStale' \/ table' = store')
      BY <2>1, SaveEffect
    <2>3. UNCHANGED creating /\ overtakenPosts' = Pending
      BY <1>3 DEF Put
    <2> QED BY <2>2, <2>3
  <1>4. CASE Delete
    BY <1>4 DEF Delete
  <1>5. CASE Reload
    BY <1>5 DEF Reload
  <1>6. CASE UNCHANGED templateVars
    BY <1>6 DEF templateVars
  <1> QED BY <1>1, <1>2, <1>3, <1>4, <1>5, <1>6 DEF TemplateNext

\* However POST, PUT, DELETE and restarts interleave, the row is the map's entry
\* when no POST is between its two steps, unless the last save or load failed, a
\* POST was saved after a later write of the map, or the template was deleted.
THEOREM RowFollowsMap == TemplateSpec => []TableFollowsStore
  <1>1. TemplateInit => StoreInv
    <2> SUFFICES ASSUME TemplateInit PROVE StoreInv
      OBVIOUS
    <2>1. RowStaleOK
      BY DEF TemplateInit, RowStaleOK
    <2>2. CreatingOK /\ PendingCurrent /\ TableFollowsStore
      BY DEF TemplateInit, CreatingOK, PendingCurrent, NoTemplate, TableFollowsStore
    <2> QED BY <2>1, <2>2 DEF StoreInv
  <1>2. StoreInv => TableFollowsStore
    BY DEF StoreInv
  <1> QED BY <1>1, <1>2, StoreInvStep, PTL DEF TemplateSpec

-----------------------------------------------------------------------------
(* WorkerJobs *)

\* Requests that have inserted the row and not published the job yet.
Owes(r) == request[r] \in {"inserted", "publish"}

\* What the steps need of the types.
JobsTyped ==
    /\ request \in [Requests -> {"idle", "insert", "inserted", "known", "publish"}]
    /\ job \in Outcomes \union {"none", "queued"}
    /\ published \in Nat /\ applied \in Nat

\* A job is published by the one request that inserted its row: without a row
\* nobody owes a publish, and once it was published nobody owes one any more.
OneInserter ==
    /\ job = "none" => published = 0 /\ \A r \in Requests : ~Owes(r)
    /\ \A r \in Requests : Owes(r) => published = 0
    /\ \A r, q \in Requests : Owes(r) /\ Owes(q) => r = q

\* A result was counted only if the row shows it.
CountedIsShown == job \in {"none", "queued"} => applied = 0

JobsInv ==
    JobsTyped /\ OneInserter /\ PublishedOnce /\ JobNotForgotten /\ CountedIsShown /\ AppliedOnce

LEMMA JobsInvInit == JobInit => JobsInv
  BY DEF JobInit, JobsInv, JobsTyped, OneInserter, PublishedOnce, JobNotForgotten,
    CountedIsShown, AppliedOnce, Owes, Outcomes

\* The steps of a request.
LEMMA RequestInv ==
    ASSUME JobsInv, NEW r \in Requests, RequestStep(r) PROVE JobsInv'
  <1> USE DEF JobsInv, JobsTyped, OneInserter, PublishedOnce, JobNotForgotten,
        CountedIsShown, AppliedOnce, Owes, Outcomes, Go, reporting
  <1>1. CASE Call(r)
    BY <1>1 DEF Call
  <1>2. CASE WriteQueuedJob(r)
    BY <1>2 DEF WriteQueuedJob, Inserted
  <1>3. CASE WriteQueuedJobFails(r)
    BY <1>3 DEF WriteQueuedJobFails
  <1>4. CASE Remember(r)
    BY <1>4 DEF Remember, AfterInsert
  <1>5. CASE PublishWorkerJob(r)
    BY <1>5 DEF PublishWorkerJob
  <1>6. CASE PublishWorkerJobFails(r)
    BY <1>6 DEF PublishWorkerJobFails
  <1> QED BY <1>1, <1>2, <1>3, <1>4, <1>5, <1>6 DEF RequestStep

\* The steps of a consumer of results.
LEMMA ResultInv ==
    ASSUME JobsInv, NEW p \in Processes, NEW o \in Outcomes,
           TakeResult(p, o) \/ HandlerStep(p, o) \/ WriteDeliveryResultFails(p, o)
    PROVE  JobsInv'
  <1> USE DEF JobsInv, JobsTyped, OneInserter, PublishedOnce, JobNotForgotten,
        CountedIsShown, AppliedOnce, Owes, Outcomes, calls
  <1>1. CASE TakeResult(p, o)
    BY <1>1 DEF TakeResult
  <1>2. CASE WriteDeliveryResult(p, o)
    BY <1>2 DEF WriteDeliveryResult, Apply, MayApply
  <1>3. CASE RememberResult(p, o)
    BY <1>3 DEF RememberResult
  <1>4. CASE WriteDeliveryResultFails(p, o)
    BY <1>4 DEF WriteDeliveryResultFails, Apply, MayApply
  <1> QED BY <1>1, <1>2, <1>3, <1>4 DEF HandlerStep

\* Every step keeps the invariant.
LEMMA JobsInvStep == JobsInv /\ [JobNext]_jobVars => JobsInv'
  <1> SUFFICES ASSUME JobsInv, [JobNext]_jobVars PROVE JobsInv'
    OBVIOUS
  <1>1. ASSUME NEW r \in Requests, RequestStep(r) PROVE JobsInv'
    BY <1>1, RequestInv
  <1>2. ASSUME NEW o \in Outcomes, Report(o) PROVE JobsInv'
    BY <1>2 DEF Report, calls, JobsInv, JobsTyped, OneInserter, PublishedOnce,
      JobNotForgotten, CountedIsShown, AppliedOnce, Owes
  <1>3. ASSUME NEW p \in Processes, RestartReplica(p) PROVE JobsInv'
    BY <1>3 DEF RestartReplica, JobsInv, JobsTyped, OneInserter, PublishedOnce,
      JobNotForgotten, CountedIsShown, AppliedOnce, Owes, Outcomes
  <1>4. ASSUME NEW p \in Processes, NEW o \in Outcomes,
               TakeResult(p, o) \/ HandlerStep(p, o) \/ WriteDeliveryResultFails(p, o)
        PROVE  JobsInv'
    BY <1>4, ResultInv
  <1>5. CASE UNCHANGED jobVars
    BY <1>5 DEF jobVars, JobsInv, JobsTyped, OneInserter, PublishedOnce,
      JobNotForgotten, CountedIsShown, AppliedOnce, Owes
  <1> QED BY <1>1, <1>2, <1>3, <1>4, <1>5 DEF JobNext

LEMMA JobsInvariant == JobSpec => []JobsInv
  BY JobsInvInit, JobsInvStep, PTL DEF JobSpec

\* A job is published at most once, whichever replicas get its requests.
THEOREM JobPublishedOnce == JobSpec => []PublishedOnce
  <1>1. JobsInv => PublishedOnce
    BY DEF JobsInv
  <1> QED BY <1>1, JobsInvariant, PTL

\* A job with a row is published or about to be, unless its request ended early.
THEOREM JobRemembered == JobSpec => []JobNotForgotten
  <1>1. JobsInv => JobNotForgotten
    BY DEF JobsInv
  <1> QED BY <1>1, JobsInvariant, PTL

\* Of all results of a job, delivered again or not, one is counted.
THEOREM ResultCountedOnce == JobSpec => []AppliedOnce
  <1>1. JobsInv => AppliedOnce
    BY DEF JobsInv
  <1> QED BY <1>1, JobsInvariant, PTL

-----------------------------------------------------------------------------
(* The messages of WorkerJobs *)

\* The types, but for the Boolean ones, which the provers take by themselves.
DroppedOK == dropped \in BOOLEAN

CallsOK ==
    /\ queued \subseteq Processes /\ processed \subseteq Processes
    /\ at \in [Requests -> Processes] /\ jobFaults \in 0..MaxJobFaults

HandlersOK ==
    /\ handler \in [Processes -> [Outcomes -> {"idle", "write", "written"}]]
    /\ results \in [Outcomes -> Nat] /\ reports \in 0..MaxReports

\* The consumers that have taken a message of a queue and not acked it, and the
\* messages of the queue with those that they have.
Busy(o) == {p \in Processes : handler[p][o] # "idle"}

Out(o) == results[o] + Cardinality(Busy(o))

\* A message is in its queue or with one consumer.
MessagesCounted == Out("sent") + Out("failed") <= reports

MessagesInv == DroppedOK /\ CallsOK /\ HandlersOK /\ MessagesCounted

\* Sets of processes are finite.
LEMMA ProcessesAreCounted ==
    ASSUME NEW S \in SUBSET Processes
    PROVE  IsFiniteSet(S) /\ Cardinality(S) \in Nat
  BY FS_Subset, FS_CardinalityType

\* Both numbers are numbers.
LEMMA OutIsNumber ==
    ASSUME HandlersOK, NEW o \in Outcomes
    PROVE  results[o] \in Nat /\ Cardinality(Busy(o)) \in Nat /\ Out(o) \in Nat
  <1>1. Cardinality(Busy(o)) \in Nat
    BY ProcessesAreCounted DEF Busy
  <1> QED BY <1>1 DEF HandlersOK, Out

\* One consumer more has a message ...
LEMMA OneBusyMore ==
    ASSUME NEW S \in SUBSET Processes, NEW p \in Processes
    PROVE  Cardinality(S \union {p}) <= Cardinality(S) + 1
  <1>1. IsFiniteSet(S) /\ Cardinality(S) \in Nat
    BY ProcessesAreCounted
  <1>2. Cardinality(S \union {p}) \in {Cardinality(S), Cardinality(S) + 1}
    BY <1>1, FS_AddElement
  <1> QED BY <1>1, <1>2

\* ... or one less.
LEMMA OneBusyLess ==
    ASSUME NEW S \in SUBSET Processes, NEW p \in S
    PROVE  Cardinality(S \ {p}) + 1 = Cardinality(S)
  <1>1. IsFiniteSet(S) /\ Cardinality(S) \in Nat
    BY ProcessesAreCounted
  <1>2. Cardinality(S \ {p}) = Cardinality(S) - 1
    BY <1>1, FS_RemoveElement
  <1> QED BY <1>1, <1>2

\* Only the consumer itself moves on.
LEMMA HandleMoves ==
    ASSUME HandlersOK, NEW p \in Processes, NEW o \in Outcomes, NEW here,
           NEW there \in {"idle", "write", "written"}, Handle(p, o, here, there)
    PROVE  /\ handler' \in [Processes -> [Outcomes -> {"idle", "write", "written"}]]
           /\ handler[p][o] = here /\ handler'[p][o] = there
           /\ \A q \in Processes, x \in Outcomes :
                q # p \/ x # o => handler'[q][x] = handler[q][x]
  BY DEF HandlersOK, Handle

\* A consumer's step moves its message, or acks it.
LEMMA HandlerMoves ==
    ASSUME HandlersOK, NEW p \in Processes, NEW o \in Outcomes,
           TakeResult(p, o) \/ HandlerStep(p, o) \/ WriteDeliveryResultFails(p, o)
    PROVE  HandlersOK' /\ reports' = reports /\ \A x \in Outcomes : Out(x)' <= Out(x)
  <1> DEFINE there == handler'[p][o]
  <1>1. /\ there \in {"idle", "write", "written"}
        /\ handler' \in [Processes -> [Outcomes -> {"idle", "write", "written"}]]
        /\ \A q \in Processes, x \in Outcomes :
             q # p \/ x # o => handler'[q][x] = handler[q][x]
    <2>1. CASE TakeResult(p, o)
      BY <2>1, HandleMoves DEF TakeResult
    <2>2. CASE HandlerStep(p, o)
      BY <2>2, HandleMoves DEF HandlerStep, WriteDeliveryResult, RememberResult
    <2>3. CASE WriteDeliveryResultFails(p, o)
      BY <2>3, HandleMoves DEF WriteDeliveryResultFails
    <2> QED BY <2>1, <2>2, <2>3
  <1>2. \/ /\ results[o] > 0 /\ results' = [results EXCEPT ![o] = @ - 1]
           /\ handler[p][o] = "idle"
        \/ /\ results' = results /\ handler[p][o] # "idle"
        \/ /\ results' = [results EXCEPT ![o] = @ + 1]
           /\ handler[p][o] # "idle" /\ there = "idle"
    <2>1. CASE TakeResult(p, o)
      BY <2>1 DEF TakeResult, Handle
    <2>2. CASE HandlerStep(p, o)
      BY <2>2 DEF HandlerStep, WriteDeliveryResult, RememberResult, Handle
    <2>3. CASE WriteDeliveryResultFails(p, o)
      <3>1. there = "idle" /\ handler[p][o] = "write"
        BY <2>3, HandleMoves DEF WriteDeliveryResultFails
      <3> QED BY <2>3, <3>1 DEF WriteDeliveryResultFails
    <2> QED BY <2>1, <2>2, <2>3
  <1>3. reports' = reports
    BY DEF TakeResult, HandlerStep, WriteDeliveryResult, RememberResult, WriteDeliveryResultFails
  <1>4. HandlersOK'
    BY <1>1, <1>2, <1>3 DEF HandlersOK
  <1>5. ASSUME NEW x \in Outcomes, x # o PROVE Out(x)' = Out(x)
    <2>1. Busy(x)' = Busy(x)
      BY <1>1, <1>5 DEF Busy
    <2>2. results'[x] = results[x]
      BY <1>2, <1>5 DEF HandlersOK
    <2> QED BY <2>1, <2>2 DEF Out
  <1>6. Out(o)' <= Out(o)
    <2>0. /\ results[o] \in Nat /\ Cardinality(Busy(o)) \in Nat
          /\ Busy(o) \in SUBSET Processes
      BY OutIsNumber DEF Busy
    <2>1. CASE results[o] > 0 /\ results' = [results EXCEPT ![o] = @ - 1]
               /\ handler[p][o] = "idle"
      <3>1. Busy(o)' = Busy(o) \/ Busy(o)' = Busy(o) \union {p}
        BY <1>1, <2>1 DEF Busy
      <3>2. PICK n \in Nat : n = Cardinality(Busy(o)') /\ n <= Cardinality(Busy(o)) + 1
        <4>1. Busy(o)' \in SUBSET Processes
          BY <2>0, <3>1
        <4>2. Cardinality(Busy(o)') \in Nat
          BY <4>1, ProcessesAreCounted
        <4>3. Cardinality(Busy(o)') <= Cardinality(Busy(o)) + 1
          <5>1. Cardinality(Busy(o) \union {p}) <= Cardinality(Busy(o)) + 1
            BY <2>0, OneBusyMore
          <5>2. Cardinality(Busy(o)) <= Cardinality(Busy(o)) + 1
            BY <2>0
          <5> QED BY <3>1, <5>1, <5>2
        <4> QED BY <4>2, <4>3
      <3>3. results'[o] = results[o] - 1
        BY <2>1 DEF HandlersOK
      <3>4. (results[o] - 1) + n <= results[o] + Cardinality(Busy(o))
        BY <2>0, <2>1, <3>2
      <3> QED BY <3>2, <3>3, <3>4 DEF Out
    <2>2. CASE results' = results /\ handler[p][o] # "idle"
      <3>1. Busy(o)' \subseteq Busy(o)
        BY <1>1, <2>2 DEF Busy
      <3>2. PICK n \in Nat : n = Cardinality(Busy(o)') /\ n <= Cardinality(Busy(o))
        BY <2>0, <3>1, FS_Subset, ProcessesAreCounted
      <3>3. results[o] + n <= results[o] + Cardinality(Busy(o))
        BY <2>0, <3>2
      <3> QED BY <2>2, <3>2, <3>3 DEF Out
    <2>3. CASE results' = [results EXCEPT ![o] = @ + 1] /\ handler[p][o] # "idle"
               /\ there = "idle"
      <3>1. Busy(o)' = Busy(o) \ {p} /\ p \in Busy(o)
        BY <1>1, <2>3 DEF Busy
      <3>2. PICK n \in Nat : n = Cardinality(Busy(o)') /\ n + 1 = Cardinality(Busy(o))
        BY <2>0, <3>1, OneBusyLess, ProcessesAreCounted
      <3>3. results'[o] = results[o] + 1
        BY <2>3 DEF HandlersOK
      <3>4. (results[o] + 1) + n <= results[o] + Cardinality(Busy(o))
        BY <2>0, <3>2
      <3> QED BY <3>2, <3>3, <3>4 DEF Out
    <2> QED BY <1>2, <2>1, <2>2, <2>3
  <1>7. \A x \in Outcomes : Out(x)' <= Out(x)
    <2> SUFFICES ASSUME NEW x \in Outcomes PROVE Out(x)' <= Out(x)
      OBVIOUS
    <2>1. CASE x = o
      BY <1>6, <2>1
    <2>2. CASE x # o
      <3>1. Out(x) \in Nat
        BY OutIsNumber
      <3> QED BY <1>5, <2>2, <3>1
    <2> QED BY <2>1, <2>2
  <1> QED BY <1>3, <1>4, <1>7

\* What a replica had taken is in the queue again when it restarts.
LEMMA RestartMoves ==
    ASSUME HandlersOK, NEW p \in Processes, RestartReplica(p)
    PROVE  HandlersOK' /\ reports' = reports /\ \A x \in Outcomes : Out(x)' <= Out(x)
  <1>1. handler' = [handler EXCEPT ![p] = [o \in Outcomes |-> "idle"]] /\ reports' = reports
    BY DEF RestartReplica
  <1>2. \A x \in Outcomes :
          results'[x] = IF handler[p][x] # "idle" THEN results[x] + 1 ELSE results[x]
    BY DEF RestartReplica, Redelivered, HandlersOK
  <1>3. DOMAIN results' = Outcomes /\ results' = [x \in Outcomes |-> results'[x]]
    BY DEF RestartReplica
  <1>4. HandlersOK'
    BY <1>1, <1>2, <1>3 DEF HandlersOK
  <1>5. ASSUME NEW x \in Outcomes PROVE Out(x)' <= Out(x)
    <2>0. /\ results[x] \in Nat /\ Cardinality(Busy(x)) \in Nat
          /\ Busy(x) \in SUBSET Processes
      BY OutIsNumber DEF Busy
    <2>1. Busy(x)' = Busy(x) \ {p}
      BY <1>1 DEF Busy, HandlersOK
    <2>2. CASE p \in Busy(x)
      <3>1. PICK n \in Nat : n = Cardinality(Busy(x)') /\ n + 1 = Cardinality(Busy(x))
        BY <2>0, <2>1, <2>2, OneBusyLess, ProcessesAreCounted
      <3>2. results'[x] = results[x] + 1
        BY <1>2, <2>2 DEF Busy
      <3>3. (results[x] + 1) + n <= results[x] + Cardinality(Busy(x))
        BY <2>0, <3>1
      <3> QED BY <3>1, <3>2, <3>3 DEF Out
    <2>3. CASE p \notin Busy(x)
      <3>1. Busy(x)' = Busy(x) /\ results'[x] = results[x]
        BY <1>2, <2>1, <2>3 DEF Busy
      <3>2. results[x] + Cardinality(Busy(x)) <= results[x] + Cardinality(Busy(x))
        BY <2>0
      <3> QED BY <3>1, <3>2 DEF Out
    <2> QED BY <2>2, <2>3
  <1> QED BY <1>1, <1>4, <1>5

\* Only a report adds a message.
LEMMA MessagesStep ==
    HandlersOK /\ MessagesCounted /\ [JobNext]_jobVars => HandlersOK' /\ MessagesCounted'
  <1> SUFFICES ASSUME HandlersOK, MessagesCounted, [JobNext]_jobVars
               PROVE  HandlersOK' /\ MessagesCounted'
    OBVIOUS
  <1>0. Out("sent") \in Nat /\ Out("failed") \in Nat /\ reports \in Nat
    BY OutIsNumber DEF Outcomes, HandlersOK
  <1>1. ASSUME HandlersOK', reports' = reports, \A x \in Outcomes : Out(x)' <= Out(x)
        PROVE  HandlersOK' /\ MessagesCounted'
    <2>1. Out("sent")' \in Nat /\ Out("failed")' \in Nat
      <3>1. ASSUME NEW o \in Outcomes PROVE Out(o)' \in Nat
        <4>1. Cardinality(Busy(o)') \in Nat
          BY ProcessesAreCounted DEF Busy
        <4> QED BY <1>1, <4>1 DEF HandlersOK, Out
      <3> QED BY <3>1 DEF Outcomes
    <2>2. PICK m \in Nat, n \in Nat : m = Out("sent")' /\ n = Out("failed")'
      BY <2>1
    <2>3. m <= Out("sent") /\ n <= Out("failed")
      BY <1>1, <2>2 DEF Outcomes
    <2>4. m + n <= reports
      BY <1>0, <2>3 DEF MessagesCounted
    <2> QED BY <1>1, <2>2, <2>4 DEF MessagesCounted
  <1>2. ASSUME UNCHANGED <<results, reports, handler>> PROVE HandlersOK' /\ MessagesCounted'
    BY <1>2 DEF HandlersOK, MessagesCounted, Out, Busy
  <1>3. ASSUME NEW r \in Requests, RequestStep(r) PROVE HandlersOK' /\ MessagesCounted'
    BY <1>2, <1>3 DEF RequestStep, Call, WriteQueuedJob, WriteQueuedJobFails, Remember,
      PublishWorkerJob, PublishWorkerJobFails, reporting
  <1>4. ASSUME NEW o \in Outcomes, Report(o) PROVE HandlersOK' /\ MessagesCounted'
    <2>1. HandlersOK' /\ reports' = reports + 1 /\ handler' = handler
          /\ results' = [results EXCEPT ![o] = @ + 1]
      BY <1>4 DEF Report, HandlersOK
    <2>2. \A x \in Outcomes : Busy(x)' = Busy(x)
      BY <2>1 DEF Busy
    <2>3. \A x \in Outcomes : Out(x)' = IF x = o THEN Out(x) + 1 ELSE Out(x)
      <3> SUFFICES ASSUME NEW x \in Outcomes
                   PROVE  Out(x)' = IF x = o THEN Out(x) + 1 ELSE Out(x)
        OBVIOUS
      <3>1. results[x] \in Nat /\ Cardinality(Busy(x)) \in Nat
        BY OutIsNumber
      <3>2. results'[x] = IF x = o THEN results[x] + 1 ELSE results[x]
        BY <2>1 DEF HandlersOK
      <3> HIDE DEF Busy
      <3> QED BY <2>2, <3>1, <3>2 DEF Out
    <2>4. \/ Out("sent")' = Out("sent") + 1 /\ Out("failed")' = Out("failed")
          \/ Out("sent")' = Out("sent") /\ Out("failed")' = Out("failed") + 1
      BY <2>3 DEF Outcomes
    <2> QED BY <1>0, <2>1, <2>4 DEF MessagesCounted
  <1>5. ASSUME NEW p \in Processes, RestartReplica(p) PROVE HandlersOK' /\ MessagesCounted'
    BY <1>1, <1>5, RestartMoves
  <1>6. ASSUME NEW p \in Processes, NEW o \in Outcomes,
               TakeResult(p, o) \/ HandlerStep(p, o) \/ WriteDeliveryResultFails(p, o)
        PROVE  HandlersOK' /\ MessagesCounted'
    BY <1>1, <1>6, HandlerMoves
  <1>7. CASE UNCHANGED jobVars
    BY <1>2, <1>7 DEF jobVars
  <1> QED BY <1>3, <1>4, <1>5, <1>6, <1>7 DEF JobNext

\* What requests and processes remember.
LEMMA CallsStep == CallsOK /\ [JobNext]_jobVars => CallsOK'
  <1> SUFFICES ASSUME CallsOK, [JobNext]_jobVars PROVE CallsOK'
    OBVIOUS
  <1> USE DEF CallsOK, calls, reporting, JobFault
  <1>1. ASSUME NEW r \in Requests, RequestStep(r) PROVE CallsOK'
    BY <1>1 DEF RequestStep, Call, WriteQueuedJob, WriteQueuedJobFails, Remember,
      PublishWorkerJob, PublishWorkerJobFails
  <1>2. ASSUME NEW o \in Outcomes, Report(o) PROVE CallsOK'
    BY <1>2 DEF Report
  <1>3. ASSUME NEW p \in Processes, RestartReplica(p) PROVE CallsOK'
    BY <1>3 DEF RestartReplica
  <1>4. ASSUME NEW p \in Processes, NEW o \in Outcomes,
               TakeResult(p, o) \/ HandlerStep(p, o) \/ WriteDeliveryResultFails(p, o)
        PROVE  CallsOK'
    BY <1>4 DEF TakeResult, ProcessedOnArrival, HandlerStep, WriteDeliveryResult,
      RememberResult, WriteDeliveryResultFails
  <1>5. CASE UNCHANGED jobVars
    BY <1>5 DEF jobVars
  <1> QED BY <1>1, <1>2, <1>3, <1>4, <1>5 DEF JobNext

\* The flag is only ever set.
LEMMA DroppedStep == DroppedOK /\ [JobNext]_jobVars => DroppedOK'
  <1> SUFFICES ASSUME DroppedOK, [JobNext]_jobVars PROVE DroppedOK'
    OBVIOUS
  <1> USE DEF DroppedOK
  <1>1. ASSUME dropped' = dropped PROVE DroppedOK'
    BY <1>1
  <1>2. ASSUME NEW r \in Requests, RequestStep(r) PROVE DroppedOK'
    <2>1. (dropped' = dropped) \/ (dropped' = TRUE)
      BY <1>2, Zenon DEF RequestStep, Call, WriteQueuedJob, WriteQueuedJobFails, Remember,
        PublishWorkerJob, PublishWorkerJobFails
    <2> QED BY <1>1, <2>1
  <1>3. ASSUME NEW p \in Processes, RestartReplica(p) PROVE DroppedOK'
    BY <1>3, Zenon DEF RestartReplica
  <1>4. CASE UNCHANGED jobVars
    BY <1>1, <1>4 DEF jobVars
  <1>5. ASSUME NEW o \in Outcomes, Report(o) PROVE DroppedOK'
    BY <1>1, <1>5 DEF Report
  <1>6. ASSUME NEW p \in Processes, NEW o \in Outcomes,
               TakeResult(p, o) \/ HandlerStep(p, o) \/ WriteDeliveryResultFails(p, o)
        PROVE  DroppedOK'
    BY <1>1, <1>6 DEF TakeResult, HandlerStep, WriteDeliveryResult, RememberResult,
      WriteDeliveryResultFails
  <1> QED BY <1>2, <1>3, <1>4, <1>5, <1>6 DEF JobNext

\* The invariant holds throughout.
LEMMA MessagesInvariant == JobSpec => []MessagesInv
  <1>1. JobInit => MessagesInv
    <2> SUFFICES ASSUME JobInit PROVE MessagesInv
      OBVIOUS
    <2>0. DroppedOK
      BY DEF JobInit, DroppedOK
    <2>1. CallsOK /\ HandlersOK
      BY DEF JobInit, CallsOK, HandlersOK
    <2>2. Busy("sent") = {} /\ Busy("failed") = {}
      BY DEF JobInit, Busy, Outcomes
    <2>3. Cardinality(Busy("sent")) = 0 /\ Cardinality(Busy("failed")) = 0
      BY <2>2, FS_EmptySet
    <2>4. results["sent"] = 0 /\ results["failed"] = 0 /\ reports = 0
      BY DEF JobInit, Outcomes
    <2> QED BY <2>0, <2>1, <2>3, <2>4 DEF MessagesInv, MessagesCounted, Out
  <1>2. MessagesInv /\ [JobNext]_jobVars => MessagesInv'
    BY MessagesStep, CallsStep, DroppedStep DEF MessagesInv
  <1> QED BY <1>1, <1>2, PTL DEF JobSpec

\* The types hold, and no message is there twice: what waits in the queues was
\* reported, however often it was put back or delivered again.
THEOREM JobTypes == JobSpec => []JobTypeOK
  <1>1. JobsInv /\ MessagesInv => JobTypeOK
    <2> SUFFICES ASSUME JobsInv, MessagesInv PROVE JobTypeOK
      OBVIOUS
    <2>0. HandlersOK
      BY DEF MessagesInv
    <2>1. /\ results["sent"] \in Nat /\ results["failed"] \in Nat
          /\ results["sent"] <= Out("sent") /\ results["failed"] <= Out("failed")
          /\ Out("sent") \in Nat /\ Out("failed") \in Nat /\ reports \in Nat
      BY <2>0, OutIsNumber DEF Outcomes, HandlersOK, Out
    <2>2. results["sent"] + results["failed"] <= reports
      BY <2>1 DEF MessagesInv, MessagesCounted
    <2>3. results["sent"] \in 0..reports /\ results["failed"] \in 0..reports
      BY <2>1, <2>2
    <2>4. results \in [Outcomes -> 0..reports]
      BY <2>0, <2>3 DEF HandlersOK, Outcomes
    <2>5. dropped \in BOOLEAN
      BY DEF MessagesInv, DroppedOK
    <2> QED BY <2>0, <2>2, <2>4, <2>5 DEF JobsInv, JobsTyped, MessagesInv, CallsOK, HandlersOK,
          JobTypeOK
  <1> QED BY <1>1, JobsInvariant, MessagesInvariant, PTL
=============================================================================
