---------------------------- MODULE ChannelConfig ----------------------------
(***************************************************************************)
(* The configuration of one channel: the row of `channels` that channel-   *)
(* service updates, the copy in Redis that it refreshes, and the copy each *)
(* sender-worker process keeps for a few seconds. A worker looks in its    *)
(* own copy, in Redis, in Postgres, and fills what it missed; ops-gateway  *)
(* fills Redis too. A configuration is abstracted to whether the channel   *)
(* is enabled and to its retry limit.                                      *)
(***************************************************************************)
EXTENDS Integers

CONSTANTS
    Workers,         \* sender-worker processes
    Gateways,        \* requests GET /worker/channel-config of ops-gateway
    Admins,          \* requests that change the channel
    Limits,          \* retry limits an administrator sets, 0 among them
    MaxUpdates,      \* bound on the changes of the row
    MaxConfigFaults  \* bound on the calls of Redis or Postgres that fail

ASSUME ConfigAssumption ==
    /\ Limits \subseteq Nat
    /\ MaxUpdates \in Nat /\ MaxConfigFaults \in Nat
    /\ Workers \intersect Gateways = {} /\ (Workers \union Gateways) \intersect Admins = {}

VARIABLES
    row,             \* the row: enabled, limit
    redis,           \* channel-config:<code>, or Absent
    local,           \* per worker: its own copy, or Absent
    filler,          \* per worker or gateway: where its lookup is
    found,           \* per worker or gateway: what it will store in Redis
    admin,           \* per admin: where mutateChannelInDB is
    payload,         \* per admin: what it will write to Redis, Absent for DEL
    outdated,        \* history: those who will write what the row does not say (any more)
    stale,           \* history: Redis holds what one of those wrote, or a write failed
    updates, configFaults

configVars == <<row, redis, local, filler, found, admin, payload, outdated, stale,
                updates, configFaults>>

lookups == <<filler, found>>
mutations == <<admin, payload>>

Fillers == Workers \union Gateways
Default == 3         \* the retry limit of defaultChannelConfig and WorkerChannelConfig
DefaultConfig == [enabled |-> TRUE, limit |-> Default]
Absent == [enabled |-> FALSE, limit |-> -1]
Rows == [enabled : BOOLEAN, limit : Limits]
EnabledConfigs == [enabled : {TRUE}, limit : Limits \union {Default}]
Copies == EnabledConfigs \union {Absent}

ConfigInit ==
    /\ row \in Rows /\ row.enabled /\ redis = Absent
    /\ local = [w \in Workers |-> Absent]
    /\ filler = [f \in Fillers |-> "idle"] /\ found = [f \in Fillers |-> Absent]
    /\ admin = [a \in Admins |-> "idle"] /\ payload = [a \in Admins |-> Absent]
    /\ outdated = {} /\ stale = FALSE
    /\ updates = 0 /\ configFaults = 0

ConfigFault == configFaults < MaxConfigFaults /\ configFaults' = configFaults + 1

-----------------------------------------------------------------------------
(* channelConfig in the worker, worker_config in ops-gateway *)

\* configFromWorkerCache: a limit that is not positive is taken from the default.
FromCache(copy) == IF copy.limit = 0 THEN [copy EXCEPT !.limit = Default] ELSE copy

\* Nothing local: the worker asks Redis. Gateways have no copy of their own.
Miss(f) ==
    /\ filler[f] = "idle"
    /\ f \in Workers => local[f] = Absent
    /\ filler' = [filler EXCEPT ![f] = "redis"]
    /\ UNCHANGED <<row, redis, local, found, mutations, outdated, stale, updates, configFaults>>

RedisHit(f) ==
    /\ filler[f] = "redis" /\ redis # Absent
    /\ filler' = [filler EXCEPT ![f] = "idle"]
    /\ local' = [w \in Workers |-> IF w = f THEN FromCache(redis) ELSE local[w]]
    /\ UNCHANGED <<row, redis, found, mutations, outdated, stale, updates, configFaults>>

RedisMiss(f) ==
    /\ filler[f] = "redis"
    /\ IF redis # Absent THEN ConfigFault ELSE UNCHANGED configFaults
    /\ filler' = [filler EXCEPT ![f] = "postgres"]
    /\ UNCHANGED <<row, redis, local, found, mutations, outdated, stale, updates>>

\* The query sees enabled channels only. A disabled one, like an error, gives
\* the default, which is enabled; the worker does not store it in Redis, the
\* gateway does. Mutant: the worker does, too.
StoresAlways(f, loaded) == f \in Fillers /\ loaded \in BOOLEAN

StoresInRedis(f, loaded) == loaded \/ f \in Gateways

ReadPostgres(f) ==
    /\ filler[f] = "postgres"
    /\ \E loaded \in BOOLEAN :
        /\ loaded => row.enabled
        /\ IF row.enabled /\ ~loaded THEN f \in Workers /\ ConfigFault
                                    ELSE UNCHANGED configFaults
        /\ LET value == IF loaded THEN row ELSE DefaultConfig
           IN  /\ local' = [w \in Workers |-> IF w = f THEN value ELSE local[w]]
               /\ IF StoresInRedis(f, loaded)
                  THEN /\ filler' = [filler EXCEPT ![f] = "store"]
                       /\ found' = [found EXCEPT ![f] = value]
                       /\ outdated' = IF loaded THEN outdated ELSE outdated \union {f}
                  ELSE filler' = [filler EXCEPT ![f] = "idle"] /\ UNCHANGED <<found, outdated>>
    /\ UNCHANGED <<row, redis, mutations, stale, updates>>

\* ops-gateway answers with the default and stores nothing.
GatewayReadFails(g) ==
    /\ filler[g] = "postgres"
    /\ ConfigFault
    /\ filler' = [filler EXCEPT ![g] = "idle"]
    /\ UNCHANGED <<row, redis, local, found, mutations, outdated, stale, updates>>

\* SETEX, of a value the row may no longer have; it may fail.
StoreRedis(f) ==
    /\ filler[f] = "store"
    /\ \/ redis' = found[f] /\ stale' = (f \in outdated) /\ UNCHANGED configFaults
       \/ ConfigFault /\ UNCHANGED <<redis, stale>>
    /\ filler' = [filler EXCEPT ![f] = "idle"] /\ found' = [found EXCEPT ![f] = Absent]
    /\ outdated' = outdated \ {f}
    /\ UNCHANGED <<row, local, mutations, updates>>

-----------------------------------------------------------------------------
(* channel-service: enable, disable, PATCH *)

\* Those who hold a value they will write to Redis.
InHand == {f \in Fillers : filler[f] = "store"} \union {a \in Admins : admin[a] = "write"}

Update(a) ==
    /\ admin[a] = "idle" /\ updates < MaxUpdates
    /\ row' \in Rows /\ row' # row
    /\ updates' = updates + 1
    /\ admin' = [admin EXCEPT ![a] = "read"]
    /\ outdated' = outdated \union InHand
    /\ UNCHANGED <<redis, local, lookups, payload, stale, configFaults>>

\* enable and disable do not look at the error of their UPDATE.
UpdateFails(a) ==
    /\ admin[a] = "idle"
    /\ ConfigFault
    /\ admin' = [admin EXCEPT ![a] = "read"]
    /\ UNCHANGED <<row, redis, local, lookups, payload, outdated, stale, updates>>

\* Mutant: a disabled channel is stored like any other.
PayloadAlways(channel) == channel

Payload(channel) == IF channel.enabled THEN channel ELSE Absent

\* writeChannelByCode lists the channels again; an error ends the request.
ReadBack(a) ==
    /\ admin[a] = "read"
    /\ \/ /\ admin' = [admin EXCEPT ![a] = "write"]
          /\ payload' = [payload EXCEPT ![a] = Payload(row)]
          /\ UNCHANGED <<stale, configFaults>>
       \/ /\ ConfigFault /\ stale' = TRUE
          /\ admin' = [admin EXCEPT ![a] = "idle"] /\ UNCHANGED payload
    /\ UNCHANGED <<row, redis, local, lookups, outdated, updates>>

\* cacheWorkerChannelConfig: SETEX, or DEL for a disabled channel; errors are ignored.
CacheWorkerChannelConfig(a) ==
    /\ admin[a] = "write"
    /\ \/ redis' = payload[a] /\ stale' = (a \in outdated) /\ UNCHANGED configFaults
       \/ ConfigFault /\ stale' = TRUE /\ UNCHANGED redis
    /\ admin' = [admin EXCEPT ![a] = "idle"]
    /\ outdated' = outdated \ {a}
    /\ UNCHANGED <<row, local, lookups, payload, updates>>

-----------------------------------------------------------------------------
(* Time: the copies live for 60 and 5 seconds *)

\* Mutant: the copy in Redis is stored without a time to live.
LivesForever(copy) == copy \notin Copies

Expires(copy) == copy # Absent

ExpireRedis ==
    /\ Expires(redis)
    /\ redis' = Absent /\ stale' = FALSE
    /\ UNCHANGED <<row, local, lookups, mutations, outdated, updates, configFaults>>

ExpireLocal(w) ==
    /\ local[w] # Absent
    /\ local' = [local EXCEPT ![w] = Absent]
    /\ UNCHANGED <<row, redis, lookups, mutations, outdated, stale, updates, configFaults>>

-----------------------------------------------------------------------------
FillerStep(f) == RedisHit(f) \/ RedisMiss(f) \/ ReadPostgres(f) \/ StoreRedis(f)

AdminStep(a) == ReadBack(a) \/ CacheWorkerChannelConfig(a)

ConfigNext ==
    \/ \E f \in Fillers : Miss(f) \/ FillerStep(f)
    \/ \E g \in Gateways : GatewayReadFails(g)
    \/ \E a \in Admins : Update(a) \/ UpdateFails(a) \/ AdminStep(a)
    \/ ExpireRedis
    \/ \E w \in Workers : ExpireLocal(w)

\* Time passes, and what was begun goes on.
ConfigFairness ==
    /\ WF_configVars(ExpireRedis)
    /\ \A w \in Workers : WF_configVars(ExpireLocal(w))
    /\ \A f \in Fillers : WF_configVars(FillerStep(f))
    /\ \A a \in Admins : WF_configVars(AdminStep(a))

ConfigSpec == ConfigInit /\ [][ConfigNext]_configVars /\ ConfigFairness

-----------------------------------------------------------------------------
(* Properties *)

\* The type invariant; no copy is ever of a disabled channel, and a worker writes
\* to Redis only what it read from a row, never the default it fell back to.
ConfigTypeOK ==
    /\ row \in Rows /\ redis \in Copies
    /\ local \in [Workers -> Copies]
    /\ filler \in [Fillers -> {"idle", "redis", "postgres", "store"}]
    /\ found \in [Fillers -> Copies]
    /\ \A w \in Workers : filler[w] = "store" => found[w] \in Rows
    /\ admin \in [Admins -> {"idle", "read", "write"}]
    /\ payload \in [Admins -> (Rows \intersect EnabledConfigs) \union {Absent}]
    /\ outdated \subseteq InHand /\ stale \in BOOLEAN
    /\ updates \in 0..MaxUpdates /\ configFaults \in 0..MaxConfigFaults

\* What Redis may hold of a row: nothing of a disabled channel.
Redisable == {Absent} \union {config \in {row} : config.enabled}

\* With no change under way, Redis holds the row's configuration or nothing,
\* unless someone wrote what it had read before the last change, a call of an
\* administrator's request failed, or ops-gateway stored the enabled default of
\* a disabled channel.
StaleOnlyByRace ==
    stale \/ redis \in Redisable \/ \E a \in Admins : admin[a] # "idle"

\* Every worker comes to use the configuration of an enabled channel, however
\* stale a copy was written. (A limit of 0 it uses as 0 from Postgres and as
\* the default from Redis, so that one is left out.)
ConfigsConverge ==
    <>[](row.enabled /\ row.limit > 0 => \A w \in Workers : local[w] \in {Absent, row})

\* "disabled channel should fail delivery with clear error": when a channel stays
\* disabled, no worker goes on with a configuration that says it is enabled.
DisabledIsNoticed == <>[](~row.enabled => \A w \in Workers : ~local[w].enabled)
=============================================================================
