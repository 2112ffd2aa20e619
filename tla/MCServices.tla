----------------------------- MODULE MCServices -----------------------------
(***************************************************************************)
(* Instances of the components that share no state with one another, for   *)
(* one run of TLC: the initial state chooses the component, and only that  *)
(* component takes steps. What holds of every behaviour of this module     *)
(* holds of every component by itself, and the fairness is that of the     *)
(* component that was chosen.                                              *)
(***************************************************************************)
EXTENDS StatsHub, Publisher, WorkerPool, ChannelConfig, TemplateStore, WorkerJobs

VARIABLE service

vars == <<service, hubVars, publisherVars, poolVars, configVars, templateVars, jobVars>>

\* Depth 5 asks for more than the maximum, -1 is no answer.
PoolDepths == {-1, 1, 5}

\* A component that does not run has one initial state.
Init ==
    /\ service \in {"hub", "publisher", "pool", "config", "templates", "jobs"}
    /\ HubInit /\ PublisherInit /\ PoolInit /\ ConfigInit /\ TemplateInit /\ JobInit
    /\ service # "config" => row = [enabled |-> TRUE, limit |-> 1]
    /\ service # "jobs" => at = [r \in Requests |-> CHOOSE p \in Processes : TRUE]

HubStep ==
    /\ service = "hub" /\ HubNext
    /\ UNCHANGED <<service, publisherVars, poolVars, configVars, templateVars, jobVars>>

PublisherStep ==
    /\ service = "publisher" /\ PublisherNext
    /\ UNCHANGED <<service, hubVars, poolVars, configVars, templateVars, jobVars>>

PoolStep ==
    /\ service = "pool" /\ PoolNext
    /\ UNCHANGED <<service, hubVars, publisherVars, configVars, templateVars, jobVars>>

\* As a bound, the gateway and the second administrator do not overlap; both
\* overlap with the worker and the first.
ConfigStep ==
    /\ service = "config" /\ ConfigNext
    /\ admin'["a2"] = "idle" \/ filler'["g1"] = "idle"
    /\ UNCHANGED <<service, hubVars, publisherVars, poolVars, templateVars, jobVars>>

TemplatesStep ==
    /\ service = "templates" /\ TemplateNext
    /\ UNCHANGED <<service, hubVars, publisherVars, poolVars, configVars, jobVars>>

JobsStep ==
    /\ service = "jobs" /\ JobNext
    /\ UNCHANGED <<service, hubVars, publisherVars, poolVars, configVars, templateVars>>

Next == HubStep \/ PublisherStep \/ PoolStep \/ ConfigStep \/ TemplatesStep \/ JobsStep

\* The Fairness of each component, of the one that runs.
FairHub ==
    /\ WF_hubVars(service = "hub" /\ (Tick \/ TakeSignal))
    /\ WF_hubVars(service = "hub" /\ LoadCampaignAggregates("hub"))
    /\ WF_hubVars(service = "hub" /\ Refresh)
    /\ \A s \in Streams : WF_hubVars(service = "hub" /\ OwnStep(s))

FairPublisher ==
    /\ WF_publisherVars(service = "publisher" /\ Dial)
    /\ WF_publisherVars(service = "publisher" /\ Reconnect)
    /\ \A ch \in Channels : WF_publisherVars(service = "publisher" /\ FunctionStep(ch))
    /\ \A c \in Callers : WF_publisherVars(service = "publisher" /\ CallerStep(c))

FairPool ==
    \A w \in IDs :
        /\ WF_poolVars(service = "pool" /\ EndConsumer(w))
        /\ WF_poolVars(service = "pool" /\ (Return(w) \/ Unregister(w)))

FairConfig ==
    /\ WF_configVars(service = "config" /\ ExpireRedis)
    /\ \A w \in Workers : WF_configVars(service = "config" /\ ExpireLocal(w))
    /\ \A f \in Fillers : WF_configVars(service = "config" /\ FillerStep(f))
    /\ \A a \in Admins : WF_configVars(service = "config" /\ AdminStep(a))

FairJobs ==
    \A o \in Outcomes :
        /\ WF_jobVars(service = "jobs" /\ \E p \in Processes : TakeResult(p, o))
        /\ \A p \in Processes : WF_jobVars(service = "jobs" /\ HandlerStep(p, o))

Spec ==
    /\ Init /\ [][Next]_vars
    /\ FairHub /\ FairPublisher /\ FairPool /\ FairConfig /\ FairJobs

-----------------------------------------------------------------------------
\* The publisher comes back after whatever closed its channel.
PublisherComesBack == service = "publisher" => ComesBack
=============================================================================
