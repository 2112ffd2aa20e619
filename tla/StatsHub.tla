------------------------------ MODULE StatsHub ------------------------------
(***************************************************************************)
(* The hub of stats-service (statsHub, main.go): one goroutine refreshes   *)
(* the latest snapshot, on a tick or when a status event has set the       *)
(* one-place channel `notify`; every SSE stream has a channel of two       *)
(* places, to which a refresh sends without blocking.                      *)
(*                                                                         *)
(* A snapshot is abstracted to the versions of the database its queries    *)
(* saw: they are no transaction, so campaigns and deliveries may differ.   *)
(***************************************************************************)
EXTENDS Integers, Sequences

CONSTANTS
    Streams,        \* clients of GET /stats/stream
    MaxChanges,     \* bound on the changes of the database
    MaxFailures     \* bound on the loads that fail

ASSUME HubAssumption ==
    MaxChanges \in Nat /\ MaxFailures \in Nat /\ "hub" \notin Streams

VARIABLES
    changes,        \* version of the database
    events,         \* versions whose status event is in the hub's queue
    notify,         \* statsHub.notify is full
    loading,        \* per loader: what loadSnapshot reads next, or "idle"
    campaigns,      \* per loader: the version loadCampaignAggregates saw
    latest,         \* statsHub.latest, None without hasLatest
    stream,         \* per stream: where handleStream is
    buffer,         \* per stream: the channel made by subscribe
    view,           \* per stream: the last snapshot written to the client
    received,       \* streams that have taken a snapshot from their channel
    signalled,      \* history: the last version signalled
    missed,         \* history: what was signalled when a load last failed
    failures        \* loads failed, up to MaxFailures

hubVars == <<changes, events, notify, loading, campaigns, latest, stream, buffer, view,
             received, signalled, missed, failures>>

database == <<changes, events>>
loads == <<loading, campaigns>>
streams == <<stream, buffer, view, received>>
history == <<signalled, missed, failures>>

BufferSize == 2
Loaders == {"hub"} \union Streams
Versions == 0..MaxChanges
None == [campaigns |-> -1, deliveries |-> -1]
Snapshots == [campaigns : Versions, deliveries : Versions]

\* s1 was loaded before s2 as far as it shows.
Older(s1, s2) == s1.campaigns < s2.campaigns \/ s1.deliveries < s2.deliveries

HubInit ==
    /\ changes = 0 /\ events = {} /\ notify = FALSE
    /\ loading = [l \in Loaders |-> IF l = "hub" THEN "campaigns" ELSE "idle"]
    /\ campaigns = [l \in Loaders |-> 0]
    /\ latest = None
    /\ stream = [s \in Streams |-> "closed"]
    /\ buffer = [s \in Streams |-> <<>>] /\ view = [s \in Streams |-> None]
    /\ received = {}
    /\ signalled = 0 /\ missed = 0 /\ failures = 0

-----------------------------------------------------------------------------
(* The database and the status events *)

\* Another service changes the tables and publishes a status event, which is
\* gone when the hub's exclusive queue does not exist at that moment.
Change ==
    /\ changes < MaxChanges
    /\ changes' = changes + 1
    /\ events' \in {events, events \union {changes + 1}}
    /\ UNCHANGED <<notify, loads, latest, streams, history>>

\* Mutant: a signal that comes while a snapshot is loaded is thought to be
\* covered by it.
SignalWhenIdle == loading["hub"] = "idle" \/ notify

Signal == TRUE

ConsumeStatusEvent ==
    /\ \E e \in events :
        /\ \A later \in events : e <= later
        /\ events' = events \ {e} /\ signalled' = e
    /\ notify' = Signal
    /\ UNCHANGED <<changes, loads, latest, streams, missed, failures>>

-----------------------------------------------------------------------------
(* statsHub.run and refresh *)

StartLoad(l) == loading' = [loading EXCEPT ![l] = "campaigns"] /\ UNCHANGED campaigns

EndLoad(l) ==
    /\ loading' = [loading EXCEPT ![l] = "idle"]
    /\ campaigns' = [campaigns EXCEPT ![l] = 0]

Tick ==
    /\ loading["hub"] = "idle" /\ StartLoad("hub")
    /\ UNCHANGED <<database, notify, latest, streams, history>>

TakeSignal ==
    /\ loading["hub"] = "idle" /\ notify
    /\ notify' = FALSE /\ StartLoad("hub")
    /\ UNCHANGED <<database, latest, streams, history>>

LoadCampaignAggregates(l) ==
    /\ loading[l] = "campaigns"
    /\ loading' = [loading EXCEPT ![l] = "deliveries"]
    /\ campaigns' = [campaigns EXCEPT ![l] = changes]
    /\ UNCHANGED <<database, notify, latest, streams, history>>

\* loadChannelAggregates and loadRealtimeAggregates read the same rows.
BuildSnapshot(l) == [campaigns |-> campaigns[l], deliveries |-> changes]

\* Mutants: a snapshot that has not changed is not sent again; a full channel
\* is not looked at.
SendIfChanged(s, snapshot) ==
    IF snapshot # latest /\ Len(buffer[s]) < BufferSize THEN Append(buffer[s], snapshot)
    ELSE buffer[s]

SendAlways(s, snapshot) == Append(buffer[s], snapshot)

Send(s, snapshot) ==
    IF Len(buffer[s]) < BufferSize THEN Append(buffer[s], snapshot) ELSE buffer[s]

Refresh ==
    /\ loading["hub"] = "deliveries"
    /\ LET snapshot == BuildSnapshot("hub")
       IN  /\ latest' = snapshot
           /\ buffer' = [s \in Streams |->
                            IF stream[s] = "closed" THEN buffer[s] ELSE Send(s, snapshot)]
    /\ EndLoad("hub")
    /\ UNCHANGED <<database, notify, stream, view, received, history>>

RefreshFails ==
    /\ loading["hub"] # "idle" /\ failures < MaxFailures
    /\ failures' = failures + 1 /\ missed' = signalled
    /\ EndLoad("hub")
    /\ UNCHANGED <<database, notify, latest, streams, signalled>>

-----------------------------------------------------------------------------
(* handleStream *)

Subscribe(s) ==
    /\ stream[s] = "closed"
    /\ stream' = [stream EXCEPT ![s] = "opening"]
    /\ buffer' = [buffer EXCEPT ![s] = IF latest = None THEN <<>> ELSE <<latest>>]
    /\ UNCHANGED <<database, notify, loads, latest, view, received, history>>

\* Only the hub's own refresh stores a snapshot; the mutant keeps the stream's.
KeepOwn(snapshot) == snapshot

KeepLatest(snapshot) == latest

Show(s, snapshot) ==
    /\ view' = [view EXCEPT ![s] = snapshot]
    /\ stream' = [stream EXCEPT ![s] = "live"]

Current(s) ==
    /\ stream[s] = "opening" /\ loading[s] = "idle" /\ latest # None
    /\ Show(s, latest)
    /\ UNCHANGED <<database, notify, loads, latest, buffer, received, history>>

\* Without a latest snapshot the stream loads one for itself.
LoadOwn(s) ==
    /\ stream[s] = "opening" /\ loading[s] = "idle" /\ latest = None
    /\ StartLoad(s)
    /\ UNCHANGED <<database, notify, latest, streams, history>>

ShowOwn(s) ==
    /\ loading[s] = "deliveries"
    /\ Show(s, BuildSnapshot(s))
    /\ latest' = KeepLatest(BuildSnapshot(s))
    /\ EndLoad(s)
    /\ UNCHANGED <<database, notify, buffer, received, history>>

\* Nothing is written at first; the stream goes on.
LoadOwnFails(s) ==
    /\ loading[s] # "idle" /\ failures < MaxFailures
    /\ failures' = failures + 1
    /\ stream' = [stream EXCEPT ![s] = "live"]
    /\ EndLoad(s)
    /\ UNCHANGED <<database, notify, latest, buffer, view, received, signalled, missed>>

Receive(s) ==
    /\ stream[s] = "live" /\ buffer[s] # <<>>
    /\ view' = [view EXCEPT ![s] = Head(buffer[s])]
    /\ buffer' = [buffer EXCEPT ![s] = Tail(@)]
    /\ received' = received \union {s}
    /\ UNCHANGED <<database, notify, loads, latest, stream, history>>

\* The client has gone: unsubscribe.
Disconnect(s) ==
    /\ stream[s] = "live"
    /\ stream' = [stream EXCEPT ![s] = "closed"]
    /\ buffer' = [buffer EXCEPT ![s] = <<>>] /\ view' = [view EXCEPT ![s] = None]
    /\ received' = received \ {s}
    /\ UNCHANGED <<database, notify, loads, latest, history>>

-----------------------------------------------------------------------------
\* What handleStream does by itself once it is called.
OwnStep(s) ==
    Current(s) \/ LoadOwn(s) \/ LoadCampaignAggregates(s) \/ ShowOwn(s) \/ Receive(s)

StreamStep(s) == Subscribe(s) \/ OwnStep(s) \/ LoadOwnFails(s) \/ Disconnect(s)

HubNext ==
    \/ Change \/ ConsumeStatusEvent
    \/ Tick \/ TakeSignal \/ LoadCampaignAggregates("hub") \/ Refresh \/ RefreshFails
    \/ \E s \in Streams : StreamStep(s)

\* The ticker fires, the database answers or fails, and a stream that has
\* something to write writes it. Clients come and go as they like.
HubFairness ==
    /\ WF_hubVars(Tick \/ TakeSignal)
    /\ WF_hubVars(LoadCampaignAggregates("hub")) /\ WF_hubVars(Refresh)
    /\ \A s \in Streams : WF_hubVars(OwnStep(s))

HubSpec == HubInit /\ [][HubNext]_hubVars /\ HubFairness

-----------------------------------------------------------------------------
(* Properties *)

\* The type invariant; a channel never holds more than its two places.
HubTypeOK ==
    /\ changes \in Versions /\ events \subseteq Versions
    /\ notify \in BOOLEAN
    /\ loading \in [Loaders -> {"idle", "campaigns", "deliveries"}]
    /\ campaigns \in [Loaders -> Versions]
    /\ latest \in Snapshots \union {None}
    /\ stream \in [Streams -> {"closed", "opening", "live"}]
    /\ view \in [Streams -> Snapshots \union {None}]
    /\ \A s \in Streams : /\ Len(buffer[s]) <= BufferSize
                          /\ \A i \in DOMAIN buffer[s] : buffer[s][i] \in Snapshots
    /\ received \subseteq Streams
    /\ signalled \in Versions /\ missed \in Versions /\ failures \in 0..MaxFailures

\* No signal is forgotten: what was last signalled is in the latest snapshot,
\* in the one being loaded, still waits in notify, or was there when a load failed.
SignalKept ==
    \/ notify
    \/ signalled <= missed
    \/ signalled <= latest.campaigns
    \/ loading["hub"] = "campaigns"
    \/ loading["hub"] = "deliveries" /\ signalled <= campaigns["hub"]

\* A stream goes back to an older snapshot at most once, with the first one it
\* takes from its channel: it was put there before handleStream wrote the current.
BackOnlyAtOpening ==
    [][\A s \in Streams :
        Older(view'[s], view[s]) => s \notin received \/ stream'[s] = "closed"]_hubVars

\* Every change is shown on every stream that stays, however often its full
\* channel makes it miss a snapshot: a stream is up to date again and again.
StreamsCatchUp ==
    \A s \in Streams :
        []<>(stream[s] = "closed"
             \/ (view[s].campaigns = changes /\ view[s].deliveries = changes))
=============================================================================
