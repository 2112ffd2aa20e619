--------------------------- MODULE StatsHubProofs ---------------------------
(***************************************************************************)
(* Proofs about StatsHub, for every number of streams, changes and failing *)
(* loads.                                                                  *)
(***************************************************************************)
EXTENDS StatsHub, TLAPS

USE HubAssumption

-----------------------------------------------------------------------------
(* Type correctness *)

NotifyOK == notify \in BOOLEAN

HubValuesOK ==
    /\ changes \in Versions /\ events \subseteq Versions
    /\ loading \in [Loaders -> {"idle", "campaigns", "deliveries"}]
    /\ campaigns \in [Loaders -> Versions]
    /\ latest \in Snapshots \union {None}
    /\ stream \in [Streams -> {"closed", "opening", "live"}]
    /\ view \in [Streams -> Snapshots \union {None}]
    /\ received \subseteq Streams
    /\ signalled \in Versions /\ missed \in Versions /\ failures \in 0..MaxFailures

\* The channels of the streams, as functions to sequences of snapshots.
BuffersOK ==
    buffer \in [Streams -> {q \in Seq(Snapshots) : Len(q) <= BufferSize}]

LEMMA HubTypesInit == HubInit => NotifyOK /\ HubValuesOK /\ BuffersOK
  <1> SUFFICES ASSUME HubInit PROVE NotifyOK /\ HubValuesOK /\ BuffersOK
    OBVIOUS
  <1>1. NotifyOK
    BY DEF HubInit, NotifyOK
  <1>2. HubValuesOK
    BY DEF HubInit, HubValuesOK, Versions, Loaders
  <1>3. BuffersOK
    <2>1. <<>> \in {q \in Seq(Snapshots) : Len(q) <= BufferSize}
      BY DEF BufferSize
    <2> QED BY <2>1 DEF HubInit, BuffersOK
  <1> QED BY <1>1, <1>2, <1>3

\* A snapshot has the versions its queries saw.
LEMMA SnapshotType ==
    ASSUME HubValuesOK, NEW l \in Loaders PROVE BuildSnapshot(l) \in Snapshots
  BY DEF HubValuesOK, BuildSnapshot, Snapshots

LEMMA NotifyStep == NotifyOK /\ [HubNext]_hubVars => NotifyOK'
  BY DEF NotifyOK, HubNext, Change, ConsumeStatusEvent, Signal, Tick, TakeSignal,
    LoadCampaignAggregates, Refresh, RefreshFails, StreamStep, OwnStep, Subscribe, Current,
    LoadOwn, ShowOwn, LoadOwnFails, Receive, Disconnect, hubVars

\* The head of a channel is a snapshot, and what is left fits.
LEMMA BufferTaken ==
    ASSUME NEW q \in {q \in Seq(Snapshots) : Len(q) <= BufferSize}, q # <<>>
    PROVE  Head(q) \in Snapshots /\ Tail(q) \in {r \in Seq(Snapshots) : Len(r) <= BufferSize}
  BY DEF BufferSize

\* Sending without blocking never makes a channel longer than its two places.
LEMMA BufferSent ==
    ASSUME BuffersOK, NEW s \in Streams, NEW snapshot \in Snapshots
    PROVE  Send(s, snapshot) \in {q \in Seq(Snapshots) : Len(q) <= BufferSize}
  <1>1. buffer[s] \in {q \in Seq(Snapshots) : Len(q) <= BufferSize}
    BY DEF BuffersOK
  <1> QED BY <1>1 DEF Send, BufferSize

\* Every step keeps the types of the values, one action after the other.
LEMMA ValuesStep ==
    ASSUME HubValuesOK, BuffersOK, [HubNext]_hubVars PROVE HubValuesOK'
  <1> USE DEF HubValuesOK, Versions, Loaders, database, loads, streams, history
  <1>1. CASE Change
    BY <1>1 DEF Change
  <1>2. CASE ConsumeStatusEvent
    BY <1>2 DEF ConsumeStatusEvent
  <1>3. CASE Tick \/ TakeSignal
    BY <1>3 DEF Tick, TakeSignal, StartLoad
  <1>4. ASSUME NEW l \in Loaders, LoadCampaignAggregates(l) PROVE HubValuesOK'
    BY <1>4 DEF LoadCampaignAggregates
  <1>5. CASE Refresh
    <2>1. latest' \in Snapshots
      BY <1>5, SnapshotType DEF Refresh
    <2> QED BY <1>5, <2>1 DEF Refresh, EndLoad
  <1>6. CASE RefreshFails
    BY <1>6 DEF RefreshFails, EndLoad
  <1>7. ASSUME NEW s \in Streams, Subscribe(s) \/ Disconnect(s) PROVE HubValuesOK'
    BY <1>7 DEF Subscribe, Disconnect
  <1>8. ASSUME NEW s \in Streams, Current(s) \/ LoadOwn(s) PROVE HubValuesOK'
    <2>1. CASE Current(s)
      BY <1>8, <2>1 DEF Current, Show
    <2>2. CASE LoadOwn(s)
      BY <1>8, <2>2 DEF LoadOwn, StartLoad
    <2> QED BY <1>8, <2>1, <2>2
  <1>9. ASSUME NEW s \in Streams, ShowOwn(s) PROVE HubValuesOK'
    <2>1. BuildSnapshot(s) \in Snapshots
      BY SnapshotType
    <2> QED BY <1>9, <2>1 DEF ShowOwn, Show, KeepLatest, EndLoad
  <1>10. ASSUME NEW s \in Streams, LoadOwnFails(s) PROVE HubValuesOK'
    BY <1>10 DEF LoadOwnFails, EndLoad
  <1>11. ASSUME NEW s \in Streams, Receive(s) PROVE HubValuesOK'
    <2>1. Head(buffer[s]) \in Snapshots
      BY <1>11, BufferTaken DEF Receive, BuffersOK
    <2> QED BY <1>11, <2>1 DEF Receive
  <1>12. CASE UNCHANGED hubVars
    BY <1>12 DEF hubVars
  <1> QED BY <1>1, <1>2, <1>3, <1>4, <1>5, <1>6, <1>7, <1>8, <1>9, <1>10, <1>11, <1>12
        DEF HubNext, StreamStep, OwnStep

LEMMA BuffersStep == ASSUME HubValuesOK, BuffersOK, [HubNext]_hubVars PROVE BuffersOK'
  <1> DEFINE Channels == {q \in Seq(Snapshots) : Len(q) <= BufferSize}
  <1>1. CASE Refresh
    <2>1. BuildSnapshot("hub") \in Snapshots
      BY SnapshotType DEF Loaders
    <2>2. \A s \in Streams : Send(s, BuildSnapshot("hub")) \in Channels /\ buffer[s] \in Channels
      BY <2>1, BufferSent DEF BuffersOK
    <2> QED BY <1>1, <2>2 DEF Refresh, BuffersOK
  <1>2. ASSUME NEW s \in Streams, Subscribe(s) PROVE BuffersOK'
    <2>1. latest # None => latest \in Snapshots
      BY DEF HubValuesOK
    <2>2. <<>> \in Channels /\ (latest # None => <<latest>> \in Channels)
      BY <2>1 DEF BufferSize
    <2> QED BY <1>2, <2>2 DEF Subscribe, BuffersOK
  <1>3. ASSUME NEW s \in Streams, Receive(s) PROVE BuffersOK'
    <2>1. Tail(buffer[s]) \in Channels
      BY <1>3, BufferTaken DEF Receive, BuffersOK
    <2> QED BY <1>3, <2>1 DEF Receive, BuffersOK
  <1>4. ASSUME NEW s \in Streams, Disconnect(s) PROVE BuffersOK'
    <2>1. <<>> \in Channels
      BY DEF BufferSize
    <2> QED BY <1>4, <2>1 DEF Disconnect, BuffersOK
  <1>5. ASSUME buffer' = buffer PROVE BuffersOK'
    BY <1>5 DEF BuffersOK
  <1> QED BY <1>1, <1>2, <1>3, <1>4, <1>5
        DEF HubNext, StreamStep, OwnStep, Change, ConsumeStatusEvent, Tick, TakeSignal,
          LoadCampaignAggregates, RefreshFails, Current, LoadOwn, ShowOwn, LoadOwnFails,
          streams, hubVars

-----------------------------------------------------------------------------
(* No signal is forgotten *)

\* What was signalled is in the database, and a load reads no older version
\* than the snapshot it will replace.
LoadsForward ==
    /\ signalled <= changes /\ latest.campaigns <= changes
    /\ \A e \in events : e <= changes
    /\ loading["hub"] = "deliveries" =>
          latest.campaigns <= campaigns["hub"] /\ campaigns["hub"] <= changes

\* The database only gets newer, so loads do.
LEMMA LoadsForwardStep ==
    ASSUME HubValuesOK, LoadsForward, [HubNext]_hubVars PROVE LoadsForward'
  <1> USE DEF HubValuesOK, LoadsForward, Versions, Loaders, None, Snapshots,
        database, loads, streams, history
  <1>1. CASE Change
    BY <1>1 DEF Change
  <1>2. CASE ConsumeStatusEvent
    BY <1>2 DEF ConsumeStatusEvent
  <1>3. CASE Tick \/ TakeSignal
    <2>1. UNCHANGED <<changes, events, latest, signalled>> /\ loading'["hub"] = "campaigns"
      BY <1>3 DEF Tick, TakeSignal, StartLoad
    <2> QED BY <2>1
  <1>4. ASSUME NEW l \in Loaders, LoadCampaignAggregates(l) PROVE LoadsForward'
    BY <1>4 DEF LoadCampaignAggregates
  <1>5. CASE Refresh
    BY <1>5 DEF Refresh, BuildSnapshot, EndLoad
  <1>6. CASE RefreshFails
    BY <1>6 DEF RefreshFails, EndLoad
  <1>7. ASSUME NEW s \in Streams, StreamStep(s), ~LoadCampaignAggregates(s) PROVE LoadsForward'
    <2>1. UNCHANGED <<changes, events, latest, signalled>>
      BY <1>7 DEF StreamStep, OwnStep, Subscribe, Current, LoadOwn, ShowOwn, LoadOwnFails,
        Receive, Disconnect, KeepLatest
    <2>2. loading'["hub"] = loading["hub"] /\ campaigns'["hub"] = campaigns["hub"]
      BY <1>7 DEF StreamStep, OwnStep, Subscribe, Current, LoadOwn, ShowOwn, LoadOwnFails,
        Receive, Disconnect, StartLoad, EndLoad
    <2> QED BY <2>1, <2>2
  <1>8. CASE UNCHANGED hubVars
    BY <1>8 DEF hubVars
  <1> QED BY <1>1, <1>2, <1>3, <1>4, <1>5, <1>6, <1>7, <1>8 DEF HubNext

\* A signal is dropped only for a load that begins after it.
LEMMA SignalKeptStep ==
    ASSUME HubValuesOK, LoadsForward, SignalKept, [HubNext]_hubVars
    PROVE  SignalKept'
  <1> USE DEF HubValuesOK, SignalKept, Versions, Loaders,
        database, loads, streams, history
  <1>1. CASE Change
    BY <1>1 DEF Change
  <1>2. CASE ConsumeStatusEvent
    BY <1>2 DEF ConsumeStatusEvent, Signal
  <1>3. CASE Tick \/ TakeSignal
    BY <1>3 DEF Tick, TakeSignal, StartLoad
  <1>4. CASE LoadCampaignAggregates("hub")
    BY <1>4 DEF LoadCampaignAggregates, LoadsForward
  <1>5. CASE Refresh
    <2>1. latest'.campaigns = campaigns["hub"] /\ UNCHANGED <<notify, signalled, missed>>
      BY <1>5 DEF Refresh, BuildSnapshot
    <2>2. latest.campaigns <= campaigns["hub"] /\ loading["hub"] = "deliveries"
      BY <1>5 DEF Refresh, LoadsForward
    <2>3. latest.campaigns \in Int /\ campaigns["hub"] \in Int /\ signalled \in Int
      BY DEF Snapshots, None
    <2>4. signalled <= latest.campaigns => signalled <= campaigns["hub"]
      BY <2>2, <2>3
    <2> QED BY <2>1, <2>2, <2>4
  <1>6. CASE RefreshFails
    BY <1>6 DEF RefreshFails
  <1>7. ASSUME NEW s \in Streams, StreamStep(s) PROVE SignalKept'
    <2>1. UNCHANGED <<notify, latest, signalled, missed>>
      BY <1>7 DEF StreamStep, OwnStep, Subscribe, Current, LoadOwn, ShowOwn, LoadOwnFails,
        Receive, Disconnect, LoadCampaignAggregates, KeepLatest
    <2>2. loading'["hub"] = loading["hub"] /\ campaigns'["hub"] = campaigns["hub"]
      BY <1>7 DEF StreamStep, OwnStep, Subscribe, Current, LoadOwn, ShowOwn, LoadOwnFails,
        Receive, Disconnect, LoadCampaignAggregates, StartLoad, EndLoad
    <2> QED BY <2>1, <2>2
  <1>8. CASE UNCHANGED hubVars
    BY <1>8 DEF hubVars
  <1> QED BY <1>1, <1>2, <1>3, <1>4, <1>5, <1>6, <1>7, <1>8 DEF HubNext

-----------------------------------------------------------------------------
(* A stream goes back once at most *)

\* Neither query of the first snapshot saw a later version than that of the second.
NotNewer(s1, s2) == s1.campaigns <= s2.campaigns /\ s1.deliveries <= s2.deliveries

\* A channel holds its snapshots in the order of their loads.
InOrder(q) == \A i, j \in 1..Len(q) : i <= j => NotNewer(q[i], q[j])

AllNotNewer(q, snapshot) == \A i \in 1..Len(q) : NotNewer(q[i], snapshot)

\* What a stream will take is in order and not newer than the latest snapshot, and
\* once it has taken one, what it shows is not newer than what it will take.
StreamForward(s) ==
    /\ loading[s] # "idle" => stream[s] = "opening"
    /\ InOrder(buffer[s]) /\ AllNotNewer(buffer[s], latest)
    /\ s \in received =>
          /\ stream[s] = "live"
          /\ NotNewer(view[s], latest)
          /\ \A i \in 1..Len(buffer[s]) : NotNewer(view[s], buffer[s][i])

StreamsForward == latest.deliveries <= changes /\ \A s \in Streams : StreamForward(s)

\* Every snapshot shown or sent is a pair of integers, None included.
LEMMA SnapshotsAreNumbers ==
    ASSUME HubValuesOK
    PROVE  /\ changes \in Int
           /\ \A l \in Loaders : campaigns[l] \in Int
           /\ latest.campaigns \in Int /\ latest.deliveries \in Int
  BY DEF HubValuesOK, Versions, Snapshots, None

\* The order of snapshots is transitive.
LEMMA NotNewerTransitive ==
    ASSUME NEW a \in Snapshots \union {None}, NEW b \in Snapshots \union {None},
           NEW c \in Snapshots \union {None}, NotNewer(a, b), NotNewer(b, c)
    PROVE  NotNewer(a, c)
  <1>1. /\ a.campaigns \in Int /\ b.campaigns \in Int /\ c.campaigns \in Int
        /\ a.deliveries \in Int /\ b.deliveries \in Int /\ c.deliveries \in Int
    BY DEF Snapshots, None, Versions
  <1> QED BY <1>1 DEF NotNewer

\* A channel in order stays so when the snapshot sent to it is not older than any
\* in it.
LEMMA OrderedAppend ==
    ASSUME NEW q \in Seq(Snapshots), NEW snapshot \in Snapshots,
           InOrder(q), AllNotNewer(q, snapshot)
    PROVE  InOrder(Append(q, snapshot)) /\ AllNotNewer(Append(q, snapshot), snapshot)
  <1> DEFINE r == Append(q, snapshot)
  <1>1. /\ Len(r) = Len(q) + 1 /\ r[Len(q) + 1] = snapshot
        /\ \A i \in 1..Len(q) : r[i] = q[i]
    OBVIOUS
  <1>2. NotNewer(snapshot, snapshot)
    BY DEF NotNewer, Snapshots, Versions
  <1>3. \A i \in 1..Len(r) : i \in 1..Len(q) \/ i = Len(q) + 1
    BY <1>1
  <1>4. ASSUME NEW i \in 1..Len(r) PROVE NotNewer(r[i], snapshot)
    BY <1>1, <1>2, <1>3 DEF AllNotNewer
  <1>5. ASSUME NEW i \in 1..Len(r), NEW j \in 1..Len(r), i <= j PROVE NotNewer(r[i], r[j])
    <2>1. CASE j = Len(q) + 1
      BY <1>1, <1>4, <2>1
    <2>2. CASE j \in 1..Len(q)
      <3>1. i \in 1..Len(q)
        BY <1>5, <2>2
      <3> QED BY <1>1, <1>5, <2>2, <3>1 DEF InOrder
    <2> QED BY <1>3, <2>1, <2>2
  <1> QED BY <1>4, <1>5 DEF InOrder, AllNotNewer

\* Nor does taking the first snapshot change the order, and the rest is not older
\* than what was taken.
LEMMA OrderedTail ==
    ASSUME NEW q \in Seq(Snapshots), q # <<>>, InOrder(q)
    PROVE  /\ InOrder(Tail(q))
           /\ Head(q) = q[1] /\ 1 \in 1..Len(q)
           /\ \A i \in 1..Len(Tail(q)) :
                 /\ i + 1 \in 1..Len(q) /\ Tail(q)[i] = q[i + 1]
                 /\ NotNewer(Head(q), Tail(q)[i])
  <1>1. /\ Len(q) \in Nat /\ Len(q) > 0 /\ Head(q) = q[1] /\ Len(Tail(q)) = Len(q) - 1
        /\ \A i \in 1..Len(Tail(q)) : Tail(q)[i] = q[i + 1]
    OBVIOUS
  <1>2. 1 \in 1..Len(q) /\ \A i \in 1..Len(Tail(q)) : i + 1 \in 1..Len(q) /\ 1 <= i + 1
    BY <1>1
  <1>3. \A i \in 1..Len(Tail(q)) : NotNewer(Head(q), Tail(q)[i])
    BY <1>1, <1>2 DEF InOrder
  <1>4. InOrder(Tail(q))
    <2> SUFFICES ASSUME NEW i \in 1..Len(Tail(q)), NEW j \in 1..Len(Tail(q)), i <= j
                 PROVE  NotNewer(Tail(q)[i], Tail(q)[j])
      BY DEF InOrder
    <2>1. i + 1 <= j + 1
      OBVIOUS
    <2> QED BY <1>1, <1>2, <2>1 DEF InOrder
  <1> QED BY <1>1, <1>2, <1>3, <1>4

\* A refresh replaces the latest snapshot by one that is not older.
LEMMA RefreshForward ==
    ASSUME HubValuesOK, LoadsForward, StreamsForward, loading["hub"] = "deliveries"
    PROVE  NotNewer(latest, BuildSnapshot("hub"))
  BY DEF LoadsForward, StreamsForward, BuildSnapshot, NotNewer

LEMMA StreamsForwardInit == HubInit => StreamsForward
  <1> SUFFICES ASSUME HubInit PROVE StreamsForward
    OBVIOUS
  <1>1. latest.deliveries <= changes
    BY DEF HubInit, None
  <1>2. ASSUME NEW s \in Streams PROVE StreamForward(s)
    <2>1. buffer[s] = <<>> /\ Len(buffer[s]) = 0 /\ received = {} /\ loading[s] = "idle"
      BY DEF HubInit, Loaders
    <2> QED BY <2>1 DEF StreamForward, InOrder, AllNotNewer
  <1> QED BY <1>1, <1>2 DEF StreamsForward

\* What is appended to a channel is the newest; what is shown was taken from its head.
LEMMA StreamsForwardStep ==
    ASSUME HubValuesOK, BuffersOK, LoadsForward, StreamsForward, [HubNext]_hubVars
    PROVE  StreamsForward'
  <1> USE DEF database, loads, streams, history
  <1>1. (latest.deliveries <= changes)'
    <2>1. CASE Refresh
      <3>1. latest'.deliveries = changes /\ changes' = changes
        BY <2>1 DEF Refresh, BuildSnapshot
      <3> QED BY <3>1, SnapshotsAreNumbers
    <2>2. CASE Change
      <3>1. latest' = latest /\ changes' = changes + 1
        BY <2>2 DEF Change
      <3> QED BY <3>1, SnapshotsAreNumbers DEF StreamsForward
    <2>3. ASSUME UNCHANGED <<latest, changes>> PROVE (latest.deliveries <= changes)'
      BY <2>3 DEF StreamsForward
    <2> QED BY <2>1, <2>2, <2>3 DEF HubNext, StreamStep, OwnStep, ConsumeStatusEvent, Tick,
          TakeSignal, LoadCampaignAggregates, RefreshFails, Subscribe, Current, LoadOwn,
          ShowOwn, KeepLatest, LoadOwnFails, Receive, Disconnect, hubVars
  <1>2. ASSUME NEW s \in Streams PROVE StreamForward(s)'
    <2> DEFINE q == buffer[s]
    <2>1. StreamForward(s) /\ q \in Seq(Snapshots) /\ s \in Loaders /\ s # "hub"
      BY DEF StreamsForward, BuffersOK, Loaders
    <2>2. /\ latest \in Snapshots \union {None} /\ view[s] \in Snapshots \union {None}
          /\ \A i \in 1..Len(q) : q[i] \in Snapshots
      BY <2>1 DEF HubValuesOK
    <2>3. ASSUME UNCHANGED <<latest, buffer, view, received>>,
                 /\ loading'[s] # "idle" => stream'[s] = "opening"
                 /\ s \in received => stream'[s] = "live"
          PROVE  StreamForward(s)'
      BY <2>1, <2>3 DEF StreamForward, InOrder, AllNotNewer
    <2>4. CASE Refresh
      <3> DEFINE new == BuildSnapshot("hub")
      <3>1. /\ new \in Snapshots /\ NotNewer(latest, new)
            /\ latest' = new /\ UNCHANGED <<stream, view, received>>
            /\ buffer'[s] = IF stream[s] = "closed" THEN q ELSE Send(s, new)
        BY <2>4, SnapshotType, RefreshForward DEF Refresh, Loaders
      <3>2. loading'[s] = loading[s]
        BY <2>1, <2>4 DEF Refresh, EndLoad, HubValuesOK
      <3> HIDE DEF new
      <3>3. AllNotNewer(q, new)
        <4> SUFFICES ASSUME NEW i \in 1..Len(q) PROVE NotNewer(q[i], new)
          BY DEF AllNotNewer
        <4>1. NotNewer(q[i], latest)
          BY <2>1 DEF StreamForward, AllNotNewer
        <4> QED BY <2>2, <3>1, <4>1, NotNewerTransitive
      <3>4. s \in received => NotNewer(view[s], new)
        BY <2>1, <2>2, <3>1, NotNewerTransitive DEF StreamForward
      <3>5. CASE buffer'[s] = q
        BY <2>1, <3>1, <3>2, <3>3, <3>4, <3>5 DEF StreamForward, InOrder, AllNotNewer
      <3>6. CASE buffer'[s] = Append(q, new)
        <4> DEFINE r == Append(q, new)
        <4>1. InOrder(r) /\ AllNotNewer(r, new)
          BY <2>1, <3>1, <3>3, OrderedAppend DEF StreamForward
        <4>2. \A i \in 1..Len(r) : r[i] = new \/ (i \in 1..Len(q) /\ r[i] = q[i])
          BY <2>1, <3>1
        <4>3. s \in received => \A i \in 1..Len(r) : NotNewer(view[s], r[i])
          BY <2>1, <3>4, <4>2 DEF StreamForward
        <4> HIDE DEF r
        <4> QED BY <2>1, <3>1, <3>2, <3>4, <3>6, <4>1, <4>3
              DEF StreamForward, InOrder, AllNotNewer, r
      <3> QED BY <3>1, <3>5, <3>6 DEF Send
    <2>5. ASSUME NEW t \in Streams, Subscribe(t) PROVE StreamForward(s)'
      <3>1. UNCHANGED <<latest, view, received, loading>>
        BY <2>5 DEF Subscribe
      <3>2. CASE t # s
        <4>1. buffer'[s] = q /\ stream'[s] = stream[s]
          BY <2>5, <3>2 DEF Subscribe, BuffersOK, HubValuesOK
        <4> QED BY <2>1, <3>1, <4>1 DEF StreamForward, InOrder, AllNotNewer
      <3>3. CASE t = s
        <4>1. /\ stream[s] = "closed" /\ stream'[s] = "opening" /\ s \notin received
              /\ buffer'[s] = IF latest = None THEN <<>> ELSE <<latest>>
          BY <2>1, <2>5, <3>3 DEF Subscribe, BuffersOK, HubValuesOK, StreamForward
        <4>2. NotNewer(latest, latest)
          BY SnapshotsAreNumbers DEF NotNewer
        <4>3. InOrder(<<>>) /\ AllNotNewer(<<>>, latest)
          BY DEF InOrder, AllNotNewer
        <4>4. InOrder(<<latest>>) /\ AllNotNewer(<<latest>>, latest)
          BY <4>2 DEF InOrder, AllNotNewer
        <4>5. InOrder(buffer'[s]) /\ AllNotNewer(buffer'[s], latest')
          BY <3>1, <4>1, <4>3, <4>4
        <4> QED BY <3>1, <4>1, <4>5 DEF StreamForward, InOrder, AllNotNewer
      <3> QED BY <3>2, <3>3
    <2>6. ASSUME NEW t \in Streams, Disconnect(t) PROVE StreamForward(s)'
      <3>1. UNCHANGED <<latest, loading>>
        BY <2>6 DEF Disconnect
      <3>2. CASE t # s
        <4>1. /\ buffer'[s] = q /\ stream'[s] = stream[s] /\ view'[s] = view[s]
              /\ s \in received' <=> s \in received
          BY <2>6, <3>2 DEF Disconnect, BuffersOK, HubValuesOK
        <4> QED BY <2>1, <3>1, <4>1 DEF StreamForward, InOrder, AllNotNewer
      <3>3. CASE t = s
        <4>1. buffer'[s] = <<>> /\ s \notin received' /\ loading'[s] = "idle"
          BY <2>1, <2>6, <3>1, <3>3 DEF Disconnect, BuffersOK, StreamForward
        <4> QED BY <4>1 DEF StreamForward, InOrder, AllNotNewer
      <3> QED BY <3>2, <3>3
    <2>7. ASSUME NEW t \in Streams, Receive(t) PROVE StreamForward(s)'
      <3>1. UNCHANGED <<latest, loading, stream>>
        BY <2>7 DEF Receive
      <3>2. CASE t # s
        <4>1. buffer'[s] = q /\ view'[s] = view[s] /\ (s \in received' <=> s \in received)
          BY <2>7, <3>2 DEF Receive, BuffersOK, HubValuesOK
        <4> QED BY <2>1, <3>1, <4>1 DEF StreamForward, InOrder, AllNotNewer
      <3>3. CASE t = s
        <4>1. /\ stream[s] = "live" /\ q # <<>>
              /\ buffer'[s] = Tail(q) /\ view'[s] = Head(q)
          BY <2>7, <3>3 DEF Receive, BuffersOK, HubValuesOK
        <4>2. /\ InOrder(Tail(q)) /\ Head(q) = q[1] /\ 1 \in 1..Len(q)
              /\ \A i \in 1..Len(Tail(q)) :
                    /\ i + 1 \in 1..Len(q) /\ Tail(q)[i] = q[i + 1]
                    /\ NotNewer(Head(q), Tail(q)[i])
          BY <2>1, <4>1, OrderedTail DEF StreamForward
        <4>3. AllNotNewer(Tail(q), latest) /\ NotNewer(Head(q), latest)
          BY <2>1, <4>2 DEF StreamForward, AllNotNewer
        <4> DEFINE r == Tail(q)
        <4> HIDE DEF r
        <4> QED BY <2>1, <3>1, <4>1, <4>2, <4>3 DEF StreamForward, InOrder, AllNotNewer, r
      <3> QED BY <3>2, <3>3
    <2>8. ASSUME NEW t \in Streams, Current(t) \/ ShowOwn(t) \/ LoadOwnFails(t) \/ LoadOwn(t)
                                    \/ LoadCampaignAggregates(t)
          PROVE  StreamForward(s)'
      <3>1. UNCHANGED <<latest, buffer, received>> /\ stream[t] = "opening"
        <4>1. StreamForward(t) /\ t \in Loaders
          BY DEF StreamsForward, Loaders
        <4> QED BY <2>8, <4>1 DEF Current, ShowOwn, LoadOwnFails, LoadOwn, KeepLatest,
              LoadCampaignAggregates, StreamForward
      <3>2. CASE t # s
        <4>1. view'[s] = view[s] /\ stream'[s] = stream[s] /\ loading'[s] = loading[s]
          BY <2>1, <2>8, <3>2 DEF Current, ShowOwn, LoadOwnFails, LoadOwn, Show, StartLoad,
            EndLoad, LoadCampaignAggregates, HubValuesOK, Loaders
        <4> QED BY <2>1, <3>1, <4>1 DEF StreamForward, InOrder, AllNotNewer
      <3>3. CASE t = s
        <4>1. s \notin received
          BY <2>1, <3>1, <3>3 DEF StreamForward
        <4>2. loading'[s] # "idle" => stream'[s] = "opening"
          BY <2>1, <2>8, <3>1, <3>3 DEF Current, ShowOwn, LoadOwnFails, LoadOwn, Show,
            StartLoad, EndLoad, LoadCampaignAggregates, HubValuesOK, Loaders
        <4> QED BY <2>1, <3>1, <4>1, <4>2 DEF StreamForward, InOrder, AllNotNewer
      <3> QED BY <3>2, <3>3
    <2>9. ASSUME Change \/ ConsumeStatusEvent \/ Tick \/ TakeSignal
                 \/ LoadCampaignAggregates("hub") \/ RefreshFails \/ UNCHANGED hubVars
          PROVE  StreamForward(s)'
      <3>1. UNCHANGED <<latest, buffer, view, received, stream>>
        BY <2>9 DEF Change, ConsumeStatusEvent, Tick, TakeSignal, LoadCampaignAggregates,
          RefreshFails, hubVars
      <3>2. loading'[s] = loading[s]
        BY <2>1, <2>9 DEF Change, ConsumeStatusEvent, Tick, TakeSignal, StartLoad, EndLoad,
          LoadCampaignAggregates, RefreshFails, hubVars, HubValuesOK
      <3> QED BY <2>1, <2>3, <3>1, <3>2 DEF StreamForward
    <2> QED BY <2>4, <2>5, <2>6, <2>7, <2>8, <2>9 DEF HubNext, StreamStep, OwnStep
  <1> QED BY <1>1, <1>2 DEF StreamsForward

-----------------------------------------------------------------------------
(* The inductive invariant and the theorems *)

HubInv ==
    NotifyOK /\ HubValuesOK /\ BuffersOK /\ LoadsForward /\ SignalKept /\ StreamsForward

LEMMA HubInvInit == HubInit => HubInv
  <1> SUFFICES ASSUME HubInit PROVE HubInv
    OBVIOUS
  <1>1. LoadsForward /\ SignalKept
    BY DEF HubInit, LoadsForward, SignalKept, None, Loaders
  <1> QED BY <1>1, HubTypesInit, StreamsForwardInit DEF HubInv

LEMMA HubInvStep == HubInv /\ [HubNext]_hubVars => HubInv'
  BY NotifyStep, ValuesStep, BuffersStep, LoadsForwardStep, SignalKeptStep, StreamsForwardStep
    DEF HubInv

LEMMA HubInvariant == HubSpec => []HubInv
  BY HubInvInit, HubInvStep, PTL DEF HubSpec

\* The types hold, and no channel of a stream is ever longer than its two places.
THEOREM HubTypes == HubSpec => []HubTypeOK
  <1>1. HubInv => HubTypeOK
    <2> SUFFICES ASSUME HubInv PROVE HubTypeOK
      OBVIOUS
    <2>1. \A s \in Streams : /\ Len(buffer[s]) <= BufferSize
                             /\ \A i \in DOMAIN buffer[s] : buffer[s][i] \in Snapshots
      <3> TAKE s \in Streams
      <3>1. buffer[s] \in Seq(Snapshots) /\ Len(buffer[s]) <= BufferSize
        BY DEF HubInv, BuffersOK
      <3> QED BY <3>1
    <2>2. notify \in BOOLEAN
      BY DEF HubInv, NotifyOK
    <2> QED BY <2>1, <2>2 DEF HubInv, HubValuesOK, HubTypeOK
  <1> QED BY <1>1, HubInvariant, PTL

\* No status event's signal is forgotten, whenever it comes.
THEOREM NoSignalForgotten == HubSpec => []SignalKept
  <1>1. HubInv => SignalKept
    BY DEF HubInv
  <1> QED BY <1>1, HubInvariant, PTL

\* However refreshes, full channels and clients that come and go interleave, a stream
\* goes back to an older snapshot only with the first it takes from its channel.
THEOREM NoSecondStepBack == HubSpec => BackOnlyAtOpening
  <1> DEFINE Back == \A s \in Streams :
                Older(view'[s], view[s]) => s \notin received \/ stream'[s] = "closed"
  <1>1. HubInv /\ [HubNext]_hubVars => [Back]_hubVars
    <2> SUFFICES ASSUME HubInv, [HubNext]_hubVars, NEW s \in Streams,
                        s \in received, stream'[s] # "closed"
                 PROVE  ~Older(view'[s], view[s])
      OBVIOUS
    <2>1. /\ StreamForward(s) /\ stream[s] = "live" /\ view[s] \in Snapshots \union {None}
          /\ buffer[s] \in Seq(Snapshots)
      BY DEF HubInv, StreamsForward, StreamForward, HubValuesOK, BuffersOK
    <2>2. CASE Receive(s)
      <3>1. buffer[s] # <<>> /\ view'[s] = Head(buffer[s])
        BY <2>2 DEF Receive, HubInv, HubValuesOK
      <3>2. Head(buffer[s]) = buffer[s][1] /\ 1 \in 1..Len(buffer[s])
        BY <2>1, <3>1, OrderedTail DEF StreamForward
      <3>3. NotNewer(view[s], view'[s]) /\ view'[s] \in Snapshots
        BY <2>1, <3>1, <3>2 DEF StreamForward
      <3>4. /\ view[s].campaigns \in Int /\ view'[s].campaigns \in Int
            /\ view[s].deliveries \in Int /\ view'[s].deliveries \in Int
        BY <2>1, <3>3 DEF Snapshots, None, Versions
      <3> QED BY <3>3, <3>4 DEF NotNewer, Older
    <2>3. CASE view'[s] = view[s]
      <3>1. view[s].campaigns \in Int /\ view[s].deliveries \in Int
        BY <2>1 DEF Snapshots, None, Versions
      <3> QED BY <2>3, <3>1 DEF Older
    <2>4. ASSUME NEW t \in Streams, StreamStep(t) PROVE Receive(s) \/ view'[s] = view[s]
      <3>1. CASE t # s
        BY <2>4, <3>1 DEF StreamStep, OwnStep, Subscribe, Current, LoadOwn, ShowOwn, Show,
          LoadOwnFails, Receive, Disconnect, LoadCampaignAggregates, streams, HubInv,
          HubValuesOK
      <3>2. CASE t = s
        <4>1. loading[s] = "idle" /\ stream[s] = "live"
          BY <2>1 DEF StreamForward
        <4>2. ~Disconnect(s)
          BY DEF Disconnect, HubInv, HubValuesOK
        <4> QED BY <2>4, <3>2, <4>1, <4>2 DEF StreamStep, OwnStep, Subscribe, Current, LoadOwn,
              ShowOwn, LoadOwnFails, LoadCampaignAggregates
      <3> QED BY <3>1, <3>2
    <2> QED BY <2>2, <2>3, <2>4 DEF HubNext, Change, ConsumeStatusEvent, Tick, TakeSignal,
          LoadCampaignAggregates, Refresh, RefreshFails, streams, hubVars
  <1> QED BY <1>1, HubInvariant, PTL DEF HubSpec, BackOnlyAtOpening
=============================================================================
