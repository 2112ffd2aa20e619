------------------------------ MODULE Publisher ------------------------------
(***************************************************************************)
(* campaign-service's one RabbitMQ publisher channel, mq. RunWithReconnect *)
(* (runtime/reconnect.go) opens a connection with a channel, runs the      *)
(* publisher's function on it in a goroutine and reconnects when the       *)
(* connection is lost or the function returns. The function stores the     *)
(* channel in mq, waits until it is closed and clears mq; HTTP handlers    *)
(* publish on what they found in mq, and reset it when that fails.         *)
(***************************************************************************)
EXTENDS Naturals

CONSTANTS
    Callers,        \* goroutines in publishWithPublisher
    MaxChannels,    \* bound on the connections opened
    MaxFaults       \* bound on lost connections and channels and failed publishes

ASSUME PublisherAssumption == MaxChannels \in Nat /\ MaxFaults \in Nat

VARIABLES
    mq,             \* the channel in use, 0 for nil
    opened,         \* channels opened so far: the newest, 0 before the first
    loop,           \* RunWithReconnect: "dial" or "wait"
    connected,      \* channels whose connection is up
    open,           \* channels that are open
    function,       \* per channel: where the publisher's function is
    caller,         \* per caller: where publishWithPublisher is
    uses,           \* per caller: the channel it found, 0 for none
    overtaken,      \* history: a function stored its channel after a newer one
    mqFaults        \* faults so far

publisherVars == <<mq, opened, loop, connected, open, function, caller, uses,
                   overtaken, mqFaults>>

connection == <<opened, loop, connected, open, function>>
callers == <<caller, uses>>

Channels == 1..MaxChannels

PublisherInit ==
    /\ mq = 0 /\ opened = 0 /\ loop = "dial"
    /\ connected = {} /\ open = {}
    /\ function = [ch \in Channels |-> "none"]
    /\ caller = [c \in Callers |-> "idle"] /\ uses = [c \in Callers |-> 0]
    /\ overtaken = FALSE /\ mqFaults = 0

Fault == mqFaults < MaxFaults /\ mqFaults' = mqFaults + 1

-----------------------------------------------------------------------------
(* RunWithReconnect *)

Dial ==
    /\ loop = "dial" /\ opened < MaxChannels
    /\ opened' = opened + 1 /\ loop' = "wait"
    /\ connected' = connected \union {opened'} /\ open' = open \union {opened'}
    /\ function' = [function EXCEPT ![opened'] = "started"]
    /\ UNCHANGED <<mq, callers, overtaken, mqFaults>>

\* Mutant: what was opened is closed only when the connection was lost.
ClosedIfLost == opened \notin connected

ClosedBeforeDial == TRUE

\* The connection was lost, or the function has returned: what is still open
\* is closed, and the next connection opened.
Reconnect ==
    /\ loop = "wait"
    /\ opened \notin connected \/ function[opened] = "done"
    /\ loop' = "dial"
    /\ connected' = IF ClosedBeforeDial THEN connected \ {opened} ELSE connected
    /\ open' = IF ClosedBeforeDial THEN open \ {opened} ELSE open
    /\ UNCHANGED <<mq, opened, function, callers, overtaken, mqFaults>>

BrokerLost ==
    /\ opened \in connected
    /\ Fault
    /\ connected' = connected \ {opened} /\ open' = open \ {opened}
    /\ UNCHANGED <<mq, opened, loop, function, callers, overtaken>>

\* The broker closes the channel, the connection stays.
ChannelLost ==
    /\ opened \in open
    /\ Fault
    /\ open' = open \ {opened}
    /\ UNCHANGED <<mq, opened, loop, connected, function, callers, overtaken>>

-----------------------------------------------------------------------------
(* The publisher's function *)

SetPublisher(ch) ==
    /\ function[ch] = "started"
    /\ mq' = ch
    /\ function' = [function EXCEPT ![ch] = "watch"]
    /\ overtaken' = (overtaken \/ \E newer \in ch + 1 .. opened : function[newer] # "started")
    /\ UNCHANGED <<opened, loop, connected, open, callers, mqFaults>>

\* Mutant: only a lost connection is noticed.
ConnectionGone(ch) == ch \notin connected

Closed(ch) == ch \notin open

NoticeClose(ch) ==
    /\ function[ch] = "watch" /\ Closed(ch)
    /\ function' = [function EXCEPT ![ch] = "clear"]
    /\ UNCHANGED <<mq, opened, loop, connected, open, callers, overtaken, mqFaults>>

\* Mutant: mq is cleared whatever it holds.
AfterClearAny(ch) == IF ch \in Channels THEN 0 ELSE mq

AfterClear(ch) == IF mq = ch THEN 0 ELSE mq

ClearPublisher(ch) ==
    /\ function[ch] = "clear"
    /\ mq' = AfterClear(ch)
    /\ function' = [function EXCEPT ![ch] = "done"]
    /\ UNCHANGED <<opened, loop, connected, open, callers, overtaken, mqFaults>>

-----------------------------------------------------------------------------
(* publishWithPublisher; with mq = nil it returns an error and changes nothing *)

Move(c, here, there) == caller[c] = here /\ caller' = [caller EXCEPT ![c] = there]

CurrentPublisher(c) ==
    /\ Move(c, "idle", "publish") /\ mq # 0
    /\ uses' = [uses EXCEPT ![c] = mq]
    /\ UNCHANGED <<mq, connection, overtaken, mqFaults>>

PublishSucceeds(c) ==
    /\ Move(c, "publish", "idle") /\ uses[c] \in open
    /\ uses' = [uses EXCEPT ![c] = 0]
    /\ UNCHANGED <<mq, connection, overtaken, mqFaults>>

PublishFails(c) ==
    /\ Move(c, "publish", "reset")
    /\ IF uses[c] \in open THEN Fault ELSE UNCHANGED mqFaults
    /\ UNCHANGED <<mq, connection, uses, overtaken>>

\* resetPublisher: clearPublisher, then Close.
ResetPublisher(c) ==
    /\ Move(c, "reset", "close")
    /\ mq' = AfterClear(uses[c])
    /\ UNCHANGED <<connection, uses, overtaken, mqFaults>>

CloseChannel(c) ==
    /\ Move(c, "close", "idle")
    /\ open' = open \ {uses[c]}
    /\ uses' = [uses EXCEPT ![c] = 0]
    /\ UNCHANGED <<mq, opened, loop, connected, function, overtaken, mqFaults>>

-----------------------------------------------------------------------------
FunctionStep(ch) == SetPublisher(ch) \/ NoticeClose(ch) \/ ClearPublisher(ch)

CallerStep(c) ==
    PublishSucceeds(c) \/ PublishFails(c) \/ ResetPublisher(c) \/ CloseChannel(c)

PublisherNext ==
    \/ Dial \/ Reconnect \/ BrokerLost \/ ChannelLost
    \/ \E ch \in Channels : FunctionStep(ch)
    \/ \E c \in Callers : CurrentPublisher(c) \/ CallerStep(c)

\* The loop, the functions and a caller that has begun go on; RabbitMQ can be
\* reached again at some time.
PublisherFairness ==
    /\ WF_publisherVars(Dial) /\ WF_publisherVars(Reconnect)
    /\ \A ch \in Channels : WF_publisherVars(FunctionStep(ch))
    /\ \A c \in Callers : WF_publisherVars(CallerStep(c))

PublisherSpec == PublisherInit /\ [][PublisherNext]_publisherVars /\ PublisherFairness

-----------------------------------------------------------------------------
(* Properties *)

\* The type invariant; nothing but the newest connection is left open.
PublisherTypeOK ==
    /\ mq \in 0..opened /\ opened \in 0..MaxChannels
    /\ loop \in {"dial", "wait"}
    /\ open \subseteq connected /\ connected \subseteq {opened}
    /\ function \in [Channels -> {"none", "started", "watch", "clear", "done"}]
    /\ caller \in [Callers -> {"idle", "publish", "reset", "close"}]
    /\ uses \in [Callers -> 0..opened]
    /\ overtaken \in BOOLEAN /\ mqFaults \in 0..MaxFaults

\* An open channel leaves mq only because a publish on that channel failed: a
\* late failure on an older channel, or the end of the older function, leaves it.
\* The exception is an older function that only now stores its channel.
LiveSlotKept ==
    [][(mq \in open /\ mq' # mq)
        => overtaken' \/ \E c \in Callers : caller[c] = "reset" /\ uses[c] = mq]_publisherVars

\* The publisher comes back after whatever closed its channel, unless an older
\* function was that late: then mq is nil while the newest channel is open.
ComesBack == <>[](mq = opened /\ mq \in open) \/ <>overtaken
=============================================================================
