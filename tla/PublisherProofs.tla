--------------------------- MODULE PublisherProofs ---------------------------
(***************************************************************************)
(* Proofs about Publisher, for every number of callers, connections and    *)
(* faults.                                                                 *)
(***************************************************************************)
EXTENDS Publisher, TLAPS

USE PublisherAssumption

\* While the loop dials, nothing is connected: the new channel is the only one.
DialsAlone == (loop = "dial" => connected = {}) /\ 0 \notin connected

\* A function runs on a channel that was opened, and ends only when it is closed.
FunctionsFollow ==
    \A ch \in Channels :
        /\ function[ch] # "none" <=> ch <= opened
        /\ function[ch] \in {"clear", "done"} => ch \notin open

\* What mq holds was stored by that channel's function.
SlotWasStored == mq # 0 => function[mq] \in {"watch", "clear", "done"}

PublisherInv == PublisherTypeOK /\ DialsAlone /\ FunctionsFollow /\ SlotWasStored

LEMMA PublisherInvInit == PublisherInit => PublisherInv
  <1> SUFFICES ASSUME PublisherInit PROVE PublisherInv
    OBVIOUS
  <1>1. overtaken \in BOOLEAN
    BY DEF PublisherInit
  <1>2. mq = 0 /\ opened = 0 /\ mqFaults = 0 /\ open = {} /\ connected = {}
    BY DEF PublisherInit
  <1>3. uses \in [Callers -> 0..opened] /\ caller \in [Callers -> {"idle"}]
    BY <1>2 DEF PublisherInit
  <1>4. \A ch \in Channels : function[ch] = "none" /\ ~(ch <= opened)
    BY <1>2 DEF PublisherInit, Channels
  <1>5. PublisherTypeOK
    BY <1>1, <1>2, <1>3 DEF PublisherInit, PublisherTypeOK
  <1> QED BY <1>2, <1>4, <1>5 DEF PublisherInv, DialsAlone, FunctionsFollow, SlotWasStored

\* Every step keeps the invariant.
LEMMA PublisherInvStep ==
    ASSUME PublisherInv, [PublisherNext]_publisherVars
    PROVE  PublisherInv'
  <1> USE DEF PublisherInv, PublisherTypeOK, DialsAlone, FunctionsFollow, SlotWasStored,
        Channels, Fault, connection, callers
  <1>1. CASE Dial
    BY <1>1 DEF Dial
  <1>2. CASE Reconnect
    BY <1>2 DEF Reconnect, ClosedBeforeDial
  <1>3. CASE BrokerLost
    BY <1>3 DEF BrokerLost
  <1>4. CASE ChannelLost
    BY <1>4 DEF ChannelLost
  <1>5. ASSUME NEW ch \in Channels, FunctionStep(ch) PROVE PublisherInv'
    <2>1. CASE SetPublisher(ch)
      BY <2>1 DEF SetPublisher
    <2>2. CASE NoticeClose(ch)
      BY <2>2 DEF NoticeClose, Closed
    <2>3. CASE ClearPublisher(ch)
      BY <2>3 DEF ClearPublisher, AfterClear
    <2> QED BY <1>5, <2>1, <2>2, <2>3 DEF FunctionStep
  <1>6. ASSUME NEW c \in Callers, CurrentPublisher(c) \/ CallerStep(c) PROVE PublisherInv'
    <2>1. CASE CurrentPublisher(c)
      BY <2>1 DEF CurrentPublisher, Move
    <2>2. CASE PublishFails(c)
      BY <2>2 DEF PublishFails, Move
    <2>3. CASE ResetPublisher(c)
      BY <2>3 DEF ResetPublisher, AfterClear, Move
    <2>4. CASE PublishSucceeds(c) \/ CloseChannel(c)
      <3>1. caller' \in [Callers -> {"idle", "publish", "reset", "close"}]
        BY <2>4 DEF PublishSucceeds, CloseChannel, Move
      <3>2. uses' \in [Callers -> 0..opened]
        BY <2>4 DEF PublishSucceeds, CloseChannel
      <3> QED BY <2>4, <3>1, <3>2 DEF PublishSucceeds, CloseChannel
    <2> QED BY <1>6, <2>1, <2>2, <2>3, <2>4 DEF CallerStep
  <1>7. CASE UNCHANGED publisherVars
    BY <1>7 DEF publisherVars
  <1> QED BY <1>1, <1>2, <1>3, <1>4, <1>5, <1>6, <1>7 DEF PublisherNext

\* What LiveSlotKept says of a step.
SlotKept ==
    (mq \in open /\ mq' # mq)
        => overtaken' \/ \E c \in Callers : caller[c] = "reset" /\ uses[c] = mq

\* An open channel in mq is the newest, so its function is past "started": one
\* that stores another channel now overtakes it, and none clears it while it is open.
LEMMA SlotKeptStep ==
    ASSUME PublisherInv, [PublisherNext]_publisherVars PROVE SlotKept
  <1>1. ASSUME NEW ch \in Channels, SetPublisher(ch) PROVE SlotKept
    <2> SUFFICES ASSUME mq \in open, mq' # mq PROVE overtaken'
      BY DEF SlotKept
    <2>1. mq = opened /\ opened \in Channels /\ function[opened] # "started"
      BY DEF PublisherInv, PublisherTypeOK, DialsAlone, SlotWasStored, Channels
    <2>2. opened \in ch + 1 .. opened
      BY <1>1, <2>1 DEF SetPublisher, PublisherInv, FunctionsFollow, Channels
    <2> QED BY <1>1, <2>1, <2>2 DEF SetPublisher
  <1>2. ASSUME NEW ch \in Channels, ClearPublisher(ch) PROVE SlotKept
    BY <1>2 DEF ClearPublisher, AfterClear, SlotKept, PublisherInv, FunctionsFollow
  <1>3. ASSUME NEW c \in Callers, ResetPublisher(c) PROVE SlotKept
    BY <1>3 DEF ResetPublisher, AfterClear, Move, SlotKept
  <1>4. ASSUME mq' = mq PROVE SlotKept
    BY <1>4 DEF SlotKept
  <1> QED BY <1>1, <1>2, <1>3, <1>4
        DEF PublisherNext, FunctionStep, CallerStep, Dial, Reconnect, BrokerLost, ChannelLost,
          NoticeClose, CurrentPublisher, PublishSucceeds, PublishFails, CloseChannel,
          publisherVars

\* The types hold, and no connection but the newest is ever left open.
THEOREM NewestOnly ==
    PublisherSpec => []PublisherTypeOK
  <1>1. PublisherInv => PublisherTypeOK
    BY DEF PublisherInv
  <1> QED BY <1>1, PublisherInvInit, PublisherInvStep, PTL DEF PublisherSpec

\* An open channel leaves mq only because a publish on that channel failed, or an
\* older function stored its channel late.
THEOREM OpenSlotKept ==
    PublisherSpec => LiveSlotKept
  <1>1. PublisherInit => PublisherInv
    BY PublisherInvInit
  <1>2. PublisherInv /\ [PublisherNext]_publisherVars => PublisherInv'
    BY PublisherInvStep
  <1>3. PublisherInv /\ [PublisherNext]_publisherVars => [SlotKept]_publisherVars
    BY SlotKeptStep
  <1>4. PublisherSpec => [][SlotKept]_publisherVars
    BY <1>1, <1>2, <1>3, PTL DEF PublisherSpec
  <1> QED BY <1>4 DEF LiveSlotKept, SlotKept
=============================================================================
