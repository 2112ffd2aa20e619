------------------------------ MODULE Dispatch ------------------------------
(***************************************************************************)
(* The fan-out of one campaign: campaign-service keeps the campaign's      *)
(* status and a dispatch cursor with a lease in Postgres, and dispatcher   *)
(* workers, woken by messages of the queue campaign.dispatch.request,      *)
(* claim a window of recipients, hand one send job per recipient and       *)
(* channel to RabbitMQ, and report the window complete.                    *)
(*                                                                         *)
(* Creating a campaign writes no row of campaign_dispatch_state: the first *)
(* start, claim, recovery or restart of campaign-service inserts it. While *)
(* it is missing its columns have their defaults. Time is not counted: a   *)
(* lease runs out (ExpireLease) and updated_at becomes old (StateAges) at  *)
(* any moment.                                                             *)
(***************************************************************************)
EXTENDS Naturals

CONSTANTS
    Total,        \* recipients of the campaign
    MaxMessages,  \* DISPATCH_MAX_MESSAGES_PER_TICK, 90 if it is not positive
    MaxChannels,  \* bound on the channels a campaign may end up with
    Dispatchers,  \* consumer goroutines of dispatcher-service
    Requests,     \* concurrent POST /campaigns/{id}/start handlers
    MaxWakeups,   \* bound: wakeups beyond it coalesce
    MaxFaults     \* bound on crashes, lost connections and failed calls

ASSUME ConstantsAssumption ==
    /\ Total \in Nat /\ MaxMessages \in Nat \ {0}
    /\ MaxChannels \in Nat \ {0} /\ MaxWakeups \in Nat \ {0} /\ MaxFaults \in Nat

VARIABLES
    status,          \* campaigns.status
    archived,        \* campaigns.archived_at IS NOT NULL
    channels,        \* channels of the widest recipient
    stateRow,        \* the campaign has a row of campaign_dispatch_state
    nextRecipient,   \* campaign_dispatch_state.next_recipient
    leaseStart, leaseEnd,  \* the leased window, 0 for NULL
    leaseUntil,      \* "null", "live" or "expired"
    completedAt,     \* completed_at IS NOT NULL
    updatedRecently, \* updated_at is within the recovery cooldown
    wakeups,         \* ready messages of campaign.dispatch.request
    at, previous,    \* start handlers: where each is, the status it found
    recovery,        \* the recovery loop: "scan" or "touch"
    pc, holders,     \* dispatchers: where each is, those holding an unacked wakeup
    from, to, pos,   \* the window it was given (none: 1..0) and its next recipient
    inTime,          \* history: dispatchers since whose claim no lease ran out
    published,       \* history: recipients whose jobs were all published
    duplicated,      \* history: some recipient was published more than once
    everExpired,     \* history: some lease ran out
    faults           \* history: faults so far

campaign == <<status, archived, channels>>
lease    == <<leaseStart, leaseEnd, leaseUntil>>
state    == <<stateRow, nextRecipient, lease, completedAt, updatedRecently>>
starts   == <<at, previous>>
window   == <<from, to, pos, inTime>>
workers  == <<pc, holders, window>>
fanned   == <<published, duplicated>>
vars     == <<campaign, state, wakeups, starts, recovery, workers, fanned,
              everExpired, faults>>

Recipients == 1..Total
Statuses   == {"created", "running", "retrying", "stopped", "cancelled", "finished"}
Startable  == {"created", "stopped"}
ActiveStatuses == {"running", "retrying"}

Active == status \in ActiveStatuses /\ ~archived

Init ==
    /\ status = "created" /\ archived = FALSE /\ channels = 1
    /\ stateRow = FALSE
    /\ nextRecipient = 1 /\ leaseStart = 0 /\ leaseEnd = 0 /\ leaseUntil = "null"
    /\ completedAt = FALSE /\ updatedRecently = TRUE
    /\ wakeups = 0
    /\ at = [h \in Requests |-> "idle"] /\ previous = [h \in Requests |-> "created"]
    /\ recovery = "scan"
    /\ pc = [d \in Dispatchers |-> "idle"] /\ holders = {}
    /\ from = [d \in Dispatchers |-> 1] /\ to = [d \in Dispatchers |-> 0]
    /\ pos = [d \in Dispatchers |-> 1] /\ inTime = {}
    /\ published = {} /\ duplicated = FALSE /\ everExpired = FALSE
    /\ faults = 0

-----------------------------------------------------------------------------
(* Helpers *)

\* A wakeup names only the campaign, so those past the bound are merged.
Wake == wakeups' = IF wakeups < MaxWakeups THEN wakeups + 1 ELSE wakeups

Fault == faults < MaxFaults /\ faults' = faults + 1

\* A start handler returns: its locals go out of scope.
Return(h) ==
    /\ at' = [at EXCEPT ![h] = "idle"]
    /\ previous' = [previous EXCEPT ![h] = "created"]

ClearLease == leaseStart' = 0 /\ leaseEnd' = 0 /\ leaseUntil' = "null"

\* Mutant: the last window is not cut at the campaign's end.
WindowEndUnclamped == nextRecipient + MaxMessages - 1

\* Mutant: one recipient too many.
WindowEndOffByOne ==
    IF nextRecipient + MaxMessages > Total THEN Total ELSE nextRecipient + MaxMessages

\* The last recipient of the window that starts at the cursor: as many
\* recipients as fit in a tick at one message per channel, at least one.
WindowEnd ==
    LET size == IF MaxMessages \div channels = 0 THEN 1 ELSE MaxMessages \div channels
        end  == nextRecipient + size - 1
    IN  IF end > Total THEN Total ELSE end

-----------------------------------------------------------------------------
(* campaign-service: POST /campaigns/{id}/start *)

\* The atomic UPDATE ... WHERE status IN (created, stopped). A request that
\* finds another status answers 409 and changes nothing.
TransitionCampaignToRunning(h) ==
    /\ at[h] = "idle"
    /\ status \in Startable
    /\ status' = "running"
    /\ previous' = [previous EXCEPT ![h] = status]
    /\ at' = [at EXCEPT ![h] = "upsert"]
    /\ UNCHANGED <<archived, channels, state, wakeups, recovery, workers, fanned,
                   everExpired, faults>>

\* Mutant: the upsert drops WHERE completed_at IS NOT NULL.
ResetAlways == completedAt' = FALSE /\ ClearLease /\ updatedRecently' = TRUE

\* Reopens a finished dispatch; an unfinished one keeps cursor and lease, and
\* a missing one is inserted with the defaults.
ResetDispatchState ==
    \/ /\ completedAt
       /\ completedAt' = FALSE /\ ClearLease /\ updatedRecently' = TRUE
    \/ /\ ~completedAt
       /\ UNCHANGED <<completedAt, lease, updatedRecently>>

UpsertDispatchState(h) ==
    /\ at[h] = "upsert"
    /\ stateRow' = TRUE
    /\ ResetDispatchState
    /\ at' = [at EXCEPT ![h] = "publish"]
    /\ UNCHANGED <<campaign, nextRecipient, wakeups, previous, recovery, workers, fanned,
                   everExpired, faults>>

PublishDispatch(h) ==
    /\ at[h] = "publish"
    /\ Wake
    /\ Return(h)
    /\ UNCHANGED <<campaign, state, recovery, workers, fanned, everExpired, faults>>

\* Without publisher confirms a publish can return nil and the wakeup be lost.
PublishDispatchLost(h) ==
    /\ at[h] = "publish"
    /\ Fault
    /\ Return(h)
    /\ UNCHANGED <<campaign, state, wakeups, recovery, workers, fanned, everExpired>>

\* The upsert or the publish returns an error ...
StartFails(h) ==
    /\ at[h] \in {"upsert", "publish"}
    /\ Fault
    /\ at' = [at EXCEPT ![h] = "rollback"]
    /\ UNCHANGED <<campaign, state, wakeups, previous, recovery, workers, fanned, everExpired>>

\* ... and the handler puts back the status it found, WHERE status = running.
RollbackStart(h) ==
    /\ at[h] = "rollback"
    /\ status' = IF status = "running" THEN previous[h] ELSE status
    /\ Return(h)
    /\ UNCHANGED <<archived, channels, state, wakeups, recovery, workers, fanned,
                   everExpired, faults>>

\* campaign-service restarts and the handler never continues.
StartCrash(h) ==
    /\ at[h] # "idle"
    /\ Fault
    /\ Return(h)
    /\ UNCHANGED <<campaign, state, wakeups, recovery, workers, fanned, everExpired>>

-----------------------------------------------------------------------------
(* campaign-service: the other operations on the campaign, and the sender  *)
(* workers that finish it.                                                 *)

SetCampaign(newStatus, newArchived, newChannels) ==
    /\ status' = newStatus /\ archived' = newArchived /\ channels' = newChannels
    /\ UNCHANGED <<state, wakeups, starts, recovery, workers, fanned,
                   everExpired, faults>>

StopCampaign    == status \in ActiveStatuses /\ SetCampaign("stopped", archived, channels)
CancelCampaign  == SetCampaign("cancelled", archived, channels)
ArchiveCampaign == SetCampaign(status, TRUE, channels)

\* refreshCampaignCounters: the processed rows reach total_messages. With
\* switched error groups that may be before the fan-out is complete.
FinishCampaign ==
    /\ status \in ActiveStatuses /\ published # {}
    /\ SetCampaign("finished", archived, channels)

\* claimFailedRows and markFailedRowsSuperseded set running whatever the
\* status was.
RetryFailed == published # {} /\ SetCampaign("running", archived, channels)

\* The last statement of switchErrorGroup: one more selected channel.
AddSelectedChannel ==
    /\ published # {} /\ channels < MaxChannels
    /\ SetCampaign(status, archived, channels + 1)

-----------------------------------------------------------------------------
(* campaign-service: the recovery loop *)

\* Mutant: leases that ran out are not recovered, only states without one.
UnleasedIsRecoverable ==
    Active /\ stateRow /\ ~completedAt /\ leaseUntil = "null" /\ ~updatedRecently

IsRecoverable ==
    Active /\ stateRow /\ ~completedAt /\ leaseUntil # "live" /\ ~updatedRecently

\* The first statement of a recovery: the active campaigns that have no row get one.
RecoverMissingState ==
    /\ recovery = "scan" /\ Active
    /\ ~stateRow /\ stateRow' = TRUE
    /\ UNCHANGED <<campaign, nextRecipient, lease, completedAt, updatedRecently, wakeups,
                   starts, recovery, workers, fanned, everExpired, faults>>

RecoverDispatchWakeups ==
    /\ recovery = "scan" /\ IsRecoverable
    /\ Wake
    /\ recovery' = "touch"
    /\ UNCHANGED <<campaign, state, starts, workers, fanned, everExpired, faults>>

\* The wakeup is lost, but not the update of updated_at.
RecoveryWakeupLost ==
    /\ recovery = "scan" /\ IsRecoverable
    /\ Fault
    /\ recovery' = "touch"
    /\ UNCHANGED <<campaign, state, wakeups, starts, workers, fanned, everExpired>>

TouchRecovered ==
    /\ recovery = "touch"
    /\ updatedRecently' = IF ~completedAt /\ leaseUntil # "live" THEN TRUE ELSE updatedRecently
    /\ recovery' = "scan"
    /\ UNCHANGED <<campaign, stateRow, nextRecipient, lease, completedAt, wakeups, starts,
                   workers, fanned, everExpired, faults>>

-----------------------------------------------------------------------------
(* campaign-service: a restart *)

\* ensureSchema inserts the missing rows; that of a cancelled campaign (or of a
\* finished one, from before the table was there) is completed although its
\* cursor is 1.
EnsureSchema ==
    /\ ~stateRow /\ stateRow' = TRUE
    /\ completedAt' = (status \in {"finished", "cancelled"})
    /\ UNCHANGED <<campaign, nextRecipient, lease, updatedRecently, wakeups, starts,
                   recovery, workers, fanned, everExpired, faults>>

-----------------------------------------------------------------------------
(* dispatcher-service: one consumer goroutine *)

Move(d, here, there) == pc[d] = here /\ pc' = [pc EXCEPT ![d] = there]

\* Qos(1): one unacked wakeup per consumer.
Receive(d) ==
    /\ Move(d, "idle", "inspect")
    /\ wakeups > 0 /\ wakeups' = wakeups - 1
    /\ holders' = holders \union {d}
    /\ UNCHANGED <<campaign, state, starts, recovery, window, fanned,
                   everExpired, faults>>

\* The loop body ends: its locals go out of scope.
NextIteration(d) ==
    /\ pc' = [pc EXCEPT ![d] = "idle"]
    /\ holders' = holders \ {d}
    /\ from' = [from EXCEPT ![d] = 1]
    /\ to' = [to EXCEPT ![d] = 0]
    /\ pos' = [pos EXCEPT ![d] = 1]
    /\ inTime' = inTime \ {d}

\* Gives the wakeup back, Nack(requeue), and takes the next one. The nack of
\* a delivery whose connection is gone does nothing: the broker has it back.
Requeue(d) ==
    /\ NextIteration(d)
    /\ IF d \in holders THEN Wake ELSE UNCHANGED wakeups

\* message.send is deep: publish a fresh wakeup, then ack this one.
Throttle(d) ==
    /\ d \in holders
    /\ Move(d, "inspect", "ack")
    /\ Wake
    /\ UNCHANGED <<campaign, state, starts, recovery, holders, window, fanned,
                   everExpired, faults>>

\* claimDispatchWindow inserts a missing row, whatever the status, and locks
\* only that row (FOR UPDATE OF ds): the campaign's columns are those of the
\* statement's snapshot, so an inactive campaign is refused (204) from it, and
\* an active one claimed even if it is stopped before the lock is granted.
\* (The channels, which only size the window, are taken at the lock. A claim
\* whose insert is rolled back is a dispatcher that dies before it.)
ClaimSnapshot(d) ==
    /\ pc[d] = "inspect"
    /\ pc' = [pc EXCEPT ![d] = IF Active THEN "claim" ELSE "ack"]
    /\ stateRow' = TRUE
    /\ UNCHANGED <<campaign, nextRecipient, lease, completedAt, updatedRecently, wakeups,
                   starts, recovery, holders, window, fanned, everExpired, faults>>

\* Mutant: a claim does not look at the lease.
MayClaimLeased == ~completedAt

MayClaim == ~completedAt /\ leaseUntil # "live"

ClaimRefused(d) ==
    /\ Move(d, "claim", "ack")
    /\ ~MayClaim
    /\ UNCHANGED <<campaign, state, wakeups, starts, recovery, holders, window, fanned,
                   everExpired, faults>>

ClaimExhausted(d) ==
    /\ Move(d, "claim", "ack")
    /\ MayClaim /\ nextRecipient > Total
    /\ completedAt' = TRUE /\ ClearLease /\ updatedRecently' = TRUE
    /\ UNCHANGED <<campaign, stateRow, nextRecipient, wakeups, starts, recovery, holders,
                   window, fanned, everExpired, faults>>

ClaimWindow(d) ==
    /\ Move(d, "claim", "publish")
    /\ MayClaim /\ nextRecipient <= Total
    /\ leaseStart' = nextRecipient /\ leaseEnd' = WindowEnd /\ leaseUntil' = "live"
    /\ completedAt' = FALSE /\ updatedRecently' = TRUE
    /\ from' = [from EXCEPT ![d] = nextRecipient]
    /\ to' = [to EXCEPT ![d] = WindowEnd]
    /\ pos' = [pos EXCEPT ![d] = nextRecipient]
    /\ inTime' = inTime \union {d}
    /\ UNCHANGED <<campaign, stateRow, nextRecipient, wakeups, starts, recovery, holders,
                   fanned, everExpired, faults>>

\* dispatch: the jobs of the next recipient, on each channel, are published.
PublishRecipient(d) ==
    /\ pc[d] = "publish" /\ pos[d] <= to[d] /\ d \in holders
    /\ published' = published \union {pos[d]}
    /\ duplicated' = IF pos[d] \in published THEN TRUE ELSE duplicated
    /\ pos' = [pos EXCEPT ![d] = @ + 1]
    /\ UNCHANGED <<campaign, state, wakeups, starts, recovery, pc, holders, from,
                   to, inTime, everExpired, faults>>

\* On a dead channel the publish fails, so does the nack, and the consumer
\* reconnects.
AbandonWindow(d) ==
    /\ pc[d] = "publish" /\ pos[d] <= to[d] /\ d \notin holders
    /\ Requeue(d)
    /\ UNCHANGED <<campaign, state, starts, recovery, fanned, everExpired, faults>>

\* Mutant: complete only asks that there be a lease.
AnyLeaseMatches(d) == leaseUntil # "null" /\ d \in Dispatchers

LeaseMatches(d) == leaseUntil # "null" /\ leaseStart = from[d] /\ leaseEnd = to[d]

\* Mutant: the last recipient is left out when deciding that nothing is left.
AdvanceCursorEarly(d) ==
    /\ LeaseMatches(d)
    /\ nextRecipient' = to[d] + 1
    /\ \/ to[d] + 1 >= Total /\ completedAt' = TRUE
       \/ to[d] + 1 < Total /\ completedAt' = FALSE
    /\ ClearLease /\ updatedRecently' = TRUE

\* completeDispatchWindow's update: the cursor moves behind the window.
AdvanceCursor(d) ==
    /\ LeaseMatches(d)
    /\ nextRecipient' = to[d] + 1
    /\ \/ to[d] + 1 > Total /\ completedAt' = TRUE
       \/ to[d] + 1 <= Total /\ completedAt' = FALSE
    /\ ClearLease /\ updatedRecently' = TRUE

\* Mutant: the loop over the window ends one recipient early.
WindowDoneEarly(d) == pc[d] = "publish" /\ pos[d] >= to[d]

WindowDone(d) == pc[d] = "publish" /\ pos[d] > to[d]

CompleteWindow(d) ==
    /\ WindowDone(d)
    /\ AdvanceCursor(d)
    /\ pc' = [pc EXCEPT ![d] = IF to[d] + 1 > Total THEN "ack" ELSE "continue"]
    /\ UNCHANGED <<campaign, stateRow, wakeups, starts, recovery, holders, window, fanned,
                   everExpired, faults>>

\* 409 dispatch_lease_mismatch: the wakeup goes back to the queue.
CompleteMismatch(d) ==
    /\ WindowDone(d)
    /\ ~LeaseMatches(d)
    /\ Requeue(d)
    /\ UNCHANGED <<campaign, state, starts, recovery, fanned, everExpired, faults>>

\* More windows: wake a dispatcher, an error (a dead channel) is only logged.
ContinueDispatch(d) ==
    /\ Move(d, "continue", "ack")
    /\ IF d \in holders THEN Wake ELSE UNCHANGED wakeups
    /\ UNCHANGED <<campaign, state, starts, recovery, holders, window, fanned,
                   everExpired, faults>>

Ack(d) ==
    /\ pc[d] = "ack"
    /\ NextIteration(d)
    /\ UNCHANGED <<campaign, state, wakeups, starts, recovery, fanned, everExpired, faults>>

-----------------------------------------------------------------------------
(* Faults and time *)

\* The process dies, or a call it made returns an error before it took
\* effect: in both cases the wakeup is redelivered and the work abandoned.
DispatcherCrash(d) ==
    /\ pc[d] # "idle"
    /\ Fault
    /\ Requeue(d)
    /\ UNCHANGED <<campaign, state, starts, recovery, fanned, everExpired>>

\* The transaction of complete commits but its response does not arrive.
CompleteReplyLost(d) ==
    /\ WindowDone(d)
    /\ AdvanceCursor(d)
    /\ Fault
    /\ Requeue(d)
    /\ UNCHANGED <<campaign, stateRow, starts, recovery, fanned, everExpired>>

\* A continuation returns nil and is lost: no publisher confirms.
ContinuationLost(d) ==
    /\ Move(d, "continue", "ack")
    /\ Fault
    /\ UNCHANGED <<campaign, state, wakeups, starts, recovery, holders, window,
                   fanned, everExpired>>

\* The connection dies: the broker redelivers the wakeup at once, while the
\* goroutine goes on with what it was doing.
ConnectionLost(d) ==
    /\ d \in holders
    /\ Fault
    /\ holders' = holders \ {d}
    /\ Wake
    /\ UNCHANGED <<campaign, state, starts, recovery, pc, window, fanned, everExpired>>

ExpireLease ==
    /\ leaseUntil = "live"
    /\ leaseUntil' = "expired"
    /\ inTime' = {}
    /\ everExpired' = TRUE
    /\ UNCHANGED <<campaign, stateRow, nextRecipient, leaseStart, leaseEnd, completedAt,
                   updatedRecently, wakeups, starts, recovery, pc, holders, from,
                   to, pos, fanned, faults>>

StateAges ==
    /\ stateRow /\ updatedRecently
    /\ updatedRecently' = FALSE
    /\ UNCHANGED <<campaign, stateRow, nextRecipient, lease, completedAt, wakeups, starts,
                   recovery, workers, fanned, everExpired, faults>>

-----------------------------------------------------------------------------
(* Specification *)

StartStep(h) ==
    \/ TransitionCampaignToRunning(h) \/ UpsertDispatchState(h) \/ PublishDispatch(h)
    \/ PublishDispatchLost(h) \/ StartFails(h) \/ RollbackStart(h) \/ StartCrash(h)

CampaignStep ==
    \/ StopCampaign \/ CancelCampaign \/ ArchiveCampaign
    \/ FinishCampaign \/ RetryFailed \/ AddSelectedChannel

RecoveryStep ==
    RecoverMissingState \/ RecoverDispatchWakeups \/ RecoveryWakeupLost \/ TouchRecovered

\* What a dispatcher does after its claim, up to taking the next wakeup.
WorkStep(d) ==
    \/ ClaimRefused(d) \/ ClaimExhausted(d) \/ ClaimWindow(d)
    \/ PublishRecipient(d) \/ AbandonWindow(d)
    \/ CompleteWindow(d) \/ CompleteMismatch(d) \/ ContinueDispatch(d) \/ Ack(d)

FaultStep(d) ==
    DispatcherCrash(d) \/ CompleteReplyLost(d) \/ ContinuationLost(d) \/ ConnectionLost(d)

DispatcherStep(d) ==
    Receive(d) \/ Throttle(d) \/ ClaimSnapshot(d) \/ WorkStep(d) \/ FaultStep(d)

TimeStep == ExpireLease \/ StateAges

Next ==
    \/ \E h \in Requests : StartStep(h)
    \/ CampaignStep
    \/ RecoveryStep
    \/ EnsureSchema
    \/ \E d \in Dispatchers : DispatcherStep(d)
    \/ TimeStep

Spec == Init /\ [][Next]_vars

\* Goroutines that can run do run, the clock moves, and the recovery timer
\* fires again and again. A consumer may be throttled any number of times but
\* not for ever: the sender drains message.send (strong fairness). Nothing is
\* assumed of users, start handlers, restarts or faults.
Fairness ==
    /\ WF_vars(RecoverMissingState) /\ WF_vars(RecoverDispatchWakeups)
    /\ WF_vars(TouchRecovered)
    /\ WF_vars(ExpireLease) /\ WF_vars(StateAges)
    /\ \A d \in Dispatchers :
         WF_vars(Receive(d)) /\ SF_vars(ClaimSnapshot(d)) /\ WF_vars(WorkStep(d))

FairSpec == Spec /\ Fairness

-----------------------------------------------------------------------------
(* Properties *)

ValuesOK ==
    /\ status \in Statuses
    /\ channels \in 1..MaxChannels
    /\ nextRecipient \in 1..(Total + 1)
    /\ leaseStart \in 0..Total /\ leaseEnd \in 0..Total
    /\ leaseUntil \in {"null", "live", "expired"}
    /\ wakeups \in 0..MaxWakeups
    /\ at \in [Requests -> {"idle", "upsert", "publish", "rollback"}]
    /\ previous \in [Requests -> Startable]
    /\ recovery \in {"scan", "touch"}
    /\ pc \in [Dispatchers -> {"idle", "inspect", "claim", "publish", "continue", "ack"}]
    /\ holders \subseteq Dispatchers /\ inTime \subseteq Dispatchers
    /\ from \in [Dispatchers -> 1..(Total + 1)] /\ to \in [Dispatchers -> 0..Total]
    /\ pos \in [Dispatchers -> 1..(Total + 1)]
    /\ published \subseteq Recipients
    /\ faults \in 0..MaxFaults

FlagsOK ==
    /\ archived \in BOOLEAN /\ stateRow \in BOOLEAN
    /\ completedAt \in BOOLEAN /\ updatedRecently \in BOOLEAN
    /\ duplicated \in BOOLEAN /\ everExpired \in BOOLEAN

\* The type invariant.
TypeOK ==
    /\ ValuesOK
    /\ FlagsOK

\* The cursor is passed only over recipients whose jobs were all published,
\* whichever dispatchers, with whichever stale claims, moved it there.
NoRecipientSkipped == \A r \in Recipients : r < nextRecipient => r \in published

\* A dispatch marked completed has published the jobs of every recipient, or is
\* that of a cancelled campaign that had published none when campaign-service
\* restarted.
CompletedCoversAll ==
    completedAt => published = Recipients \/ (status = "cancelled" /\ published = {})

\* A late or repeated completion never moves the cursor back.
CursorNeverBack == [][nextRecipient' >= nextRecipient]_vars

\* While leases are in time, no two dispatchers publish the same recipient.
UnexpiredClaimsDisjoint ==
    \A d, e \in Dispatchers :
        /\ d # e
        /\ pc[d] = "publish" /\ d \in inTime /\ pc[e] = "publish" /\ e \in inTime
        => to[d] < from[e] \/ to[e] < from[d]

\* No recipient is published twice unless some lease ran out: stop and start,
\* crashes, redelivered wakeups and recovery do not repeat a window by themselves.
DuplicateNeedsExpiry == duplicated => everExpired

\* The whole machinery implements the contract of OrderedFanout, with windows
\* of at most MaxMessages recipients.
Contract == INSTANCE OrderedFanout WITH
    Window <- MaxMessages, cursor <- nextRecipient, done <- completedAt,
    cancelled <- (status = "cancelled")

ImplementsOrderedFanout == Contract!Spec

\* A campaign that stays active is fanned out to the end, whatever wakeups were
\* lost and whichever dispatchers died: wakeups are only a hint.
ActiveIsFannedOut == Active ~> (completedAt \/ ~Active)
=============================================================================
