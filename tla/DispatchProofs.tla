--------------------------- MODULE DispatchProofs ---------------------------
(***************************************************************************)
(* Proofs about Dispatch, for every number of recipients, dispatchers and  *)
(* start handlers and every window size.                                   *)
(***************************************************************************)
EXTENDS Dispatch, TLAPS

\* The end of a window is a recipient at or after the cursor.
LEMMA WindowEndRange ==
    ASSUME ValuesOK, nextRecipient <= Total
    PROVE  WindowEnd \in nextRecipient..Total
  <1> DEFINE q == MaxMessages \div channels
  <1>1. channels \in Nat \ {0} /\ Total \in Nat /\ nextRecipient \in 1..Total
    BY ConstantsAssumption DEF ValuesOK
  <1>2. q \in Nat
    <2>1. MaxMessages \in Nat
      BY ConstantsAssumption
    <2>2. \A a \in Nat, b \in Nat \ {0} : a \div b \in Nat
      OBVIOUS
    <2> QED BY <1>1, <2>1, <2>2
  <1> HIDE DEF q
  <1>3. WindowEnd = LET size == IF q = 0 THEN 1 ELSE q
                        end  == nextRecipient + size - 1
                    IN  IF end > Total THEN Total ELSE end
    BY DEF WindowEnd, q
  <1> QED BY <1>1, <1>2, <1>3

-----------------------------------------------------------------------------
(* Type correctness *)

\* Every step keeps the flags Boolean ...
LEMMA FlagsStep == FlagsOK /\ [Next]_vars => FlagsOK'
  <1> SUFFICES ASSUME FlagsOK, [Next]_vars PROVE FlagsOK'
    OBVIOUS
  <1> USE DEF FlagsOK, campaign, state, fanned
  <1>1. ASSUME NEW h \in Requests, StartStep(h) PROVE FlagsOK'
    BY <1>1 DEF StartStep, TransitionCampaignToRunning, UpsertDispatchState,
      ResetDispatchState, PublishDispatch, PublishDispatchLost, StartFails, RollbackStart,
      StartCrash
  <1>2. CASE CampaignStep
    BY <1>2 DEF CampaignStep, StopCampaign, CancelCampaign, ArchiveCampaign,
      FinishCampaign, RetryFailed, AddSelectedChannel, SetCampaign
  <1>3. CASE RecoveryStep
    BY <1>3 DEF RecoveryStep, RecoverMissingState, RecoverDispatchWakeups,
      RecoveryWakeupLost, TouchRecovered
  <1>4. ASSUME NEW d \in Dispatchers, DispatcherStep(d) PROVE FlagsOK'
    <2>1. CASE Receive(d) \/ Throttle(d) \/ ClaimSnapshot(d) \/ ClaimRefused(d)
      BY <2>1 DEF Receive, Throttle, ClaimSnapshot, ClaimRefused
    <2>2. CASE ClaimExhausted(d) \/ ClaimWindow(d)
      BY <2>2 DEF ClaimExhausted, ClaimWindow
    <2>3. CASE PublishRecipient(d)
      BY <2>3 DEF PublishRecipient
    <2>4. CASE AbandonWindow(d) \/ CompleteMismatch(d) \/ ContinueDispatch(d) \/ Ack(d)
      BY <2>4 DEF AbandonWindow, CompleteMismatch, ContinueDispatch, Ack
    <2>5. CASE CompleteWindow(d) \/ CompleteReplyLost(d)
      BY <2>5 DEF CompleteWindow, CompleteReplyLost, AdvanceCursor
    <2>6. CASE DispatcherCrash(d) \/ ContinuationLost(d) \/ ConnectionLost(d)
      BY <2>6 DEF DispatcherCrash, ContinuationLost, ConnectionLost
    <2> QED BY <1>4, <2>1, <2>2, <2>3, <2>4, <2>5, <2>6
          DEF DispatcherStep, WorkStep, FaultStep
  <1>5. CASE TimeStep
    BY <1>5 DEF TimeStep, ExpireLease, StateAges
  <1>6. CASE UNCHANGED vars
    BY <1>6 DEF vars
  <1>7. CASE EnsureSchema
    BY <1>7 DEF EnsureSchema
  <1> QED BY <1>1, <1>2, <1>3, <1>4, <1>5, <1>6, <1>7 DEF Next

\* ... and the other variables in their ranges.
LEMMA ValuesStep == ValuesOK /\ [Next]_vars => ValuesOK'
  <1> SUFFICES ASSUME ValuesOK, [Next]_vars PROVE ValuesOK'
    OBVIOUS
  <1> USE ConstantsAssumption
      DEF ValuesOK, campaign, state, lease, starts, workers, window, fanned
  <1>1. ASSUME NEW h \in Requests, StartStep(h) PROVE ValuesOK'
    <2>1. CASE TransitionCampaignToRunning(h)
      BY <2>1 DEF TransitionCampaignToRunning, Startable, Statuses
    <2>2. CASE UpsertDispatchState(h)
      BY <2>2 DEF UpsertDispatchState, ResetDispatchState, ClearLease
    <2>3. CASE PublishDispatch(h)
      BY <2>3 DEF PublishDispatch, Return, Wake, Startable
    <2>4. CASE PublishDispatchLost(h)
      BY <2>4 DEF PublishDispatchLost, Return, Fault, Startable
    <2>5. CASE StartFails(h)
      BY <2>5 DEF StartFails, Fault
    <2>6. CASE RollbackStart(h)
      BY <2>6 DEF RollbackStart, Return, Startable, Statuses
    <2>7. CASE StartCrash(h)
      BY <2>7 DEF StartCrash, Return, Fault, Startable
    <2> QED BY <1>1, <2>1, <2>2, <2>3, <2>4, <2>5, <2>6, <2>7 DEF StartStep
  <1>2. CASE CampaignStep
    <2> USE DEF SetCampaign
    <2>1. UNCHANGED <<state, wakeups, starts, recovery, workers, fanned, faults>>
      BY <1>2 DEF CampaignStep, StopCampaign, CancelCampaign, ArchiveCampaign,
        FinishCampaign, RetryFailed, AddSelectedChannel
    <2>2. status' \in Statuses
      BY <1>2 DEF CampaignStep, StopCampaign, CancelCampaign, ArchiveCampaign,
        FinishCampaign, RetryFailed, AddSelectedChannel, Statuses
    <2>3. channels' \in 1..MaxChannels
      BY <1>2 DEF CampaignStep, StopCampaign, CancelCampaign, ArchiveCampaign,
        FinishCampaign, RetryFailed, AddSelectedChannel
    <2> QED BY <2>1, <2>2, <2>3
  <1>3. CASE RecoveryStep
    <2>1. CASE RecoverDispatchWakeups
      BY <2>1 DEF RecoverDispatchWakeups, Wake
    <2>2. CASE TouchRecovered
      BY <2>2 DEF TouchRecovered
    <2>3. CASE RecoveryWakeupLost
      BY <2>3 DEF RecoveryWakeupLost, Fault
    <2>4. CASE RecoverMissingState
      BY <2>4 DEF RecoverMissingState
    <2> QED BY <1>3, <2>1, <2>2, <2>3, <2>4 DEF RecoveryStep
  <1>4. ASSUME NEW d \in Dispatchers, DispatcherStep(d) PROVE ValuesOK'
    <2> USE DEF Move, Wake, Fault, Recipients
    <2>1. CASE Receive(d)
      BY <2>1 DEF Receive
    <2>2. CASE Throttle(d)
      BY <2>2 DEF Throttle
    <2>3. CASE ClaimSnapshot(d)
      BY <2>3 DEF ClaimSnapshot
    <2>4. CASE ClaimRefused(d)
      BY <2>4 DEF ClaimRefused
    <2>5. CASE ClaimExhausted(d)
      BY <2>5 DEF ClaimExhausted, ClearLease
    <2>6. CASE ClaimWindow(d)
      <3>1. WindowEnd \in nextRecipient..Total
        BY <2>6, WindowEndRange DEF ClaimWindow
      <3> QED BY <2>6, <3>1 DEF ClaimWindow
    <2>7. CASE PublishRecipient(d)
      <3>1. pos[d] \in 1..Total
        BY <2>7 DEF PublishRecipient
      <3>2. published' \subseteq Recipients
        BY <2>7, <3>1 DEF PublishRecipient
      <3>3. pos' \in [Dispatchers -> 1..(Total + 1)]
        BY <2>7, <3>1 DEF PublishRecipient
      <3>4. UNCHANGED <<campaign, nextRecipient, lease, wakeups, starts, recovery, pc,
                        holders, from, to, inTime, faults>>
        BY <2>7 DEF PublishRecipient
      <3> QED BY <3>2, <3>3, <3>4
    <2>8. CASE AbandonWindow(d) \/ CompleteMismatch(d)
      <3>1. Requeue(d) /\ UNCHANGED <<campaign, state, starts, recovery, fanned, faults>>
        BY <2>8 DEF AbandonWindow, CompleteMismatch
      <3> QED BY <3>1 DEF Requeue, NextIteration
    <2>9. CASE CompleteWindow(d)
      BY <2>9 DEF CompleteWindow, AdvanceCursor, ClearLease
    <2>10. CASE ContinueDispatch(d)
      BY <2>10 DEF ContinueDispatch
    <2>11. CASE Ack(d)
      BY <2>11 DEF Ack, NextIteration
    <2>12. CASE DispatcherCrash(d)
      BY <2>12 DEF DispatcherCrash, Requeue, NextIteration
    <2>13. CASE CompleteReplyLost(d)
      BY <2>13 DEF CompleteReplyLost, AdvanceCursor, ClearLease, Requeue, NextIteration
    <2>14. CASE ContinuationLost(d)
      BY <2>14 DEF ContinuationLost
    <2>15. CASE ConnectionLost(d)
      BY <2>15 DEF ConnectionLost
    <2> QED BY <1>4, <2>1, <2>2, <2>3, <2>4, <2>5, <2>6, <2>7, <2>8, <2>9, <2>10, <2>11,
            <2>12, <2>13, <2>14, <2>15 DEF DispatcherStep, WorkStep, FaultStep
  <1>5. CASE TimeStep
    BY <1>5 DEF TimeStep, ExpireLease, StateAges
  <1>6. CASE UNCHANGED vars
    BY <1>6 DEF vars
  <1>7. CASE EnsureSchema
    BY <1>7 DEF EnsureSchema
  <1> QED BY <1>1, <1>2, <1>3, <1>4, <1>5, <1>6, <1>7 DEF Next

\* Every reachable state of the fan-out has the declared types.
THEOREM TypeCorrect == Spec => []TypeOK
  <1>1. Init => TypeOK
    <2>1. Init => ValuesOK
      BY ConstantsAssumption DEF Init, ValuesOK, Statuses, Startable, Recipients
    <2>2. Init => FlagsOK
      BY DEF Init, FlagsOK
    <2> QED BY <2>1, <2>2 DEF TypeOK
  <1>2. TypeOK /\ [Next]_vars => TypeOK'
    BY FlagsStep, ValuesStep DEF TypeOK
  <1> QED BY <1>1, <1>2, PTL DEF Spec
-----------------------------------------------------------------------------
(* The inductive invariant of the fan-out. The cursor property alone is not *)
(* inductive: that a completion may move the cursor rests on what the       *)
(* dispatcher has published of its window and on the lease being the one at *)
(* the cursor, even if the dispatcher's own claim has long expired.         *)

LeaseAtCursor ==
    leaseUntil # "null" => leaseStart = nextRecipient /\ leaseStart <= leaseEnd

Publishing(d) == pc[d] = "publish"

WindowPublished ==
    \A d \in Dispatchers : Publishing(d) =>
        /\ from[d] <= to[d] /\ from[d] <= pos[d]
        /\ \A r \in from[d]..(pos[d] - 1) : r \in published

\* A claim in time is the current lease, or its window is behind the cursor.
InTimeClaims ==
    \A d \in Dispatchers : Publishing(d) /\ d \in inTime =>
        \/ leaseUntil = "live" /\ from[d] = leaseStart /\ to[d] = leaseEnd
        \/ to[d] < nextRecipient

CursorInv == NoRecipientSkipped /\ LeaseAtCursor /\ WindowPublished

ClaimInv == UnexpiredClaimsDisjoint /\ InTimeClaims

\* No dispatcher works on a window, or is about to claim one.
NoClaims == \A d \in Dispatchers : pc[d] # "claim" /\ pc[d] # "publish"

\* A missing row: nobody has claimed anything yet.
MissingRow == ~stateRow => published = {} /\ ~completedAt /\ leaseUntil = "null" /\ NoClaims

FinishedIsFanned == status = "finished" => published # {}

\* A campaign cancelled before its first recipient: no dispatcher will claim it.
CancelledUnfanned == status = "cancelled" /\ published = {} /\ NoClaims

CompletedAtEnd == completedAt => nextRecipient > Total \/ CancelledUnfanned

EndInv == MissingRow /\ FinishedIsFanned /\ CompletedAtEnd

IInv == TypeOK /\ CursorInv /\ ClaimInv /\ EndInv

\* Steps that touch neither the cursor, the lease nor the window of any
\* dispatcher at work: dispatchers may leave the window they publish.
Quiet ==
    /\ UNCHANGED <<nextRecipient, lease, completedAt, published, duplicated, everExpired>>
    /\ \A d \in Dispatchers : Publishing(d)' =>
         /\ Publishing(d)
         /\ from'[d] = from[d] /\ to'[d] = to[d] /\ pos'[d] = pos[d]
         /\ d \in inTime' => d \in inTime

\* A dispatcher that ends its iteration no longer publishes, the others go on.
LEMMA NextIterationWindows ==
    ASSUME ValuesOK, NEW d \in Dispatchers, NextIteration(d), NEW e \in Dispatchers,
           Publishing(e)'
    PROVE  /\ e # d /\ Publishing(e)
           /\ from'[e] = from[e] /\ to'[e] = to[e] /\ pos'[e] = pos[e]
           /\ e \in inTime' => e \in inTime
  BY DEF ValuesOK, NextIteration, Publishing

\* Every step is quiet but these: they are the ones the cursor and the claims
\* depend on.
LEMMA StepIsQuiet ==
    ASSUME ValuesOK, [Next]_vars
    PROVE  \/ Quiet
           \/ ExpireLease
           \/ EnsureSchema
           \/ \E h \in Requests : UpsertDispatchState(h)
           \/ \E d \in Dispatchers :
                \/ ClaimExhausted(d) \/ ClaimWindow(d) \/ PublishRecipient(d)
                \/ CompleteWindow(d) \/ CompleteReplyLost(d)
  <1> USE DEF campaign, state, lease, starts, workers, window, fanned
  <1>1. ASSUME UNCHANGED <<nextRecipient, lease, completedAt, published, duplicated,
                           everExpired, pc, from, to, pos, inTime>>
        PROVE  Quiet
    BY <1>1 DEF Quiet, Publishing
  <1>2. ASSUME NEW h \in Requests, StartStep(h)
        PROVE  Quiet \/ UpsertDispatchState(h)
    BY <1>2, <1>1 DEF StartStep, TransitionCampaignToRunning, PublishDispatch,
      PublishDispatchLost, StartFails, RollbackStart, StartCrash
  <1>3. ASSUME CampaignStep PROVE Quiet
    BY <1>3, <1>1 DEF CampaignStep, StopCampaign, CancelCampaign, ArchiveCampaign,
      FinishCampaign, RetryFailed, AddSelectedChannel, SetCampaign
  <1>4. ASSUME RecoveryStep PROVE Quiet
    BY <1>4, <1>1 DEF RecoveryStep, RecoverMissingState, RecoverDispatchWakeups,
      RecoveryWakeupLost, TouchRecovered
  <1>5. ASSUME NEW d \in Dispatchers, DispatcherStep(d)
        PROVE  \/ Quiet
               \/ ClaimExhausted(d) \/ ClaimWindow(d) \/ PublishRecipient(d)
               \/ CompleteWindow(d) \/ CompleteReplyLost(d)
    <2>1. ASSUME Receive(d) \/ Throttle(d) \/ ClaimSnapshot(d) \/ ClaimRefused(d)
                 \/ ContinueDispatch(d) \/ ContinuationLost(d)
          PROVE  Quiet
      <3>1. UNCHANGED <<nextRecipient, lease, completedAt, published, duplicated, everExpired,
                        from, to, pos, inTime>>
        BY <2>1 DEF Receive, Throttle, ClaimSnapshot, ClaimRefused, ContinueDispatch,
          ContinuationLost
      <3>2. \E there \in {"inspect", "claim", "ack"} : pc' = [pc EXCEPT ![d] = there]
        BY <2>1 DEF Receive, Throttle, ClaimSnapshot, ClaimRefused, ContinueDispatch,
          ContinuationLost, Move
      <3> QED BY <3>1, <3>2 DEF ValuesOK, Quiet, Publishing
    <2>2. ASSUME AbandonWindow(d) \/ CompleteMismatch(d) \/ Ack(d) \/ DispatcherCrash(d)
          PROVE  Quiet
      <3>1. NextIteration(d)
        BY <2>2 DEF AbandonWindow, CompleteMismatch, Ack, DispatcherCrash, Requeue
      <3>2. UNCHANGED <<nextRecipient, lease, completedAt, published, duplicated, everExpired>>
        BY <2>2 DEF AbandonWindow, CompleteMismatch, Ack, DispatcherCrash
      <3> QED BY <3>1, <3>2, NextIterationWindows DEF Quiet
    <2>3. ASSUME ConnectionLost(d) PROVE Quiet
      BY <2>3, <1>1 DEF ConnectionLost
    <2> QED BY <1>5, <2>1, <2>2, <2>3 DEF DispatcherStep, WorkStep, FaultStep
  <1>6. ASSUME TimeStep PROVE Quiet \/ ExpireLease
    BY <1>6, <1>1 DEF TimeStep, StateAges
  <1>7. ASSUME UNCHANGED vars PROVE Quiet
    BY <1>7, <1>1 DEF vars
  <1> QED BY <1>2, <1>3, <1>4, <1>5, <1>6, <1>7 DEF Next

\* The cursor and the lease, after the update both outcomes of complete share.
LEMMA AdvanceCursorEffect ==
    ASSUME ValuesOK, CursorInv, NEW d \in Dispatchers, WindowDone(d), AdvanceCursor(d)
    PROVE  /\ nextRecipient' = to[d] + 1 /\ nextRecipient' > nextRecipient
           /\ leaseUntil' = "null"
           /\ completedAt' => nextRecipient' > Total
           /\ from[d] = nextRecipient
           /\ \A r \in Recipients : r < nextRecipient' => r \in published
  <1>1. Publishing(d) /\ pos[d] > to[d] /\ LeaseMatches(d)
    BY DEF WindowDone, AdvanceCursor, Publishing
  <1>2. nextRecipient' = to[d] + 1 /\ leaseUntil' = "null"
    BY DEF AdvanceCursor, ClearLease
  <1>3. completedAt' => to[d] + 1 > Total
    BY DEF AdvanceCursor
  <1>4. from[d] = nextRecipient /\ from[d] <= to[d]
    BY <1>1 DEF LeaseMatches, CursorInv, LeaseAtCursor, WindowPublished
  <1>5. \A r \in from[d]..(pos[d] - 1) : r \in published
    BY <1>1 DEF CursorInv, WindowPublished
  <1>6. from[d] \in Nat /\ to[d] \in Nat /\ pos[d] \in Nat /\ nextRecipient \in Nat
    BY ConstantsAssumption DEF ValuesOK
  <1>7. \A r \in Recipients : r < to[d] + 1 => r \in published
    <2> SUFFICES ASSUME NEW r \in Recipients, r < to[d] + 1 PROVE r \in published
      OBVIOUS
    <2>1. r \in Nat
      BY ConstantsAssumption DEF Recipients
    <2>2. CASE r < nextRecipient
      BY <2>2 DEF CursorInv, NoRecipientSkipped
    <2>3. CASE r >= nextRecipient
      BY <2>1, <2>3, <1>1, <1>4, <1>5, <1>6
    <2> QED BY <2>1, <2>2, <2>3, <1>6
  <1> QED BY <1>2, <1>3, <1>4, <1>6, <1>7

-----------------------------------------------------------------------------
(* The invariant is inductive *)

\* Every step keeps the cursor behind published recipients and the lease at it.
LEMMA CursorStep == ValuesOK /\ CursorInv /\ [Next]_vars => CursorInv'
  <1> SUFFICES ASSUME ValuesOK, CursorInv, [Next]_vars PROVE CursorInv'
    OBVIOUS
  <1> USE ConstantsAssumption
  <1>0. /\ nextRecipient \in Nat /\ leaseStart \in Nat /\ leaseEnd \in Nat
        /\ \A e \in Dispatchers : from[e] \in Nat /\ to[e] \in Nat /\ pos[e] \in Nat
    BY DEF ValuesOK
  <1>1. CASE Quiet
    BY <1>1 DEF Quiet, CursorInv, NoRecipientSkipped, LeaseAtCursor,
      WindowPublished, lease
  <1>2. CASE ExpireLease
    <2>1. UNCHANGED <<nextRecipient, leaseStart, leaseEnd, completedAt, pc, from, to, pos, published>>
          /\ leaseUntil # "null"
      BY <1>2 DEF ExpireLease, fanned
    <2> QED BY <2>1 DEF CursorInv, NoRecipientSkipped, LeaseAtCursor,
          WindowPublished, Publishing
  <1>3. ASSUME NEW h \in Requests, UpsertDispatchState(h) PROVE CursorInv'
    <2>1. UNCHANGED <<nextRecipient, pc, from, to, pos, published>>
      BY <1>3 DEF UpsertDispatchState, workers, window, fanned
    <2>2. \/ completedAt' = FALSE /\ leaseUntil' = "null"
          \/ UNCHANGED <<completedAt, lease>>
      BY <1>3 DEF UpsertDispatchState, ResetDispatchState, ClearLease
    <2> QED BY <2>1, <2>2 DEF CursorInv, NoRecipientSkipped, LeaseAtCursor,
          WindowPublished, Publishing, lease
  <1>4. ASSUME NEW d \in Dispatchers, ClaimExhausted(d) PROVE CursorInv'
    <2>1. UNCHANGED <<nextRecipient, from, to, pos, published>> /\ leaseUntil' = "null"
          /\ nextRecipient > Total
      BY <1>4 DEF ClaimExhausted, ClearLease, window, fanned
    <2>2. \A e \in Dispatchers : Publishing(e)' => Publishing(e)
      BY <1>4 DEF ClaimExhausted, Move, Publishing, ValuesOK
    <2> QED BY <2>1, <2>2 DEF CursorInv, NoRecipientSkipped, LeaseAtCursor,
          WindowPublished
  <1>5. ASSUME NEW d \in Dispatchers, ClaimWindow(d) PROVE CursorInv'
    <2>1. WindowEnd \in nextRecipient..Total
      BY <1>5, WindowEndRange DEF ClaimWindow
    <2>2. /\ UNCHANGED <<nextRecipient, published>> /\ completedAt' = FALSE
          /\ leaseStart' = nextRecipient /\ leaseEnd' = WindowEnd
      BY <1>5 DEF ClaimWindow, fanned
    <2>3. from'[d] = nextRecipient /\ to'[d] = WindowEnd /\ pos'[d] = nextRecipient
      BY <1>5 DEF ClaimWindow, ValuesOK
    <2>4. \A e \in Dispatchers \ {d} :
            /\ Publishing(e)' => Publishing(e)
            /\ from'[e] = from[e] /\ to'[e] = to[e] /\ pos'[e] = pos[e]
      BY <1>5 DEF ClaimWindow, Move, Publishing, ValuesOK
    <2>5. NoRecipientSkipped' /\ LeaseAtCursor'
      BY <2>1, <2>2, <1>0 DEF CursorInv, NoRecipientSkipped, LeaseAtCursor
    <2>6. WindowPublished'
      <3> SUFFICES ASSUME NEW e \in Dispatchers, Publishing(e)'
                   PROVE  /\ from'[e] <= to'[e] /\ from'[e] <= pos'[e]
                          /\ \A r \in from'[e]..(pos'[e] - 1) : r \in published
        BY <2>2 DEF WindowPublished
      <3>1. CASE e = d
        BY <3>1, <2>1, <2>3, <1>0
      <3>2. CASE e # d
        BY <3>2, <2>4 DEF CursorInv, WindowPublished
      <3> QED BY <3>1, <3>2
    <2> QED BY <2>5, <2>6 DEF CursorInv
  <1>6. ASSUME NEW d \in Dispatchers, PublishRecipient(d) PROVE CursorInv'
    <2>1. UNCHANGED <<nextRecipient, lease, completedAt, pc, from, to>>
      BY <1>6 DEF PublishRecipient, state
    <2>2. published' = published \union {pos[d]} /\ Publishing(d)
      BY <1>6 DEF PublishRecipient, Publishing
    <2>3. pos'[d] = pos[d] + 1 /\ \A e \in Dispatchers \ {d} : pos'[e] = pos[e]
      BY <1>6 DEF PublishRecipient, ValuesOK
    <2>4. NoRecipientSkipped' /\ LeaseAtCursor'
      BY <2>1, <2>2 DEF CursorInv, NoRecipientSkipped, LeaseAtCursor, lease
    <2>5. WindowPublished'
      <3> SUFFICES ASSUME NEW e \in Dispatchers, Publishing(e)
                   PROVE  /\ from[e] <= to[e] /\ from[e] <= pos'[e]
                          /\ \A r \in from[e]..(pos'[e] - 1) : r \in published'
        BY <2>1 DEF WindowPublished, Publishing
      <3>1. from[e] <= to[e] /\ from[e] <= pos[e]
            /\ \A r \in from[e]..(pos[e] - 1) : r \in published
        BY DEF CursorInv, WindowPublished
      <3>2. CASE e = d
        BY <3>1, <3>2, <2>2, <2>3, <1>0
      <3>3. CASE e # d
        BY <3>1, <3>3, <2>2, <2>3
      <3> QED BY <3>2, <3>3
    <2> QED BY <2>4, <2>5 DEF CursorInv
  <1>7. ASSUME NEW d \in Dispatchers, CompleteWindow(d) \/ CompleteReplyLost(d)
        PROVE  CursorInv'
    <2>1. WindowDone(d) /\ AdvanceCursor(d) /\ published' = published
      BY <1>7 DEF CompleteWindow, CompleteReplyLost, fanned
    <2>2. \A e \in Dispatchers : Publishing(e)' =>
            Publishing(e) /\ from'[e] = from[e] /\ to'[e] = to[e] /\ pos'[e] = pos[e]
      <3>1. CASE CompleteWindow(d)
        BY <3>1 DEF CompleteWindow, window, Publishing, ValuesOK
      <3>2. CASE CompleteReplyLost(d)
        BY <3>2, NextIterationWindows DEF CompleteReplyLost, Requeue
      <3> QED BY <1>7, <3>1, <3>2
    <2>3. WindowPublished'
      BY <2>1, <2>2 DEF CursorInv, WindowPublished
    <2> QED BY <2>1, <2>3, AdvanceCursorEffect DEF CursorInv, NoRecipientSkipped,
          LeaseAtCursor
  <1>8. CASE EnsureSchema
    <2>1. UNCHANGED <<nextRecipient, lease, pc, from, to, pos, published>>
      BY <1>8 DEF EnsureSchema, workers, window, fanned
    <2> QED BY <2>1 DEF CursorInv, NoRecipientSkipped, LeaseAtCursor, WindowPublished,
          Publishing, lease
  <1> QED BY <1>1, <1>2, <1>3, <1>4, <1>5, <1>6, <1>7, <1>8, StepIsQuiet

\* The cursor never moves back in a step from a state of the invariant.
LEMMA CursorForward ==
  ValuesOK /\ CursorInv /\ [Next]_vars => nextRecipient' >= nextRecipient
  <1> SUFFICES ASSUME ValuesOK, CursorInv, [Next]_vars
               PROVE  nextRecipient' >= nextRecipient
    OBVIOUS
  <1>1. nextRecipient \in Nat
    BY ConstantsAssumption DEF ValuesOK
  <1>2. ASSUME NEW d \in Dispatchers, CompleteWindow(d) \/ CompleteReplyLost(d)
        PROVE  nextRecipient' >= nextRecipient
    <2>1. WindowDone(d) /\ AdvanceCursor(d)
      BY <1>2 DEF CompleteWindow, CompleteReplyLost
    <2>2. nextRecipient' > nextRecipient /\ nextRecipient' \in Nat
      BY <2>1, AdvanceCursorEffect, ValuesStep, ConstantsAssumption DEF ValuesOK
    <2> QED BY <2>2, <1>1
  <1>3. \/ nextRecipient' = nextRecipient
        \/ \E d \in Dispatchers : CompleteWindow(d) \/ CompleteReplyLost(d)
    BY StepIsQuiet DEF Quiet, ExpireLease, EnsureSchema, UpsertDispatchState,
      ClaimExhausted, ClaimWindow, PublishRecipient, state
  <1> QED BY <1>1, <1>2, <1>3

\* A step that changes the status changes nothing of the fan-out, and only a
\* campaign of which something was published stops being cancelled.
LEMMA StatusMoves ==
    ASSUME ValuesOK, [Next]_vars
    PROVE  \/ UNCHANGED status
           \/ /\ UNCHANGED <<nextRecipient, published, completedAt>>
              /\ status = "cancelled" => published # {}
  <1> USE DEF campaign, state, workers, window, fanned
  <1>1. ASSUME NEW h \in Requests, StartStep(h)
        PROVE  \/ UNCHANGED status
               \/ /\ UNCHANGED <<nextRecipient, published, completedAt>>
                  /\ status # "cancelled"
    BY <1>1 DEF StartStep, TransitionCampaignToRunning, UpsertDispatchState, PublishDispatch,
      PublishDispatchLost, StartFails, RollbackStart, StartCrash, Startable
  <1>2. ASSUME CampaignStep
        PROVE  /\ UNCHANGED <<nextRecipient, published, completedAt>>
               /\ status = "cancelled" => published # {} \/ UNCHANGED status
    BY <1>2 DEF CampaignStep, StopCampaign, CancelCampaign, ArchiveCampaign, FinishCampaign,
      RetryFailed, AddSelectedChannel, SetCampaign, ActiveStatuses
  <1>3. ASSUME RecoveryStep \/ EnsureSchema \/ TimeStep \/ UNCHANGED vars
        PROVE  UNCHANGED status
    BY <1>3 DEF RecoveryStep, RecoverMissingState, RecoverDispatchWakeups,
      RecoveryWakeupLost, TouchRecovered, EnsureSchema, TimeStep, ExpireLease, StateAges, vars
  <1>4. ASSUME NEW d \in Dispatchers, DispatcherStep(d) PROVE UNCHANGED status
    BY <1>4 DEF DispatcherStep, Receive, Throttle, ClaimSnapshot, WorkStep, ClaimRefused,
      ClaimExhausted, ClaimWindow, PublishRecipient, AbandonWindow, CompleteWindow,
      CompleteMismatch, ContinueDispatch, Ack, FaultStep, DispatcherCrash,
      CompleteReplyLost, ContinuationLost, ConnectionLost
  <1> QED BY <1>1, <1>2, <1>3, <1>4 DEF Next

\* What a step does to the row and to those who claim: a row stays, only a claim
\* of an active campaign is begun, and only one who is at it takes a lease, a
\* window or publishes.
LEMMA ClaimsBegin ==
    ASSUME ValuesOK, [Next]_vars
    PROVE  /\ stateRow => stateRow'
           /\ ~NoClaims' => ~NoClaims \/ (Active /\ stateRow')
           /\ NoClaims => published' = published /\ (leaseUntil = "null" => leaseUntil' = "null")
  <1> USE DEF campaign, state, lease, workers, window, fanned
  <1> DEFINE Begun == /\ stateRow => stateRow'
                      /\ ~NoClaims' => ~NoClaims \/ (Active /\ stateRow')
                      /\ NoClaims => published' = published
                                     /\ (leaseUntil = "null" => leaseUntil' = "null")
  <1>0. ASSUME UNCHANGED <<pc, published>>, stateRow' = stateRow \/ stateRow' = TRUE,
               leaseUntil = "null" => leaseUntil' = "null"
        PROVE  Begun
    BY <1>0 DEF NoClaims
  <1>1. ASSUME NEW h \in Requests, StartStep(h) PROVE Begun
    <2>1. CASE UpsertDispatchState(h)
      BY <1>0, <2>1 DEF UpsertDispatchState, ResetDispatchState, ClearLease
    <2>2. CASE ~UpsertDispatchState(h)
      BY <1>0, <1>1, <2>2 DEF StartStep, TransitionCampaignToRunning, PublishDispatch,
        PublishDispatchLost, StartFails, RollbackStart, StartCrash
    <2> QED BY <2>1, <2>2
  <1>2. ASSUME CampaignStep \/ UNCHANGED vars PROVE Begun
    BY <1>0, <1>2 DEF CampaignStep, StopCampaign, CancelCampaign, ArchiveCampaign,
      FinishCampaign, RetryFailed, AddSelectedChannel, SetCampaign, vars
  <1>3. ASSUME RecoveryStep \/ EnsureSchema PROVE Begun
    BY <1>0, <1>3 DEF RecoveryStep, RecoverMissingState, RecoverDispatchWakeups,
      RecoveryWakeupLost, TouchRecovered, EnsureSchema
  <1>4. ASSUME TimeStep PROVE Begun
    BY <1>0, <1>4 DEF TimeStep, ExpireLease, StateAges
  <1>5. ASSUME NEW d \in Dispatchers, DispatcherStep(d) PROVE Begun
    <2>1. CASE ClaimSnapshot(d)
      <3>1. stateRow' = TRUE /\ UNCHANGED <<published, leaseUntil>>
        BY <2>1 DEF ClaimSnapshot
      <3>2. ~NoClaims' => ~NoClaims \/ Active
        BY <2>1 DEF ClaimSnapshot, NoClaims, ValuesOK
      <3> QED BY <3>1, <3>2
    <2>2. CASE ClaimRefused(d) \/ ClaimExhausted(d) \/ ClaimWindow(d)
               \/ PublishRecipient(d) \/ AbandonWindow(d) \/ CompleteWindow(d)
               \/ CompleteMismatch(d) \/ CompleteReplyLost(d)
      <3>1. pc[d] = "claim" \/ pc[d] = "publish"
        BY <2>2 DEF ClaimRefused, ClaimExhausted, ClaimWindow, PublishRecipient,
          AbandonWindow, CompleteWindow, CompleteMismatch, CompleteReplyLost, WindowDone, Move
      <3>2. stateRow' = stateRow
        BY <2>2 DEF ClaimRefused, ClaimExhausted, ClaimWindow, PublishRecipient,
          AbandonWindow, CompleteWindow, CompleteMismatch, CompleteReplyLost
      <3> QED BY <3>1, <3>2 DEF NoClaims
    <2>3. CASE Receive(d) \/ Throttle(d) \/ ContinueDispatch(d) \/ Ack(d)
               \/ DispatcherCrash(d) \/ ContinuationLost(d) \/ ConnectionLost(d)
      <3>1. UNCHANGED <<stateRow, published, leaseUntil>>
        BY <2>3 DEF Receive, Throttle, ContinueDispatch, Ack, DispatcherCrash,
          ContinuationLost, ConnectionLost
      <3>2. pc' = pc \/ \E there \in {"inspect", "ack", "idle"} : pc' = [pc EXCEPT ![d] = there]
        BY <2>3 DEF Receive, Throttle, ContinueDispatch, Ack, DispatcherCrash,
          ContinuationLost, ConnectionLost, Move, Requeue, NextIteration
      <3>3. NoClaims => NoClaims'
        BY <3>2 DEF NoClaims, ValuesOK
      <3> QED BY <3>1, <3>3
    <2> QED BY <1>5, <2>1, <2>2, <2>3 DEF DispatcherStep, WorkStep, FaultStep
  <1> QED BY <1>1, <1>2, <1>3, <1>4, <1>5 DEF Next

\* A campaign cancelled before its first recipient stays so.
LEMMA UnfannedKept ==
    ASSUME ValuesOK, [Next]_vars, CancelledUnfanned
    PROVE  CancelledUnfanned'
  <1>1. UNCHANGED status
    BY StatusMoves DEF CancelledUnfanned
  <1>2. NoClaims' /\ published' = published
    BY ClaimsBegin DEF CancelledUnfanned, Active, ActiveStatuses
  <1> QED BY <1>1, <1>2 DEF CancelledUnfanned

\* Every step completes a dispatch only at its end, or that of a campaign which
\* was cancelled before its first recipient.
LEMMA EndStep == TypeOK /\ CursorInv /\ EndInv /\ [Next]_vars => EndInv'
  <1> SUFFICES ASSUME TypeOK, ValuesOK, CursorInv, EndInv, [Next]_vars PROVE EndInv'
    BY DEF TypeOK
  <1>1. FinishedIsFanned'
    <2>1. published # {} => published' # {}
      BY StepIsQuiet DEF Quiet, ExpireLease, EnsureSchema, UpsertDispatchState, ClaimExhausted,
        ClaimWindow, PublishRecipient, CompleteWindow, CompleteReplyLost, fanned
    <2>2. status' = "finished" => status = "finished" \/ published # {}
      <3>1. ASSUME status' # status PROVE status' # "finished" \/ published # {}
        <4>1. ASSUME NEW h \in Requests, StartStep(h) PROVE status' # "finished"
          BY <4>1, <3>1 DEF StartStep, TransitionCampaignToRunning, UpsertDispatchState,
            PublishDispatch, PublishDispatchLost, StartFails, RollbackStart, StartCrash,
            Startable, ValuesOK, campaign
        <4>2. ASSUME CampaignStep PROVE status' # "finished" \/ published # {}
          BY <4>2, <3>1 DEF CampaignStep, StopCampaign, CancelCampaign, ArchiveCampaign,
            FinishCampaign, RetryFailed, AddSelectedChannel, SetCampaign
        <4>3. ASSUME RecoveryStep \/ EnsureSchema \/ TimeStep \/ UNCHANGED vars PROVE FALSE
          BY <4>3, <3>1 DEF RecoveryStep, RecoverMissingState, RecoverDispatchWakeups,
            RecoveryWakeupLost, TouchRecovered, EnsureSchema, TimeStep, ExpireLease,
            StateAges, campaign, vars
        <4>4. ASSUME NEW d \in Dispatchers, DispatcherStep(d) PROVE FALSE
          BY <4>4, <3>1 DEF DispatcherStep, Receive, Throttle, ClaimSnapshot, WorkStep,
            ClaimRefused, ClaimExhausted, ClaimWindow, PublishRecipient, AbandonWindow,
            CompleteWindow, CompleteMismatch, ContinueDispatch, Ack, FaultStep,
            DispatcherCrash, CompleteReplyLost, ContinuationLost, ConnectionLost, campaign
        <4> QED BY <3>1, <4>1, <4>2, <4>3, <4>4 DEF Next
      <3> QED BY <3>1
    <2> QED BY <2>1, <2>2 DEF EndInv, FinishedIsFanned
  <1>2. ASSUME completedAt', ~completedAt
        PROVE  stateRow' = TRUE /\ (nextRecipient' > Total \/ CancelledUnfanned')
    <2>1. ASSUME NEW d \in Dispatchers, ClaimExhausted(d)
          PROVE  stateRow' = stateRow /\ nextRecipient' > Total /\ ~NoClaims
      BY <2>1 DEF ClaimExhausted, Move, NoClaims
    <2>2. ASSUME NEW d \in Dispatchers, CompleteWindow(d) \/ CompleteReplyLost(d)
          PROVE  stateRow' = stateRow /\ nextRecipient' > Total /\ ~NoClaims
      <3>1. WindowDone(d) /\ AdvanceCursor(d) /\ stateRow' = stateRow
        BY <2>2 DEF CompleteWindow, CompleteReplyLost
      <3> QED BY <3>1, <1>2, AdvanceCursorEffect DEF WindowDone, NoClaims
    <2>3. ASSUME EnsureSchema PROVE stateRow' = TRUE /\ CancelledUnfanned'
      <3>1. /\ stateRow' = TRUE /\ ~stateRow /\ status \in {"finished", "cancelled"}
            /\ UNCHANGED <<status, published, pc>>
        BY <2>3, <1>2 DEF EnsureSchema, campaign, workers, fanned
      <3>2. published = {} /\ NoClaims
        BY <3>1 DEF EndInv, MissingRow
      <3> QED BY <3>1, <3>2 DEF EndInv, FinishedIsFanned, CancelledUnfanned, NoClaims
    <2>4. \/ EnsureSchema
          \/ \E d \in Dispatchers :
               ClaimExhausted(d) \/ CompleteWindow(d) \/ CompleteReplyLost(d)
      BY <1>2, StepIsQuiet DEF Quiet, ExpireLease, UpsertDispatchState, ResetDispatchState,
        ClaimWindow, PublishRecipient, state
    <2>5. ~NoClaims => stateRow
      BY DEF EndInv, MissingRow
    <2> QED BY <2>1, <2>2, <2>3, <2>4, <2>5 DEF TypeOK, FlagsOK
  <1>3. CompletedAtEnd'
    <2> SUFFICES ASSUME completedAt' PROVE nextRecipient' > Total \/ CancelledUnfanned'
      BY DEF CompletedAtEnd
    <2>1. CASE ~completedAt
      BY <2>1, <1>2
    <2>2. CASE completedAt /\ nextRecipient > Total
      BY <2>2, CursorForward, ValuesStep, ConstantsAssumption DEF ValuesOK
    <2>3. CASE completedAt /\ CancelledUnfanned
      BY <2>3, UnfannedKept
    <2> QED BY <2>1, <2>2, <2>3 DEF EndInv, CompletedAtEnd
  <1>4. MissingRow'
    <2> SUFFICES ASSUME ~stateRow'
                 PROVE  published' = {} /\ ~completedAt' /\ leaseUntil' = "null" /\ NoClaims'
      BY DEF MissingRow
    <2>1. ~stateRow
      BY ClaimsBegin
    <2>2. published = {} /\ ~completedAt /\ leaseUntil = "null" /\ NoClaims
      BY <2>1 DEF EndInv, MissingRow
    <2>3. ~completedAt'
      BY <1>2, <2>2
    <2> QED BY <2>2, <2>3, ClaimsBegin
  <1> QED BY <1>1, <1>3, <1>4 DEF EndInv

\* A step that adds no claim and keeps the windows of those that go on keeps
\* claims in time disjoint.
LEMMA DisjointKept ==
    ASSUME UnexpiredClaimsDisjoint,
           \A e \in Dispatchers : Publishing(e)' /\ e \in inTime' =>
             Publishing(e) /\ e \in inTime /\ from'[e] = from[e] /\ to'[e] = to[e]
    PROVE  UnexpiredClaimsDisjoint'
  BY DEF UnexpiredClaimsDisjoint, Publishing

\* Every step keeps the claims in time disjoint.
LEMMA ClaimStep ==
    ValuesOK /\ CursorInv /\ ClaimInv /\ EndInv /\ [Next]_vars => ClaimInv'
  <1> SUFFICES ASSUME ValuesOK, CursorInv, ClaimInv, EndInv, [Next]_vars PROVE ClaimInv'
    OBVIOUS
  <1> USE ConstantsAssumption
  <1> DEFINE Kept == \A e \in Dispatchers : Publishing(e)' /\ e \in inTime' =>
                       Publishing(e) /\ e \in inTime /\ from'[e] = from[e] /\ to'[e] = to[e]
  <1>0. /\ nextRecipient \in Nat /\ leaseStart \in Nat /\ leaseEnd \in Nat
        /\ \A e \in Dispatchers : from[e] \in Nat /\ to[e] \in 0..Total
    BY DEF ValuesOK
  <1>1. CASE Quiet
    <2>1. Kept /\ UNCHANGED <<nextRecipient, lease>>
      BY <1>1 DEF Quiet
    <2> QED BY <2>1, DisjointKept DEF ClaimInv, InTimeClaims, lease
  <1>2. CASE ExpireLease
    BY <1>2 DEF ExpireLease, ClaimInv, InTimeClaims, UnexpiredClaimsDisjoint
  <1>3. ASSUME NEW h \in Requests, UpsertDispatchState(h) PROVE ClaimInv'
    <2>1. Kept /\ nextRecipient' = nextRecipient
      BY <1>3 DEF UpsertDispatchState, workers, window, Publishing
    <2>2. UNCHANGED lease \/ nextRecipient > Total \/ \A e \in Dispatchers : ~Publishing(e)
      BY <1>3 DEF UpsertDispatchState, ResetDispatchState, EndInv, CompletedAtEnd,
        CancelledUnfanned, NoClaims, Publishing
    <2>3. InTimeClaims'
      BY <2>1, <2>2, <1>0 DEF ClaimInv, InTimeClaims, lease
    <2> QED BY <2>1, <2>3, DisjointKept DEF ClaimInv
  <1>4. ASSUME NEW d \in Dispatchers, ClaimExhausted(d) PROVE ClaimInv'
    <2>1. nextRecipient' = nextRecipient /\ nextRecipient > Total
      BY <1>4 DEF ClaimExhausted
    <2>2. Kept
      BY <1>4 DEF ClaimExhausted, Move, window, Publishing, ValuesOK
    <2>3. InTimeClaims'
      BY <2>1, <2>2, <1>0 DEF InTimeClaims
    <2> QED BY <2>2, <2>3, DisjointKept DEF ClaimInv
  <1>5. ASSUME NEW d \in Dispatchers, ClaimWindow(d) PROVE ClaimInv'
    <2>1. WindowEnd \in nextRecipient..Total
      BY <1>5, WindowEndRange DEF ClaimWindow
    <2>2. /\ nextRecipient' = nextRecipient /\ leaseUntil # "live"
          /\ leaseStart' = nextRecipient /\ leaseEnd' = WindowEnd /\ leaseUntil' = "live"
      BY <1>5 DEF ClaimWindow, MayClaim
    <2>3. from'[d] = nextRecipient /\ to'[d] = WindowEnd
      BY <1>5 DEF ClaimWindow, ValuesOK
    <2>4. \A e \in Dispatchers \ {d} : Publishing(e)' /\ e \in inTime' =>
            Publishing(e) /\ e \in inTime /\ from'[e] = from[e] /\ to'[e] = to[e]
      BY <1>5 DEF ClaimWindow, Move, Publishing, ValuesOK
    <2>5. \A e \in Dispatchers \ {d} : Publishing(e)' /\ e \in inTime' =>
            to'[e] < nextRecipient
      BY <2>2, <2>4 DEF ClaimInv, InTimeClaims
    <2>6. InTimeClaims'
      BY <2>2, <2>3, <2>5 DEF InTimeClaims
    <2>7. UnexpiredClaimsDisjoint'
      <3> SUFFICES ASSUME NEW e \in Dispatchers, NEW f \in Dispatchers, e # f,
                          Publishing(e)', e \in inTime', Publishing(f)', f \in inTime'
                   PROVE  to'[e] < from'[f] \/ to'[f] < from'[e]
        BY DEF UnexpiredClaimsDisjoint, Publishing
      <3>1. CASE e = d
        BY <3>1, <2>3, <2>5
      <3>2. CASE f = d
        BY <3>2, <2>3, <2>5
      <3>3. CASE e # d /\ f # d
        BY <3>3, <2>4 DEF ClaimInv, UnexpiredClaimsDisjoint, Publishing
      <3> QED BY <3>1, <3>2, <3>3
    <2> QED BY <2>6, <2>7 DEF ClaimInv
  <1>6. ASSUME NEW d \in Dispatchers, PublishRecipient(d) PROVE ClaimInv'
    <2>1. Kept /\ UNCHANGED <<nextRecipient, lease>>
      BY <1>6 DEF PublishRecipient, state, Publishing
    <2> QED BY <2>1, DisjointKept DEF ClaimInv, InTimeClaims, lease
  <1>7. ASSUME NEW d \in Dispatchers, CompleteWindow(d) \/ CompleteReplyLost(d)
        PROVE  ClaimInv'
    <2>1. WindowDone(d) /\ AdvanceCursor(d)
      BY <1>7 DEF CompleteWindow, CompleteReplyLost
    <2>2. Kept
      <3>1. CASE CompleteWindow(d)
        BY <3>1 DEF CompleteWindow, window, Publishing, ValuesOK
      <3>2. CASE CompleteReplyLost(d)
        BY <3>2, NextIterationWindows DEF CompleteReplyLost, Requeue
      <3> QED BY <1>7, <3>1, <3>2
    <2>3. nextRecipient' = to[d] + 1 /\ nextRecipient' > nextRecipient /\ to[d] = leaseEnd
      BY <2>1, AdvanceCursorEffect DEF AdvanceCursor, LeaseMatches
    <2>4. InTimeClaims'
      BY <2>2, <2>3, <1>0 DEF ClaimInv, InTimeClaims
    <2> QED BY <2>2, <2>4, DisjointKept DEF ClaimInv
  <1>8. CASE EnsureSchema
    <2>1. Kept /\ UNCHANGED <<nextRecipient, lease>>
      BY <1>8 DEF EnsureSchema, workers, window, Publishing
    <2> QED BY <2>1, DisjointKept DEF ClaimInv, InTimeClaims, lease
  <1> QED BY <1>1, <1>2, <1>3, <1>4, <1>5, <1>6, <1>7, <1>8, StepIsQuiet

-----------------------------------------------------------------------------
(* No window is repeated before a lease runs out *)

\* While no lease has run out, whoever publishes has the live lease's window, and
\* has published nothing of it from pos on ...
WindowOfLease ==
    \A d \in Dispatchers : Publishing(d) =>
        /\ leaseUntil = "live" /\ from[d] = leaseStart /\ to[d] = leaseEnd
        /\ pos[d] <= to[d] + 1
        /\ \A r \in published : r < pos[d]

\* ... he is the only one ...
OnePublishes == \A d, e \in Dispatchers : Publishing(d) /\ Publishing(e) => d = e

\* ... and without a live lease nothing is published past the cursor.
NothingAhead == leaseUntil # "live" => \A r \in published : r < nextRecipient

OnceInv ==
    ~everExpired => /\ WindowOfLease /\ OnePublishes /\ NothingAhead
                    /\ (completedAt => leaseUntil # "live") /\ ~duplicated

\* Once a lease has run out the history keeps saying so: no step clears everExpired.
LEMMA ExpiryIsKept == ValuesOK /\ [Next]_vars => (everExpired => everExpired')
  <1> SUFFICES ASSUME ValuesOK, [Next]_vars
               PROVE  everExpired' = everExpired \/ everExpired' = TRUE
    BY Zenon
  <1>1. CASE Quiet
    BY <1>1 DEF Quiet
  <1>2. CASE ExpireLease
    BY <1>2 DEF ExpireLease
  <1>3. ASSUME NEW h \in Requests, UpsertDispatchState(h)
        PROVE  everExpired' = everExpired
    BY <1>3 DEF UpsertDispatchState
  <1>4. ASSUME NEW d \in Dispatchers, ClaimExhausted(d) \/ ClaimWindow(d)
        PROVE  everExpired' = everExpired
    BY <1>4 DEF ClaimExhausted, ClaimWindow
  <1>5. ASSUME NEW d \in Dispatchers, PublishRecipient(d)
        PROVE  everExpired' = everExpired
    BY <1>5 DEF PublishRecipient
  <1>6. ASSUME NEW d \in Dispatchers, CompleteWindow(d) \/ CompleteReplyLost(d)
        PROVE  everExpired' = everExpired
    BY <1>6 DEF CompleteWindow, CompleteReplyLost
  <1>7. CASE EnsureSchema
    BY <1>7 DEF EnsureSchema
  <1> QED BY <1>1, <1>2, <1>3, <1>4, <1>5, <1>6, <1>7, StepIsQuiet

\* Every step keeps it; an expired lease ends it for good.
LEMMA OnceStep == TypeOK /\ EndInv /\ OnceInv /\ [Next]_vars => OnceInv'
  <1> SUFFICES ASSUME TypeOK, EndInv, OnceInv, [Next]_vars, ~everExpired, ~everExpired'
               PROVE  /\ WindowOfLease' /\ OnePublishes' /\ NothingAhead'
                      /\ (completedAt' => leaseUntil' # "live") /\ ~duplicated'
    BY ExpiryIsKept, Zenon DEF OnceInv, TypeOK
  <1> USE ConstantsAssumption
  <1>0. /\ WindowOfLease /\ OnePublishes /\ NothingAhead
        /\ (completedAt => leaseUntil # "live") /\ ~duplicated
    BY DEF OnceInv
  <1>a. /\ nextRecipient \in Nat
        /\ \A e \in Dispatchers : from[e] \in Nat /\ to[e] \in Nat /\ pos[e] \in Nat
        /\ \A r \in published : r \in 1..Total
    BY DEF TypeOK, ValuesOK, Recipients
  <1>b. ValuesOK
    BY DEF TypeOK
  <1>1. CASE Quiet
    <2>1. UNCHANGED <<nextRecipient, leaseStart, leaseEnd, leaseUntil, completedAt, published,
                      duplicated>>
      BY <1>1 DEF Quiet, lease
    <2>2. \A d \in Dispatchers : Publishing(d)' =>
            Publishing(d) /\ from'[d] = from[d] /\ to'[d] = to[d] /\ pos'[d] = pos[d]
      BY <1>1 DEF Quiet
    <2> QED BY <1>0, <2>1, <2>2 DEF WindowOfLease, OnePublishes, NothingAhead
  <1>2. CASE ExpireLease
    BY <1>2 DEF ExpireLease
  <1>3. ASSUME NEW h \in Requests, UpsertDispatchState(h)
        PROVE  /\ WindowOfLease' /\ OnePublishes' /\ NothingAhead'
               /\ (completedAt' => leaseUntil' # "live") /\ ~duplicated'
    <2>1. UNCHANGED <<nextRecipient, pc, from, to, pos, published, duplicated>>
      BY <1>3 DEF UpsertDispatchState, workers, window, fanned
    <2>2. CASE UNCHANGED <<completedAt, lease>>
      BY <1>0, <2>1, <2>2 DEF WindowOfLease, OnePublishes, NothingAhead, Publishing, lease
    <2>3. CASE completedAt /\ leaseUntil' = "null"
      <3>1. \A r \in published : r < nextRecipient
        BY <2>3, <1>0 DEF NothingAhead
      <3>2. \A d \in Dispatchers : ~Publishing(d)
        BY <2>3, <1>0 DEF WindowOfLease
      <3> QED BY <1>0, <2>1, <2>3, <3>1, <3>2 DEF WindowOfLease, OnePublishes, NothingAhead,
            Publishing
    <2> QED BY <1>3, <2>2, <2>3 DEF UpsertDispatchState, ResetDispatchState, ClearLease
  <1>4. ASSUME NEW d \in Dispatchers, ClaimExhausted(d)
        PROVE  /\ WindowOfLease' /\ OnePublishes' /\ NothingAhead'
               /\ (completedAt' => leaseUntil' # "live") /\ ~duplicated'
    <2>1. UNCHANGED <<nextRecipient, published, duplicated>> /\ leaseUntil' = "null"
          /\ leaseUntil # "live"
      BY <1>4 DEF ClaimExhausted, MayClaim, ClearLease, fanned
    <2>2. \A e \in Dispatchers : Publishing(e)' => Publishing(e)
      BY <1>4, <1>b DEF ClaimExhausted, Move, Publishing, ValuesOK
    <2>3. \A e \in Dispatchers : ~Publishing(e)
      BY <2>1, <1>0 DEF WindowOfLease
    <2> QED BY <1>0, <2>1, <2>2, <2>3 DEF WindowOfLease, OnePublishes, NothingAhead
  <1>5. ASSUME NEW d \in Dispatchers, ClaimWindow(d)
        PROVE  /\ WindowOfLease' /\ OnePublishes' /\ NothingAhead'
               /\ (completedAt' => leaseUntil' # "live") /\ ~duplicated'
    <2>1. WindowEnd \in nextRecipient..Total
      BY <1>5, <1>b, WindowEndRange DEF ClaimWindow
    <2>2. /\ UNCHANGED <<nextRecipient, published, duplicated>> /\ leaseUntil # "live"
          /\ completedAt' = FALSE
          /\ leaseStart' = nextRecipient /\ leaseEnd' = WindowEnd /\ leaseUntil' = "live"
      BY <1>5 DEF ClaimWindow, MayClaim, fanned
    <2>3. from'[d] = nextRecipient /\ to'[d] = WindowEnd /\ pos'[d] = nextRecipient
      BY <1>5, <1>b DEF ClaimWindow, ValuesOK
    <2>4. \A e \in Dispatchers : Publishing(e)' => e = d
      <3>1. \A e \in Dispatchers \ {d} : Publishing(e)' => Publishing(e)
        BY <1>5, <1>b DEF ClaimWindow, Move, Publishing, ValuesOK
      <3>2. \A e \in Dispatchers : ~Publishing(e)
        BY <2>2, <1>0 DEF WindowOfLease
      <3> QED BY <3>1, <3>2
    <2>5. \A r \in published' : r < pos'[d]
      BY <2>2, <2>3, <1>0 DEF NothingAhead
    <2>6. pos'[d] <= to'[d] + 1
      BY <2>1, <2>3, <1>a
    <2> QED BY <1>0, <2>2, <2>3, <2>4, <2>5, <2>6 DEF WindowOfLease, OnePublishes, NothingAhead
  <1>6. ASSUME NEW d \in Dispatchers, PublishRecipient(d)
        PROVE  /\ WindowOfLease' /\ OnePublishes' /\ NothingAhead'
               /\ (completedAt' => leaseUntil' # "live") /\ ~duplicated'
    <2>1. UNCHANGED <<nextRecipient, leaseStart, leaseEnd, leaseUntil, completedAt, pc, from, to>>
      BY <1>6 DEF PublishRecipient, state, lease
    <2>2. published' = published \union {pos[d]} /\ Publishing(d) /\ pos[d] <= to[d]
      BY <1>6 DEF PublishRecipient, Publishing
    <2>3. pos'[d] = pos[d] + 1
      BY <1>6, <1>b DEF PublishRecipient, ValuesOK
    <2>4. leaseUntil = "live" /\ \A r \in published : r < pos[d]
      BY <2>2, <1>0 DEF WindowOfLease
    <2>5. pos[d] \notin published
      BY <2>4, <1>a
    <2>6. duplicated' = duplicated
      BY <1>6, <2>5 DEF PublishRecipient
    <2>7. \A e \in Dispatchers : Publishing(e) => e = d
      BY <2>2, <1>0 DEF OnePublishes
    <2>8. \A r \in published' : r < pos'[d]
      BY <2>2, <2>3, <2>4, <1>a
    <2>9. pos'[d] <= to[d] + 1
      BY <2>2, <2>3, <1>a
    <2>10. WindowOfLease'
      BY <1>0, <2>1, <2>2, <2>7, <2>8, <2>9 DEF WindowOfLease, Publishing
    <2>11. OnePublishes' /\ NothingAhead'
      BY <1>0, <2>1, <2>4 DEF OnePublishes, NothingAhead, Publishing
    <2> QED BY <1>0, <2>1, <2>6, <2>10, <2>11
  <1>7. ASSUME NEW d \in Dispatchers, CompleteWindow(d) \/ CompleteReplyLost(d)
        PROVE  /\ WindowOfLease' /\ OnePublishes' /\ NothingAhead'
               /\ (completedAt' => leaseUntil' # "live") /\ ~duplicated'
    <2>1. WindowDone(d) /\ AdvanceCursor(d) /\ UNCHANGED <<published, duplicated>>
      BY <1>7 DEF CompleteWindow, CompleteReplyLost, fanned
    <2>2. Publishing(d) /\ pos[d] > to[d] /\ nextRecipient' = to[d] + 1 /\ leaseUntil' = "null"
      BY <2>1 DEF WindowDone, AdvanceCursor, ClearLease, Publishing
    <2>3. \A r \in published : r < nextRecipient'
      BY <2>2, <1>0, <1>a DEF WindowOfLease
    <2>4. \A e \in Dispatchers : ~Publishing(e)'
      <3>1. CASE CompleteWindow(d)
        <4>1. ~Publishing(d)' /\ \A e \in Dispatchers \ {d} : Publishing(e)' => Publishing(e)
          BY <3>1, <1>b DEF CompleteWindow, Publishing, ValuesOK
        <4> QED BY <4>1, <2>2, <1>0 DEF OnePublishes
      <3>2. CASE CompleteReplyLost(d)
        <4>1. \A e \in Dispatchers : Publishing(e)' => e # d /\ Publishing(e)
          BY <3>2, <1>b, NextIterationWindows DEF CompleteReplyLost, Requeue
        <4> QED BY <4>1, <2>2, <1>0 DEF OnePublishes
      <3> QED BY <1>7, <3>1, <3>2
    <2> QED BY <1>0, <2>1, <2>2, <2>3, <2>4 DEF WindowOfLease, OnePublishes, NothingAhead
  <1>8. CASE EnsureSchema
    <2>1. UNCHANGED <<nextRecipient, leaseStart, leaseEnd, leaseUntil, pc, from, to, pos,
                      published, duplicated>> /\ ~stateRow
      BY <1>8 DEF EnsureSchema, lease, workers, window, fanned
    <2>2. leaseUntil = "null"
      BY <2>1 DEF EndInv, MissingRow
    <2> QED BY <1>0, <2>1, <2>2 DEF WindowOfLease, OnePublishes, NothingAhead, Publishing
  <1> QED BY <1>1, <1>2, <1>3, <1>4, <1>5, <1>6, <1>7, <1>8, <1>b, StepIsQuiet

-----------------------------------------------------------------------------
(* The fan-out implements its contract *)

\* A window holds at most MaxMessages recipients.
LEMMA WindowEndSize ==
    ASSUME ValuesOK, nextRecipient <= Total
    PROVE  WindowEnd < nextRecipient + MaxMessages
  <1> DEFINE q == MaxMessages \div channels
  <1>1. channels \in Nat \ {0} /\ Total \in Nat /\ nextRecipient \in 1..Total
        /\ MaxMessages \in Nat \ {0}
    BY ConstantsAssumption DEF ValuesOK
  <1>2. q \in Nat /\ q <= MaxMessages
    <2>1. \A a \in Nat, b \in Nat \ {0} : a \div b \in Nat /\ a \div b <= a
      OBVIOUS
    <2> QED BY <1>1, <2>1
  <1> HIDE DEF q
  <1>3. WindowEnd = LET size == IF q = 0 THEN 1 ELSE q
                        end  == nextRecipient + size - 1
                    IN  IF end > Total THEN Total ELSE end
    BY DEF WindowEnd, q
  <1> QED BY <1>1, <1>2, <1>3

\* No claim, however old, reaches a whole window past the cursor.
WindowAtCursor ==
    \A d \in Dispatchers : Publishing(d) =>
        from[d] <= nextRecipient /\ to[d] < from[d] + MaxMessages

\* A claim starts at the cursor, and the cursor only moves away from it.
LEMMA WindowAtCursorStep ==
    ValuesOK /\ CursorInv /\ WindowAtCursor /\ [Next]_vars => WindowAtCursor'
  <1> SUFFICES ASSUME ValuesOK, CursorInv, WindowAtCursor, [Next]_vars
               PROVE  WindowAtCursor'
    OBVIOUS
  <1>0. /\ nextRecipient \in Nat /\ nextRecipient' \in Nat /\ MaxMessages \in Nat
        /\ \A e \in Dispatchers : from[e] \in Nat /\ to[e] \in Nat
    BY ValuesStep, ConstantsAssumption DEF ValuesOK
  <1>1. nextRecipient' >= nextRecipient
    BY CursorForward
  <1>2. ASSUME \A d \in Dispatchers : Publishing(d)' =>
                 Publishing(d) /\ from'[d] = from[d] /\ to'[d] = to[d]
        PROVE  WindowAtCursor'
    BY <1>0, <1>1, <1>2 DEF WindowAtCursor
  <1>3. CASE Quiet
    BY <1>2, <1>3 DEF Quiet
  <1>4. CASE ExpireLease
    BY <1>2, <1>4 DEF ExpireLease, Publishing
  <1>5. ASSUME NEW h \in Requests, UpsertDispatchState(h) PROVE WindowAtCursor'
    BY <1>2, <1>5 DEF UpsertDispatchState, Publishing, workers, window
  <1>6. ASSUME NEW d \in Dispatchers, ClaimExhausted(d) PROVE WindowAtCursor'
    BY <1>2, <1>6 DEF ClaimExhausted, Move, Publishing, ValuesOK, window
  <1>7. ASSUME NEW d \in Dispatchers, ClaimWindow(d) PROVE WindowAtCursor'
    <2>1. WindowEnd < nextRecipient + MaxMessages /\ nextRecipient' = nextRecipient
      BY <1>7, WindowEndSize DEF ClaimWindow
    <2>2. from'[d] = nextRecipient /\ to'[d] = WindowEnd
      BY <1>7 DEF ClaimWindow, ValuesOK
    <2>3. \A e \in Dispatchers \ {d} :
            from'[e] = from[e] /\ to'[e] = to[e] /\ (Publishing(e)' => Publishing(e))
      BY <1>7 DEF ClaimWindow, Move, Publishing, ValuesOK
    <2> QED BY <1>0, <2>1, <2>2, <2>3 DEF WindowAtCursor
  <1>8. ASSUME NEW d \in Dispatchers, PublishRecipient(d) PROVE WindowAtCursor'
    BY <1>2, <1>8 DEF PublishRecipient, Publishing
  <1>9. ASSUME NEW d \in Dispatchers, CompleteWindow(d) PROVE WindowAtCursor'
    BY <1>2, <1>9 DEF CompleteWindow, Publishing, ValuesOK, window
  <1>10. ASSUME NEW d \in Dispatchers, CompleteReplyLost(d) PROVE WindowAtCursor'
    <2>1. NextIteration(d)
      BY <1>10 DEF CompleteReplyLost, Requeue
    <2> QED BY <1>2, <2>1, NextIterationWindows
  <1>11. CASE EnsureSchema
    BY <1>2, <1>11 DEF EnsureSchema, Publishing, workers, window
  <1> QED BY <1>3, <1>4, <1>5, <1>6, <1>7, <1>8, <1>9, <1>10, <1>11, StepIsQuiet

\* Every step is one of the contract's, or changes none of its variables.
LEMMA StepRefines ==
    TypeOK /\ CursorInv /\ EndInv /\ WindowAtCursor /\ [Next]_vars
      => [Contract!Next]_Contract!vars
  <1> SUFFICES ASSUME ValuesOK, CursorInv, EndInv, WindowAtCursor, [Next]_vars,
                      completedAt = TRUE \/ completedAt = FALSE,
                      completedAt' = TRUE \/ completedAt' = FALSE
               PROVE  [Contract!Next]_Contract!vars
    BY FlagsStep DEF TypeOK, FlagsOK
  <1> USE ConstantsAssumption
  <1>a. CASE ~UNCHANGED status
    <2>1. /\ UNCHANGED <<nextRecipient, published, completedAt>>
          /\ status = "cancelled" => published # {}
      BY <1>a, StatusMoves
    <2>2. CASE status' = "cancelled"
      BY <2>1, <2>2 DEF Contract!Next, Contract!Cancel
    <2>3. CASE status = "cancelled" /\ status' # "cancelled"
      BY <2>1, <2>3 DEF Contract!Next, Contract!Revive
    <2>4. CASE status # "cancelled" /\ status' # "cancelled"
      BY <2>1, <2>4 DEF Contract!vars
    <2> QED BY <2>2, <2>3, <2>4
  <1> SUFFICES ASSUME UNCHANGED status PROVE [Contract!Next]_Contract!vars
    BY <1>a
  <1>0. /\ nextRecipient \in 1..(Total + 1) /\ Total \in Nat
        /\ \A d \in Dispatchers : from[d] \in Nat /\ to[d] \in 0..Total
                                  /\ pos[d] \in 1..(Total + 1)
    BY DEF ValuesOK
  <1>1. ASSUME UNCHANGED <<nextRecipient, published, completedAt>>
        PROVE  [Contract!Next]_Contract!vars
    BY <1>1 DEF Contract!vars
  <1>2. CASE Quiet \/ ExpireLease
    BY <1>1, <1>2 DEF Quiet, ExpireLease, fanned
  <1>3. ASSUME NEW h \in Requests, UpsertDispatchState(h)
        PROVE  [Contract!Next]_Contract!vars
    <2>1. UNCHANGED <<nextRecipient, published>>
      BY <1>3 DEF UpsertDispatchState, fanned
    <2>2. CASE UNCHANGED completedAt
      BY <1>1, <2>1, <2>2
    <2>3. CASE completedAt /\ completedAt' = FALSE
      BY <2>1, <2>3 DEF Contract!Next, Contract!Reopen
    <2> QED BY <1>3, <2>2, <2>3 DEF UpsertDispatchState, ResetDispatchState
  <1>4. ASSUME NEW d \in Dispatchers, ClaimExhausted(d)
        PROVE  [Contract!Next]_Contract!vars
    <2>1. nextRecipient > Total /\ completedAt' = TRUE /\ UNCHANGED <<nextRecipient, published>>
      BY <1>4 DEF ClaimExhausted, fanned
    <2>2. nextRecipient = Total + 1
      BY <1>0, <2>1
    <2> QED BY <2>1, <2>2 DEF Contract!Next, Contract!Close
  <1>5. ASSUME NEW d \in Dispatchers, ClaimWindow(d)
        PROVE  [Contract!Next]_Contract!vars
    <2>1. completedAt' = FALSE /\ UNCHANGED <<nextRecipient, published>>
      BY <1>5 DEF ClaimWindow, fanned
    <2>2. completedAt = FALSE
      BY <1>5 DEF ClaimWindow, MayClaim
    <2> QED BY <1>1, <2>1, <2>2
  <1>6. ASSUME NEW d \in Dispatchers, PublishRecipient(d)
        PROVE  [Contract!Next]_Contract!vars
    <2>1. /\ Publishing(d) /\ pos[d] <= to[d] /\ published' = published \union {pos[d]}
          /\ UNCHANGED <<nextRecipient, completedAt>>
      BY <1>6 DEF PublishRecipient, Publishing, state
    <2>2. pos[d] \in 1..Total /\ pos[d] < nextRecipient + MaxMessages
      BY <1>0, <2>1 DEF WindowAtCursor
    <2>3. completedAt => nextRecipient = Total + 1
      BY <1>0, <2>1 DEF EndInv, CompletedAtEnd, CancelledUnfanned, NoClaims, Publishing
    <2>4. Contract!Publish(pos[d]) /\ pos[d] \in Contract!Recipients
      BY <2>1, <2>2, <2>3 DEF Contract!Publish, Contract!Recipients
    <2> QED BY <2>4 DEF Contract!Next
  <1>7. ASSUME NEW d \in Dispatchers, CompleteWindow(d) \/ CompleteReplyLost(d)
        PROVE  [Contract!Next]_Contract!vars
    <2> DEFINE next == to[d] + 1
    <2>1. WindowDone(d) /\ AdvanceCursor(d) /\ UNCHANGED published
      BY <1>7 DEF CompleteWindow, CompleteReplyLost, fanned
    <2>2. /\ nextRecipient' = next /\ next > nextRecipient /\ from[d] = nextRecipient
          /\ \A r \in Recipients : r < next => r \in published
      BY <2>1, AdvanceCursorEffect
    <2>3. next \in 2..(Total + 1) /\ next <= nextRecipient + MaxMessages
      BY <1>0, <2>1, <2>2 DEF WindowAtCursor, WindowDone, Publishing
    <2>4. 1..(next - 1) \subseteq published
      BY <2>2, <2>3 DEF Recipients
    <2>5. completedAt' = (next = Total + 1)
      <3>1. CASE next > Total
        <4>1. completedAt' = TRUE
          BY <2>1, <3>1, <1>0 DEF AdvanceCursor
        <4>2. next = Total + 1
          BY <2>3, <3>1, <1>0
        <4> QED BY <4>1, <4>2
      <3>2. CASE next <= Total
        <4>1. completedAt' = FALSE
          BY <2>1, <3>2, <1>0 DEF AdvanceCursor
        <4>2. next # Total + 1
          BY <3>2, <1>0
        <4> QED BY <4>1, <4>2
      <3> QED BY <3>1, <3>2, <1>0
    <2> HIDE DEF next
    <2>6. Contract!Advance(next)
      BY <2>1, <2>2, <2>3, <2>4, <2>5 DEF Contract!Advance
    <2> QED BY <2>3, <2>6 DEF Contract!Next
  <1>8. CASE EnsureSchema
    <2>1. UNCHANGED <<nextRecipient, published>> /\ ~stateRow
          /\ completedAt' = (status \in {"finished", "cancelled"})
      BY <1>8 DEF EnsureSchema, fanned
    <2>2. published = {} /\ completedAt = FALSE /\ status # "finished"
      BY <2>1 DEF EndInv, MissingRow, FinishedIsFanned
    <2>3. CASE status = "cancelled"
      BY <2>1, <2>2, <2>3 DEF Contract!Next, Contract!Close
    <2>4. CASE status # "cancelled"
      <3>1. ~completedAt'
        BY <2>1, <2>2, <2>4
      <3> QED BY <1>1, <2>1, <2>2, <3>1
    <2> QED BY <2>3, <2>4
  <1> QED BY <1>2, <1>3, <1>4, <1>5, <1>6, <1>7, <1>8, StepIsQuiet

-----------------------------------------------------------------------------
(* The theorems *)

\* The inductive invariant holds in every reachable state.
LEMMA Inductive == Spec => []IInv
  <1>1. Init => CursorInv /\ ClaimInv /\ EndInv
    <2>1. Init => CursorInv /\ ClaimInv
      BY ConstantsAssumption DEF Init, CursorInv, ClaimInv, NoRecipientSkipped,
        LeaseAtCursor, WindowPublished, UnexpiredClaimsDisjoint, InTimeClaims, Publishing,
        Recipients
    <2>2. Init => EndInv
      BY DEF Init, EndInv, MissingRow, FinishedIsFanned, CompletedAtEnd, NoClaims
    <2> QED BY <2>1, <2>2
  <1>2. TypeOK /\ CursorInv /\ ClaimInv /\ EndInv /\ [Next]_vars
          => CursorInv' /\ ClaimInv' /\ EndInv'
    BY CursorStep, ClaimStep, EndStep DEF TypeOK
  <1> QED BY <1>1, <1>2, TypeCorrect, PTL DEF Spec, IInv

\* No interleaving of dispatchers, expired leases, crashes and lost replies
\* moves the cursor over a recipient whose jobs were not all published.
THEOREM NoSkip == Spec => []NoRecipientSkipped
  <1>1. IInv => NoRecipientSkipped
    BY DEF IInv, CursorInv
  <1> QED BY <1>1, Inductive, PTL

\* A dispatch marked completed has published every recipient, or is the one a
\* restart inserts for a campaign that was cancelled before its first recipient.
THEOREM CompletedIsComplete == Spec => []CompletedCoversAll
  <1>1. IInv => CompletedCoversAll
    <2> SUFFICES ASSUME ValuesOK, CursorInv, nextRecipient > Total
                 PROVE  published = Recipients
      BY DEF IInv, TypeOK, CompletedCoversAll, EndInv, CompletedAtEnd, CancelledUnfanned
    <2>1. nextRecipient \in Nat /\ Total \in Nat
      BY ConstantsAssumption DEF ValuesOK
    <2>2. \A r \in Recipients : r \in published
      BY <2>1 DEF CursorInv, NoRecipientSkipped, Recipients
    <2> QED BY <2>2 DEF ValuesOK
  <1> QED BY <1>1, Inductive, PTL

\* Dispatchers whose leases are in time never publish the same recipient.
THEOREM ClaimsExclusive == Spec => []UnexpiredClaimsDisjoint
  <1>1. IInv => UnexpiredClaimsDisjoint
    BY DEF IInv, ClaimInv
  <1> QED BY <1>1, Inductive, PTL

\* The cursor only moves forward.
THEOREM CursorMonotone == Spec => CursorNeverBack
  <1>1. IInv /\ [Next]_vars => [nextRecipient' >= nextRecipient]_vars
    BY CursorForward DEF IInv, TypeOK
  <1> QED BY <1>1, Inductive, PTL DEF Spec, CursorNeverBack

\* No recipient is published twice before a lease has run out: stop and start,
\* crashes, redelivered wakeups and the recovery loop repeat nothing by themselves.
THEOREM OnceBeforeExpiry == Spec => []DuplicateNeedsExpiry
  <1>1. Init => OnceInv
    BY DEF Init, OnceInv, WindowOfLease, OnePublishes, NothingAhead, Publishing
  <1>2. IInv /\ OnceInv /\ [Next]_vars => OnceInv'
    BY OnceStep DEF IInv
  <1>3. Spec => []OnceInv
    BY <1>1, <1>2, Inductive, PTL DEF Spec
  <1>4. OnceInv => DuplicateNeedsExpiry
    BY DEF OnceInv, DuplicateNeedsExpiry
  <1> QED BY <1>3, <1>4, PTL

\* The fan-out implements OrderedFanout: recipients are published in order, at
\* most a window past a cursor that follows them, and it is done only at the end or
\* if the campaign was cancelled before its first recipient.
THEOREM Refinement == Spec => ImplementsOrderedFanout
  <1>1. Init => Contract!Init
    BY DEF Init, Contract!Init
  <1>2. Init => WindowAtCursor
    BY DEF Init, WindowAtCursor, Publishing
  <1>3. IInv /\ WindowAtCursor /\ [Next]_vars => WindowAtCursor'
    BY WindowAtCursorStep DEF IInv, TypeOK
  <1>4. IInv /\ WindowAtCursor /\ [Next]_vars => [Contract!Next]_Contract!vars
    BY StepRefines DEF IInv
  <1> QED BY <1>1, <1>2, <1>3, <1>4, Inductive, PTL
        DEF Spec, ImplementsOrderedFanout, Contract!Spec
=============================================================================
