-------------------------- MODULE ErrorGroupsProofs --------------------------
(***************************************************************************)
(* Proofs about ErrorGroups, for every set of deliveries, groups and       *)
(* replacements, and about Delivery with the operations on groups beside   *)
(* it.                                                                     *)
(***************************************************************************)
EXTENDS ErrorGroups, NotForgottenProofs

USE ConstantsAssumption, GroupsAssumption

\* The types of the handler's variables.
GroupTyped ==
    /\ groupOp \in {"idle", "cancel", "countCancelled", "switch", "countSuperseded"}
    /\ members \subseteq Keys /\ toPublish \subseteq Keys /\ superseded \subseteq Keys

\* The rows that are being switched have replacements; each is still to be
\* published, or was and is kept.
ReplacementsKept ==
    /\ groupOp = "switch" =>
         \A k \in members : k \in DOMAIN SwitchKey
                            /\ (SwitchKey[k] \in toPublish \/ Kept(SwitchKey[k]))
    /\ \A k \in superseded : k \in DOMAIN SwitchKey /\ Kept(SwitchKey[k])

GroupInv == IInv /\ AllPaid /\ AllKept /\ GroupTyped /\ ReplacementsKept

\* The handler's steps, as far as the pipeline sees them: rows are cancelled, jobs
\* are added, and counters, the status and faults change.
GroupQuiet ==
    /\ UNCHANGED <<attempt, toDispatch, delayed, workers, retry, locking, delivered, lost>>
    /\ \A k \in Keys : row'[k] = row[k] \/ row'[k] = "cancelled"
    /\ \A j \in Jobs : ready[j] > 0 => ready'[j] > 0

\* Every step of the handler is of this kind.
LEMMA GroupIsQuiet == TypeInv /\ GroupStep => GroupQuiet
  <1> SUFFICES ASSUME TypeInv, GroupStep PROVE GroupQuiet
    OBVIOUS
  <1>0. RowsOK /\ QueuesOK
    BY TypeInvParts
  <1> USE <1>0 DEF GroupQuiet, rows, queues, RowsOK, QueuesOK
  <1>1. ASSUME NEW g \in Groups, FindCancelled(g) \/ FindSwitched(g) PROVE GroupQuiet
    BY <1>1 DEF FindCancelled, FindSwitched, FindRows, vars
  <1>2. CASE MarkCancelled \/ MarkSuperseded
    BY <1>2 DEF MarkCancelled, MarkSuperseded, CloseRows
  <1>3. CASE CountCancelled \/ CountSuperseded \/ SwitchPublishFails \/ GroupCrash
    BY <1>3 DEF CountCancelled, CountSuperseded, SwitchPublishFails, GroupCrash
  <1>4. ASSUME NEW k \in Keys, PublishSwitched(k) PROVE GroupQuiet
    <2>1. <<k, 1>> \in Jobs
      BY DEF Jobs, Attempts
    <2> QED BY <1>4, <2>1 DEF PublishSwitched, Put
  <1> QED BY <1>1, <1>2, <1>3, <1>4 DEF GroupStep

\* Such a step forgets nothing: a row that is cancelled is resolved.
LEMMA QuietKeeps ==
    ASSUME TypeInv, GroupQuiet, NEW k \in Keys, Kept(k) PROVE Kept(k)'
  <1> USE DEF GroupQuiet, workers, local, retry
  <1>1. CASE row'[k] = "cancelled"
    BY <1>1 DEF Kept, Safe, Resolved
  <1>2. CASE row'[k] = row[k]
    <2>1. ASSUME NEW j \in Jobs, Queued(k, j) PROVE Queued(k, j)'
      BY <2>1 DEF Queued
    <2>2. ASSUME NEW w \in Workers, Carries(w, k) PROVE Carries(w, k)'
      BY <2>2 DEF Carries, Key, Try, HasRetry
    <2>3. Safe(k) => Safe(k)'
      BY <1>2, <2>1, <2>2 DEF Safe, Onward, Resolved
    <2>4. (Held(k) => Held(k)') /\ (Waiting(k) => Waiting(k)')
      BY <1>2 DEF Held, Waiting
    <2> QED BY <2>3, <2>4 DEF Kept
  <1> QED BY <1>1, <1>2

\* The pipeline's types hold with the handler's steps, too.
LEMMA GroupTypeInvStep == TypeInv /\ GroupTyped /\ GroupStep => TypeInv'
  <1> SUFFICES ASSUME TypeInv, GroupTyped, GroupStep PROVE TypeInv'
    OBVIOUS
  <1>0. /\ RowsOK /\ QueuesOK /\ CountsOK /\ WorkersOK /\ LocksOK /\ FlagOK
        /\ GroupQuiet
    BY TypeInvParts, GroupIsQuiet
  <1>1. WorkersOK' /\ LocksOK' /\ FlagOK'
    BY <1>0 DEF GroupQuiet, workers, local, locking, WorkersOK, LocksOK, FlagOK, HasDelivery
  <1>2. RowsOK'
    <2>1. row' = row \/ CloseRows
      BY DEF GroupStep, FindCancelled, FindSwitched, FindRows, vars, rows, MarkCancelled,
        MarkSuperseded, CountCancelled, CountSuperseded, SwitchPublishFails, GroupCrash,
        PublishSwitched
    <2>2. row' \in [Keys -> {"none", "queued"} \union Processed]
      BY <1>0, <2>1 DEF RowsOK, CloseRows, Processed
    <2>3. /\ status' = status \/ status' = "running"
          /\ faults' = faults \/ Fault("publish") \/ Fault("crash")
      BY DEF GroupStep, FindCancelled, FindSwitched, FindRows, vars, CloseRows,
        MarkCancelled, MarkSuperseded, CountCancelled, CountSuperseded, SwitchPublishFails,
        GroupCrash, PublishSwitched
    <2>4. NoRowNoAttempt'
      BY <1>0 DEF GroupQuiet, RowsOK, NoRowNoAttempt
    <2> QED BY <1>0, <2>2, <2>3, <2>4 DEF RowsOK, GroupQuiet, retry, Fault
  <1>3. QueuesOK'
    <2>1. ready' = ready \/ \E k \in Keys : ready' = Put(ready, <<k, 1>>)
      BY DEF GroupStep, FindCancelled, FindSwitched, FindRows, vars, CloseRows,
        MarkCancelled, MarkSuperseded, CountCancelled, CountSuperseded, SwitchPublishFails,
        GroupCrash, PublishSwitched, queues
    <2>2. ASSUME NEW k \in Keys PROVE Put(ready, <<k, 1>>) \in [Jobs -> Nat]
      <3>1. <<k, 1>> \in Jobs
        BY DEF Jobs, Attempts
      <3> QED BY <1>0, <3>1, PutTakeType DEF QueuesOK
    <2>3. ready' \in [Jobs -> Nat]
      BY <1>0, <2>1, <2>2 DEF QueuesOK
    <2> QED BY <1>0, <2>3 DEF QueuesOK, GroupQuiet, retry
  <1>4. CountsOK'
    <2> DEFINE n == Cardinality(members)
    <2>1. n \in Nat
      BY KeysAreCounted DEF GroupTyped
    <2>2. counts' \in Counters
      <3>1. CASE CountCancelled
        <4> DEFINE one == [counts EXCEPT !.failed = Less(counts.failed, n)]
        <4>1. one \in Counters /\ counts.cancelled + n \in Nat
          BY <1>0, <2>1, LessIsNumber, CountersUpdate DEF CountsOK, Counters
        <4>2. counts' = [one EXCEPT !.cancelled = counts.cancelled + n]
          BY <3>1, Zenon DEF CountCancelled
        <4> HIDE DEF one, n
        <4> QED BY <4>1, <4>2, CountersUpdate
      <3>2. CASE CountSuperseded
        <4> DEFINE one == [counts EXCEPT !.processed = Less(counts.processed, n)]
        <4>1. one \in Counters /\ Less(counts.failed, n) \in Nat
          BY <1>0, <2>1, LessIsNumber, CountersUpdate DEF CountsOK, Counters
        <4>2. counts' = [one EXCEPT !.failed = Less(counts.failed, n)]
          BY <3>2, Zenon DEF CountSuperseded
        <4> HIDE DEF one, n
        <4> QED BY <4>1, <4>2, CountersUpdate
      <3>3. CASE counts' = counts
        BY <1>0, <3>3 DEF CountsOK
      <3> QED BY <3>1, <3>2, <3>3 DEF GroupStep, FindCancelled, FindSwitched, FindRows, vars,
            CloseRows, MarkCancelled, MarkSuperseded, SwitchPublishFails, GroupCrash,
            PublishSwitched
    <2> QED BY <1>0, <2>2 DEF CountsOK, GroupQuiet, workers, local
  <1> QED BY <1>1, <1>2, <1>3, <1>4 DEF TypeInv, TypeOK, RowsOK, QueuesOK, CountsOK, WorkersOK,
          LocksOK, FlagOK

\* The handler's own variables.
LEMMA GroupTypedStep ==
    ASSUME GroupTyped, GroupStep PROVE GroupTyped'
  <1> USE DEF GroupTyped, GroupReturn
  <1>1. ASSUME NEW g \in Groups, FindCancelled(g) PROVE GroupTyped'
    BY <1>1 DEF FindCancelled, FindRows, FailedRows
  <1>2. ASSUME NEW g \in Groups, FindSwitched(g) PROVE GroupTyped'
    BY <1>2 DEF FindSwitched, FindRows, FailedRows
  <1>3. CASE MarkCancelled \/ MarkSuperseded \/ CountCancelled \/ CountSuperseded
             \/ SwitchPublishFails \/ GroupCrash
    BY <1>3 DEF MarkCancelled, MarkSuperseded, CountCancelled, CountSuperseded,
      SwitchPublishFails, GroupCrash
  <1>4. ASSUME NEW k \in Keys, PublishSwitched(k) PROVE GroupTyped'
    BY <1>4 DEF PublishSwitched
  <1> QED BY <1>1, <1>2, <1>3, <1>4 DEF GroupStep

\* A replacement that is published is kept from then on: it has no row yet, or it
\* has one from an earlier switch and is kept already.
LEMMA SwitchedIsKept ==
    ASSUME TypeInv, AllKept, NEW k \in Keys, PublishSwitched(k) PROVE Kept(k)'
  <1>1. CASE row[k] = "none"
    BY <1>1, PublishedIsSafe DEF PublishSwitched, rows, Kept
  <1>2. CASE row[k] # "none"
    <2>1. GroupQuiet
      BY GroupIsQuiet DEF GroupStep
    <2> QED BY <1>2, <2>1, QuietKeeps DEF AllKept
  <1> QED BY <1>1, <1>2

\* The handler gives no key its first row, so nothing else is to be kept.
LEMMA GroupAllKeptStep ==
    ASSUME TypeInv, AllKept, GroupStep PROVE AllKept'
  <1>1. GroupQuiet
    BY GroupIsQuiet
  <1> SUFFICES ASSUME NEW k \in Keys, row'[k] # "none" \/ k \in Dispatched \ toDispatch'
               PROVE  Kept(k)'
    BY DEF AllKept
  <1>2. CASE row'[k] = "cancelled"
    BY <1>2 DEF Kept, Safe, Resolved
  <1>3. CASE row'[k] = row[k]
    BY <1>1, <1>3, QuietKeeps DEF AllKept, GroupQuiet
  <1> QED BY <1>1, <1>2, <1>3 DEF GroupQuiet

\* Rows become superseded only after all their replacements were published.
LEMMA ReplacementsStep ==
    ASSUME TypeInv, AllKept, ReplacementsKept, GroupTyped, GroupStep
    PROVE  ReplacementsKept'
  <1>1. \A k \in DOMAIN SwitchKey : SwitchKey[k] \in Keys
    OBVIOUS
  <1>2. \A k \in DOMAIN SwitchKey : Kept(SwitchKey[k]) => Kept(SwitchKey[k])'
    BY <1>1, GroupIsQuiet, QuietKeeps
  <1> USE DEF ReplacementsKept, GroupReturn
  <1>3. ASSUME NEW g \in Groups, FindCancelled(g) PROVE ReplacementsKept'
    BY <1>2, <1>3 DEF FindCancelled, FindRows
  <1>4. ASSUME NEW g \in Groups, FindSwitched(g) PROVE ReplacementsKept'
    BY <1>2, <1>4 DEF FindSwitched, FindRows
  <1>5. CASE MarkCancelled \/ CountCancelled \/ CountSuperseded \/ SwitchPublishFails
             \/ GroupCrash
    BY <1>2, <1>5 DEF MarkCancelled, CountCancelled, CountSuperseded, SwitchPublishFails,
      GroupCrash
  <1>6. CASE MarkSuperseded
    BY <1>2, <1>6 DEF MarkSuperseded
  <1>7. ASSUME NEW s \in Keys, PublishSwitched(s) PROVE ReplacementsKept'
    <2>1. Kept(s)'
      BY <1>7, SwitchedIsKept
    <2> QED BY <1>2, <1>7, <2>1 DEF PublishSwitched
  <1> QED BY <1>3, <1>4, <1>5, <1>6, <1>7 DEF GroupStep

\* The lock, the attempts and who runs without the lock are none of its business.
LEMMA GroupLockStep ==
    ASSUME IInv, TypeInv', GroupStep PROVE IInv'
  <1>1. GroupQuiet
    BY GroupIsQuiet DEF IInv
  <1>2. LockHeld' /\ OwnersProcess' /\ SendsNewer'
    BY <1>1 DEF GroupQuiet, workers, local, locking, IInv, LockHeld, OwnersProcess, SendsNewer,
      Processing, Sending, Key, Try
  <1> QED BY <1>2 DEF IInv

\* It sends nothing: a row that it closes leaves its sends accounted for.
LEMMA GroupPaidStep ==
    ASSUME IInv, TypeInv', GroupStep, NEW k \in Keys, SendsPaid(k) PROVE SendsPaid(k)'
  <1> USE DEF IInv
  <1>1. GroupQuiet
    BY GroupIsQuiet
  <1>2. /\ Spares(k)' = Spares(k) /\ Stales(k)' = Stales(k)
        /\ Successes(k)' = Successes(k) /\ Senders(k)' = Senders(k) /\ delivered' = delivered
    BY <1>1 DEF GroupQuiet, workers, local, locking, Spares, Stales, Successes, Senders,
      IsSpare, IsStale, IsSuccess, IsSender, Key, Try
  <1>3. faults' = faults \/ faults' = faults + 1
    BY DEF GroupStep, FindCancelled, FindSwitched, FindRows, vars, CloseRows, Fault,
      MarkCancelled, MarkSuperseded, CountCancelled, CountSuperseded, SwitchPublishFails,
      GroupCrash, PublishSwitched
  <1>4. /\ delivered[k] \in Nat /\ faults \in Nat /\ Cardinality(Senders(k)) \in Nat
        /\ Cardinality(Spares(k)) \in Nat /\ Cardinality(Stales(k)) \in Nat
        /\ Cardinality(Successes(k)) \in Nat
    BY AccountSums
  <1>5. CASE Terminal(k)'
    <2>1. delivered[k] + Cardinality(Senders(k)) <= 1 + faults
      BY PaidIsBounded
    <2>2. delivered[k] + Cardinality(Senders(k)) <= 1 + faults'
      BY <1>3, <1>4, <2>1
    <2> QED BY <1>2, <1>5, <2>2 DEF SendsPaid
  <1>6. CASE ~Terminal(k)'
    <2>1. ~Terminal(k)
      BY <1>1, <1>6 DEF GroupQuiet, Terminal
    <2>2. delivered[k] + Cardinality(Spares(k)) + Cardinality(Stales(k))
            <= faults + Cardinality(Successes(k))
      BY <2>1 DEF SendsPaid
    <2>3. delivered[k] + Cardinality(Spares(k)) + Cardinality(Stales(k))
            <= faults' + Cardinality(Successes(k))
      BY <1>3, <1>4, <2>2
    <2> QED BY <1>2, <1>6, <2>3 DEF SendsPaid
  <1> QED BY <1>5, <1>6

\* The pipeline's steps keep its own invariants beside the handler, the handler's
\* steps all of them.
LEMMA GroupInvStep == GroupInv /\ [GroupNext]_groupVars => GroupInv'
  <1> SUFFICES ASSUME GroupInv, [GroupNext]_groupVars PROVE GroupInv'
    OBVIOUS
  <1>0. TypeInv
    BY DEF GroupInv, IInv
  <1>1. CASE GroupStep
    <2>1. TypeInv' /\ GroupTyped' /\ AllKept' /\ ReplacementsKept'
      BY <1>0, <1>1, GroupTypeInvStep, GroupTypedStep, GroupAllKeptStep, ReplacementsStep
        DEF GroupInv
    <2>2. IInv' /\ AllPaid'
      BY <1>1, <2>1, GroupLockStep, GroupPaidStep DEF GroupInv, AllPaid
    <2> QED BY <2>1, <2>2 DEF GroupInv
  <1>2. CASE [Next]_vars /\ UNCHANGED <<handler, superseded>>
    <2>1. IInv' /\ AllKept'
      BY <1>0, <1>2, IInvStep, AllKeptStep DEF GroupInv
    <2>2. AllPaid'
      BY <1>2, <2>1, AllPaidStep DEF GroupInv
    <2>3. \A k \in Keys : Kept(k) => Kept(k)'
      BY <1>0, <1>2, KeptStep
    <2>4. GroupTyped' /\ ReplacementsKept'
      BY <1>2, <2>3 DEF GroupInv, handler, GroupTyped, ReplacementsKept
    <2> QED BY <2>1, <2>2, <2>4 DEF GroupInv
  <1> QED BY <1>1, <1>2 DEF GroupNext, groupVars

LEMMA GroupInvariant == GroupSpec => []GroupInv
  <1>1. GroupInit => GroupInv
    BY IInvInit, AllPaidInit DEF GroupInit, GroupInv, Init, AllKept, GroupTyped,
      ReplacementsKept
  <1> QED BY <1>1, GroupInvStep, PTL DEF GroupSpec

\* The types hold, counters are never negative, with the group operations, too.
THEOREM GroupTypes == GroupSpec => []GroupTypeOK
  <1>1. GroupInv => GroupTypeOK
    BY DEF GroupInv, IInv, TypeInv, GroupTyped, GroupTypeOK
  <1> QED BY <1>1, GroupInvariant, PTL

\* The lock excludes, and sends are bounded by faults, with them, too.
THEOREM LockExcludesInGroups == GroupSpec => []ProcessedByOne
  <1>1. GroupInv => ProcessedByOne
    BY LockExcludes DEF GroupInv, IInv
  <1> QED BY <1>1, GroupInvariant, PTL

\* A delivery whose group is cancelled or switched while it is being sent is sent
\* no more often than any other.
THEOREM SendsBoundedInGroups == GroupSpec => []SendsBoundedByFaults
  <1>1. GroupInv => SendsBoundedByFaults
    BY AllPaidBounds DEF GroupInv
  <1> QED BY <1>1, GroupInvariant, PTL

\* Nor do the group operations make the pipeline forget a delivery.
THEOREM NothingForgottenInGroups == GroupSpec => []NoDeliveryForgotten
  <1>1. GroupInv => NoDeliveryForgotten
    BY KeptIsNotForgotten DEF GroupInv
  <1> QED BY <1>1, GroupInvariant, PTL

\* A superseded row has a replacement that goes on, was resolved, or was dropped
\* where the workers drop jobs.
THEOREM ReplacementsGoOn == GroupSpec => []ReplacementNotForgotten
  <1>1. GroupInv => ReplacementNotForgotten
    <2> SUFFICES ASSUME GroupInv, NEW k \in superseded
                 PROVE  LET s == SwitchKey[k]
                        IN  Resolved(s) \/ Underway(s) \/ s \in lost \/ s \in claimed
      BY DEF ReplacementNotForgotten
    <2>1. Kept(SwitchKey[k])
      BY DEF GroupInv, ReplacementsKept
    <2> QED BY <2>1, KeptIsUnderway DEF GroupInv, ReplacementsKept
  <1> QED BY <1>1, GroupInvariant, PTL
\* The group operations take no attempt back either: they rewrite rows by key, but
\* leave the attempt.
THEOREM AttemptMonotoneInGroups == GroupSpec => AttemptNeverBack
  <1>1. GroupInv /\ [GroupNext]_groupVars =>
          [\A k \in Keys : attempt'[k] >= attempt[k] \/ everUnlocked]_vars
    <2> SUFFICES ASSUME GroupInv, [GroupNext]_groupVars, NEW k \in Keys, ~everUnlocked
                 PROVE  attempt'[k] >= attempt[k]
      BY Zenon
    <2>1. IInv /\ attempt[k] \in Nat
      BY TypeInvParts DEF GroupInv, IInv, RowsOK
    <2>2. CASE GroupStep
      <3>1. attempt' = attempt
        BY <2>1, <2>2, GroupIsQuiet DEF GroupQuiet, IInv
      <3> QED BY <2>1, <3>1
    <2>3. CASE [Next]_vars
      BY <2>1, <2>3, AttemptStep
    <2> QED BY <2>2, <2>3 DEF GroupNext, groupVars
  <1> QED BY <1>1, GroupInvariant, PTL DEF GroupSpec, AttemptNeverBack
=============================================================================
