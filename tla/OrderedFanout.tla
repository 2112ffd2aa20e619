---------------------------- MODULE OrderedFanout ----------------------------
(***************************************************************************)
(* What the fan-out of a campaign promises, without leases, wakeups or     *)
(* dispatchers: recipients are published in order, at most one window      *)
(* ahead of a cursor that only moves forward and only over recipients that *)
(* were published, and the fan-out is done only at the end, or when the    *)
(* campaign is cancelled before its first recipient.                       *)
(***************************************************************************)
EXTENDS Naturals

CONSTANTS Total, Window

VARIABLES cursor, published, done, cancelled

vars == <<cursor, published, done, cancelled>>

Recipients == 1..Total

Init == cursor = 1 /\ published = {} /\ done = FALSE /\ cancelled = FALSE

\* Publishing again, a recipient behind the cursor or in the window, is allowed;
\* nothing is published of a fan-out that was done before its end.
Publish(r) ==
    /\ r < cursor + Window
    /\ done => cursor = Total + 1
    /\ published' = published \union {r}
    /\ UNCHANGED <<cursor, done, cancelled>>

Advance(next) ==
    /\ cursor < next /\ next <= cursor + Window
    /\ 1..(next - 1) \subseteq published
    /\ cursor' = next
    /\ done' = (next = Total + 1)
    /\ UNCHANGED <<published, cancelled>>

\* A campaign started again reopens a fan-out that was done.
Reopen == done /\ done' = FALSE /\ UNCHANGED <<cursor, published, cancelled>>

Close ==
    /\ cursor = Total + 1 \/ (cancelled /\ published = {})
    /\ done' = TRUE
    /\ UNCHANGED <<cursor, published, cancelled>>

Cancel == cancelled' = TRUE /\ UNCHANGED <<cursor, published, done>>

\* Only failed deliveries, which there are none of before the first recipient,
\* bring a cancelled campaign back.
Revive ==
    /\ cancelled /\ published # {}
    /\ cancelled' = FALSE
    /\ UNCHANGED <<cursor, published, done>>

Next ==
    \/ \E r \in Recipients : Publish(r)
    \/ \E next \in 2..(Total + 1) : Advance(next)
    \/ Reopen
    \/ Close
    \/ Cancel
    \/ Revive

Spec == Init /\ [][Next]_vars
=============================================================================
