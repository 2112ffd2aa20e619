----------------------------- MODULE MCDelivery -----------------------------
(* Instances of Delivery for TLC. *)
EXTENDS Delivery, TLC

CONSTANTS k1, k2, w1, w2

OneKey == {k1}
TwoKeys == {k1, k2}
TwoWorkers == {w1, w2}

RetryOnly == {"retry"}
StopAndRetry == {"stop", "retry"}
StopAndCancel == {"stop", "cancel"}

PublishFaults == {"publish"}
FinishFaults == {"db", "crash", "publish"}
AllFaults == {"republish", "redis", "db", "crash", "connection", "slow", "publish"}

\* Keys are interchangeable, and so are workers: sound for invariants and action
\* properties, not used with the liveness of Delivery_finish.
Symmetry == Permutations({k1, k2}) \union Permutations({w1, w2})
=============================================================================
