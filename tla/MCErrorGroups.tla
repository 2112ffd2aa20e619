--------------------------- MODULE MCErrorGroups ---------------------------
(* Instances of ErrorGroups for TLC: k1 and k2 are switched to s1 and s2. *)
EXTENDS ErrorGroups, TLC

CONSTANTS k1, k2, s1, s2, w1, w2

OneKey == {k1}
TwoKeys == {k1, k2}
OneSwitched == {k1, s1}
TwoAndOneSwitched == {k1, k2, s1}

OneWorker == {w1}
TwoWorkers == {w1, w2}

OneGroup == {{k1}, {s1}}
TwoGroups == {{k1, k2}, {s1}}

SwitchOne == k1 :> s1

NoOperations == {}
RetryOnly == {"retry"}
NoFaults == {}
PublishAndCrash == {"publish", "crash"}

Symmetry == Permutations({w1, w2})
=============================================================================
