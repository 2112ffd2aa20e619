----------------------------- MODULE MCDispatch -----------------------------
(* Instances of Dispatch for TLC. *)
EXTENDS Dispatch, TLC

CONSTANTS d1, d2, h1, h2

OneDispatcher == {d1}
TwoDispatchers == {d1, d2}
OneRequest == {h1}
TwoRequests == {h1, h2}

\* Dispatchers are interchangeable, and so are start handlers: sound for the
\* invariants and action properties, not used with liveness.
Symmetry == Permutations({d1, d2}) \union Permutations({h1, h2})
=============================================================================
