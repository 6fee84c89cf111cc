---------------------------- MODULE MCTokenPool ----------------------------
(* Small instances of TokenPool for TLC. *)
EXTENDS TokenPool, TLC

CONSTANTS q1, q2, r1, r2, mA, mB, aA, aB

\* One agent serves both models: a switch of the model drains the run that the
\* next request would have used.
Shared == {<<mA, aA>>, <<mB, aA>>}

\* The registry may choose between two agents.
Both == {<<mA, aA>>, <<mA, aB>>}

Single == {<<mA, aA>>}

\* Requests are alike, and so are run ids.
Symm == Permutations({q1, q2}) \cup Permutations({r1, r2})
=============================================================================
