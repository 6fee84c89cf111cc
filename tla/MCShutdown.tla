----------------------------- MODULE MCShutdown -----------------------------
(* A small instance of Shutdown for TLC.                                    *)
EXTENDS Shutdown

CONSTANTS q1, r1, r2, mA, aA

\* One agent serves the model.
Single == {<<mA, aA>>}
=============================================================================
