---------------------------- MODULE MCRunManager ----------------------------
(* Instances of RunManager for TLC.                                        *)
EXTENDS RunManager

CONSTANTS t1, t2, t3

\* Two accounts from the start.
MCConfigured == <<t1, t2>>
=============================================================================
