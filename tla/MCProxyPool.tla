---------------------------- MODULE MCProxyPool -----------------------------
(* Instances of ProxyPool for TLC.                                         *)
EXTENDS ProxyPool

CONSTANTS a, b

\* One address is added again after it was removed.
MCEntry == {<<a, 0>>, <<a, 1>>}
=============================================================================
