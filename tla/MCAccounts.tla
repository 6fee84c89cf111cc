----------------------------- MODULE MCAccounts -----------------------------
(* Instances of Accounts for TLC.                                          *)
EXTENDS Accounts

CONSTANTS t1, t2, t3, k1, k2

OneToken == {t1}
TwoTokens == {t1, t2}
ThreeTokens == {t1, t2, t3}
OneKey == {k1}
TwoKeys == {k1, k2}
=============================================================================
