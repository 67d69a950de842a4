----------------------------- MODULE MCAccounts -----------------------------
(* Instances of Accounts for TLC. *)
EXTENDS Accounts

CONSTANTS t1, t2, k1, k2, a, b

OneTab == {t1}
TwoTabs == {t1, t2}
NoCheck == {}
OneCheck == {k1}
TwoChecks == {k1, k2}
OneSite == {a}
TwoSites == {a, b}
=============================================================================
