--------------------------- MODULE MCRuntimeLoop ---------------------------
(* Instances of RuntimeLoop for TLC. *)
EXTENDS RuntimeLoop, TLC

CONSTANTS t1, t2, r1, r2

OneTask == {t1}
OneRejection == {r1}
NoNames == {}
NoPoison == {}
PoisonFirst == {1}
PoisonSecond == {2}
=============================================================================
