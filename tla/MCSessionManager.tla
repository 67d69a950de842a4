-------------------------- MODULE MCSessionManager --------------------------
(***************************************************************************)
(* Small instances of SessionManager for TLC.                              *)
(***************************************************************************)
EXTENDS SessionManager, TLC

CONSTANTS c1, c2, t1, t2

\* Flag combinations a request may ask for.
Persistent    == [persistent |-> TRUE, keepalive |-> FALSE, account |-> FALSE]
Plain         == [persistent |-> FALSE, keepalive |-> FALSE, account |-> FALSE]
KeptAlive     == [persistent |-> FALSE, keepalive |-> TRUE, account |-> FALSE]
AccountBound  == [persistent |-> TRUE, keepalive |-> FALSE, account |-> TRUE]

TwoKinds == {Persistent, Plain}
AllKinds == {Persistent, Plain, KeptAlive, AccountBound}
JustPersistent == {Persistent}

\* Handlers and thread slots are interchangeable.
ThreadSymmetry == Permutations(Threads)
Symmetry == Permutations(Clients) \cup Permutations(Threads)
=============================================================================
