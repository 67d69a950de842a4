--------------------------- MODULE MCSessionActor ---------------------------
(* Instances of SessionActor for TLC. *)
EXTENDS SessionActor

CONSTANTS c1, c2, p1, p2

FourCmds == {c1, c2, p1, p2}

OneAndPoll == {c1, p1}
ThreeCmds == {c1, c2, p1}
OnePoll == {p1}
TwoPolls == {p1, p2}
ActorKinds == {"navigate", "content", "state", "click", "read", "close"}
Navigations == {"navigate"}
Visits == {"state", "eval", "click"}
AtOne == [p \in {p1} |-> 1]
BothAtOne == [p \in {p1, p2} |-> 1]
OneScale == {1}
TwoScales == {1, 2}
=============================================================================
