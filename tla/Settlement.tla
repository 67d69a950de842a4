----------------------------- MODULE Settlement -----------------------------
(***************************************************************************)
(* What the op pipeline of diting_runtime promises a page: every async op  *)
(* that completed is decided exactly once, in completion order.  Its       *)
(* promise is settled, or the op is lost together with the rest of a       *)
(* poisoned batch; nothing is skipped, reordered or settled twice.         *)
(* RuntimeLoop, the loop as it is coded, is shown to implement this.       *)
(***************************************************************************)
EXTENDS Naturals, Sequences, FiniteSets

CONSTANTS Ops,      \* async op calls
          BatchCap  \* most triplets one delivery may carry (BATCH_CAP)

VARIABLES done,     \* completed ops, in completion order
          outcome   \* what became of each op's promise

Outcomes == {"pending", "settled", "lost"}

TypeOK == /\ done \in Seq(Ops)
          /\ outcome \in [Ops -> Outcomes]

Decided == {o \in Ops : outcome[o] # "pending"}

\* The completed op whose turn it is.
Turn == Cardinality(Decided) + 1

Init == /\ done = <<>>
        /\ outcome = [o \in Ops |-> "pending"]

Complete(o) == /\ \A i \in 1..Len(done) : done[i] # o
               /\ done' = Append(done, o)
               /\ UNCHANGED outcome

Settle == /\ Turn <= Len(done)
          /\ outcome' = [outcome EXCEPT ![done[Turn]] = "settled"]
          /\ UNCHANGED done

\* A batch that failed too often takes its undelivered tail with it.
Lose(k) == /\ Turn + k - 1 <= Len(done)
           /\ outcome' = [o \in Ops |-> IF \E i \in Turn..(Turn + k - 1) : done[i] = o
                                        THEN "lost" ELSE outcome[o]]
           /\ UNCHANGED done

Next == \/ \E o \in Ops : Complete(o)
        \/ Settle
        \/ \E k \in 1..BatchCap : Lose(k)

Spec == Init /\ [][Next]_<<done, outcome>>
=============================================================================
