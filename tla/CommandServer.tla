--------------------------- MODULE CommandServer ---------------------------
(***************************************************************************)
(* What a session promises the callers of its commands.  One server works  *)
(* the commands off in the order they arrived.  While it loads a page for  *)
(* the command at the head, a screenshot poll may overtake, answered with  *)
(* the old frame, or be answered without ever entering the queue.  When    *)
(* the server stops, everybody still waiting is told.                      *)
(* SessionActor, the session thread as it is coded, implements this.       *)
(***************************************************************************)
EXTENDS Naturals, Sequences, SequencesExt

CONSTANTS Cmds,  \* commands, one caller each
          Polls  \* those that are default-shape screenshot polls

VARIABLES queue,    \* commands that arrived and are not answered
          loading,  \* the head is a navigation whose load has begun
          settled,  \* commands whose caller has an answer or an error
          stopped

Init == /\ queue = <<>>
        /\ loading = FALSE
        /\ settled = {}
        /\ stopped = FALSE

Unseen(c) == c \in Cmds \ (settled \cup Range(queue))

Arrive(c) == /\ ~stopped
             /\ Unseen(c)
             /\ queue' = Append(queue, c)
             /\ UNCHANGED <<loading, settled, stopped>>

Load == /\ queue # <<>>
        /\ ~loading
        /\ loading' = TRUE
        /\ UNCHANGED <<queue, settled, stopped>>

Answer == /\ queue # <<>>
          /\ queue' = Tail(queue)
          /\ settled' = settled \cup {Head(queue)}
          /\ loading' = FALSE
          /\ UNCHANGED stopped

Overtake(i) == /\ loading
               /\ i \in 2..Len(queue)
               /\ queue[i] \in Polls
               /\ queue' = RemoveAt(queue, i)
               /\ settled' = settled \cup {queue[i]}
               /\ UNCHANGED <<loading, stopped>>

Aside(c) == /\ Unseen(c)
            /\ c \in Polls \/ stopped
            /\ settled' = settled \cup {c}
            /\ UNCHANGED <<queue, loading, stopped>>

Stop == /\ ~stopped
        /\ stopped' = TRUE
        /\ queue' = <<>>
        /\ settled' = settled \cup Range(queue)
        /\ loading' = FALSE

Next == \/ \E c \in Cmds : Arrive(c) \/ Aside(c)
        \/ \E i \in 1..Len(queue) : Overtake(i)
        \/ Load
        \/ Answer
        \/ Stop

Spec == Init /\ [][Next]_<<queue, loading, settled, stopped>>
=============================================================================
