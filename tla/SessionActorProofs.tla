------------------------- MODULE SessionActorProofs -------------------------
(***************************************************************************)
(* Proofs about SessionActor, for every set of commands and polls, every   *)
(* page limit, number of strikes, scale and document bound: types, frames, *)
(* element indexes, and that the thread implements CommandServer.          *)
(***************************************************************************)
EXTENDS SessionActor, SequenceTheorems, TLAPS

\* ---------------------------------------------------------------------------
\* Types.

LEMMA InitTypes == Init => TypeOK
  <1> SUFFICES ASSUME Init PROVE TypeOK
    OBVIOUS
  <1> USE SizeAssumption, NameAssumption DEF Init
  <1>1. cmd_rx \in Seq(Cmds) /\ pending_replay \in Seq(Cmds) /\ nav_deferred \in Seq(Cmds)
    OBVIOUS
  <1>2. published \in Snapshot
    BY DEF Snapshot
  <1>3. kind \in [Cmds -> AllKinds]
    BY DEF AllKinds
  <1>4. /\ element_map \in 1..MaxDocs \cup {None} /\ cleared \in 0..MaxDocs
        /\ doc \in 0..MaxDocs /\ strikes \in 0..Strikes
    OBVIOUS
  <1> QED
    BY <1>1, <1>2, <1>3, <1>4 DEF TypeOK

LEMMA CallerTypes ==
    ASSUME TypeOK, NEW c \in Cmds, AskPoll(c) \/ Peek(c) \/ Send(c) \/ \E k \in Kinds : Ask(c, k)
    PROVE TypeOK'
  <1> USE SetAssumption, NameAssumption DEF TypeOK, queueVars, pageVars, frameVars, mapVars,
          callerVars, heardVars, loadVars
  <1>1. CASE AskPoll(c)
    BY <1>1 DEF AskPoll
  <1>2. ASSUME NEW k \in Kinds, Ask(c, k)
        PROVE TypeOK'
    BY <1>2 DEF Ask
  <1>3. CASE Peek(c)
    <2>1. stage' \in [Cmds -> {"unsent", "peek", "sending", "sent"}]
      BY <1>3 DEF Peek
    <2>2. answer' \in [Cmds -> {"none", "reply", "frame", "died"}]
      BY <1>3 DEF Peek, ServeFrame
    <2>3. shown' \in [Cmds -> Snapshot \cup {None}]
      <3>1. published \in Snapshot /\ shown \in [Cmds -> Snapshot \cup {None}]
        OBVIOUS
      <3>2. shown' = [shown EXCEPT ![c] = published] \/ shown' = shown
        BY <1>3 DEF Peek, ServeFrame
      <3> HIDE DEF TypeOK
      <3> QED
        BY <3>1, <3>2
    <2> QED
      BY <1>3, <2>1, <2>2, <2>3 DEF Peek
  <1>4. CASE Send(c)
    <2>1. cmd_rx' \in Seq(Cmds)
      <3>1. cmd_rx \in Seq(Cmds)
        OBVIOUS
      <3>2. cmd_rx' = Append(cmd_rx, c) \/ cmd_rx' = cmd_rx
        BY <1>4 DEF Send
      <3> HIDE DEF TypeOK
      <3> QED
        BY <3>1, <3>2
    <2>2. answer' \in [Cmds -> {"none", "reply", "frame", "died"}]
      <3>1. answer \in [Cmds -> {"none", "reply", "frame", "died"}]
        OBVIOUS
      <3>2. answer' = [answer EXCEPT ![c] = "died"] \/ answer' = answer
        BY <1>4 DEF Send
      <3> HIDE DEF TypeOK
      <3> QED
        BY <3>1, <3>2
    <2>3. stage' = [stage EXCEPT ![c] = "sent"]
      BY <1>4 DEF Send
    <2>4. UNCHANGED <<phase, cur, open, pending_replay, nav_deferred, pageVars,
                      band_frame_cache, mapVars, pages_loaded, frameVars, kind, since,
                      shown, loadVars>>
      BY <1>4 DEF Send
    <2> QED
      BY <2>1, <2>2, <2>3, <2>4
  <1> QED
    BY <1>1, <1>2, <1>3, <1>4

LEMMA DiesTypes ==
    ASSUME TypeOK, NEW heard, Dies(heard)
    PROVE TypeOK'
  BY NameAssumption DEF TypeOK, Dies, pageVars, frameVars, mapVars, callerVars, loadVars

LEMMA TakeTypes ==
    ASSUME TypeOK, TakeReplay \/ TakeCommand
    PROVE TypeOK'
  <1>1. ASSUME NEW s \in Seq(Cmds), s # <<>>
        PROVE Head(s) \in Cmds /\ Tail(s) \in Seq(Cmds)
    BY <1>1
  <1>2. PICK c \in Cmds : Takes(c) /\ cmd_rx' \in Seq(Cmds) /\ pending_replay' \in Seq(Cmds)
    <2>1. cmd_rx \in Seq(Cmds) /\ pending_replay \in Seq(Cmds)
      BY DEF TypeOK
    <2>2. CASE TakeReplay
      BY <1>1, <2>1, <2>2 DEF TakeReplay, ReplayFirst
    <2>3. CASE TakeCommand
      BY <1>1, <2>1, <2>3 DEF TakeCommand
    <2> QED
      BY <2>2, <2>3
  <1>3. phase = "idle"
    BY DEF TakeReplay, TakeCommand, AtTop
  <1> QED
    BY <1>2, <1>3, NameAssumption
      DEF TypeOK, Takes, pageVars, frameVars, mapVars, callerVars, heardVars, loadVars

LEMMA ArmTypes ==
    ASSUME TypeOK, Read \/ ReadState \/ Paint \/ Interact \/ Refuse
    PROVE TypeOK'
  <1> USE SizeAssumption, NameAssumption DEF TypeOK, Runs, ArmDone, Reply, queueVars, frameVars,
          mapVars, callerVars, loadVars
  <1>1. CASE Read
    BY <1>1 DEF Read
  <1>2. CASE ReadState
    <2>1. strikes' \in 0..Strikes
      BY <1>2 DEF ReadState, StrikeOrNot
    <2>2. /\ phase' = "idle" /\ cur' = None /\ element_map' \in {doc, None}
          /\ answer' \in [Cmds -> {"none", "reply", "frame", "died"}]
          /\ UNCHANGED <<open, queueVars, doc, committed, landed, frameVars, callerVars,
                         loadVars, shown, band_frame_cache, hit, cleared, pages_loaded>>
      BY <1>2 DEF ReadState
    <2>3. phase = "run" /\ doc \in 1..MaxDocs
      BY <1>2 DEF ReadState
    <2> QED
      BY <2>1, <2>2, <2>3
  <1>3. CASE Paint
    BY <1>3, DprAssumption DEF Paint, Frame
  <1>4. CASE Interact
    <2> PICK k \in {"click", "input", "click_xy", "eval"} :
                 Runs(k) /\ phase = "run" /\ cur \in Cmds
      BY <1>4 DEF Interact
    <2>1. pages_loaded' \in Nat
      BY <1>4 DEF Interact
    <2>2. doc' \in 0..MaxDocs /\ doc' # 0 /\ strikes' \in 0..Strikes
      BY <1>4 DEF Interact, StrikeOrNot, Commits
    <2>3. hit' \in [Cmds -> [read : 1..MaxDocs, used : 1..MaxDocs] \cup {None}]
      <3>1. doc \in 1..MaxDocs /\ element_map \in 1..MaxDocs \cup {None}
            /\ hit \in [Cmds -> [read : 1..MaxDocs, used : 1..MaxDocs] \cup {None}]
        OBVIOUS
      <3>2. \/ hit' = hit
            \/ element_map # None
               /\ hit' = [hit EXCEPT ![cur] = [read |-> element_map, used |-> doc]]
        BY <1>4 DEF Interact
      <3> HIDE DEF TypeOK
      <3> QED
        BY <3>1, <3>2
    <2>4. /\ phase' = "idle" /\ cur' = None
          /\ answer' \in [Cmds -> {"none", "reply", "frame", "died"}]
          /\ UNCHANGED <<open, queueVars, committed, landed, frameVars, callerVars, loadVars,
                         shown, band_frame_cache, element_map, cleared>>
      BY <1>4 DEF Interact
    <2> QED
      BY <2>1, <2>2, <2>3, <2>4
  <1>5. CASE Refuse
    BY <1>5 DEF Refuse
  <1> QED
    BY <1>1, <1>2, <1>3, <1>4, <1>5

LEMMA LoadTypes ==
    ASSUME TypeOK, NEW ok \in BOOLEAN,
           BeginState \/ BeginFlag \/ Commit \/ ServeOrPark \/ EndLoad(ok) \/ Finish
    PROVE TypeOK'
  <1> USE SizeAssumption, NameAssumption DEF TypeOK, queueVars, pageVars, frameVars, mapVars,
          callerVars, heardVars, loadVars
  <1>1. CASE BeginState
    <2>1. Snap \in Snapshot
      BY DEF Snap, Snapshot
    <2>2. phase = "run" /\ phase' = "begin" /\ published' = Snap
          /\ committed' = FALSE /\ begun' = begun + 1
          /\ UNCHANGED <<cur, open, queueVars, doc, strikes, landed, band_frame_cache, mapVars,
                         pages_loaded, in_flight, callerVars, heardVars, over>>
      BY <1>1 DEF BeginState, Runs
    <2>3. published' \in Snapshot
      BY <2>1, <2>2
    <2>4. phase' = "begin" /\ cur' # None /\ cur' \in Cmds /\ doc' # 0 /\ doc' \in 0..MaxDocs
      BY <2>2
    <2>5. begun' \in Nat
      BY <2>2
    <2>6. committed' \in BOOLEAN
      BY <2>2
    <2>7. UNCHANGED <<open, queueVars, strikes, landed, band_frame_cache, mapVars,
                      pages_loaded, in_flight, callerVars, heardVars, over>>
      BY <2>2
    <2> QED
      BY <2>3, <2>4, <2>5, <2>6, <2>7
  <1>2. CASE BeginFlag
    BY <1>2 DEF BeginFlag
  <1>3. CASE Commit
    BY <1>3 DEF Commit, Loading, Commits
  <1>4. CASE ServeOrPark
    <2>0. cmd_rx' \in Seq(Cmds)
      BY <1>4 DEF ServeOrPark
    <2>1. Head(cmd_rx) \in Cmds
      BY <1>4 DEF ServeOrPark
    <2>2. nav_deferred' \in Seq(Cmds)
      <3>1. nav_deferred \in Seq(Cmds)
        OBVIOUS
      <3>2. nav_deferred' = nav_deferred \/ nav_deferred' = Append(nav_deferred, Head(cmd_rx))
        BY <1>4 DEF ServeOrPark
      <3> HIDE DEF TypeOK
      <3> QED
        BY <2>1, <3>1, <3>2
    <2>3. answer' \in [Cmds -> {"none", "reply", "frame", "died"}]
      BY <1>4, <2>1 DEF ServeOrPark, ServeFrame
    <2>4. shown' \in [Cmds -> Snapshot \cup {None}]
      <3>1. published \in Snapshot /\ shown \in [Cmds -> Snapshot \cup {None}]
        OBVIOUS
      <3>2. shown' = [shown EXCEPT ![Head(cmd_rx)] = published] \/ shown' = shown
        BY <1>4 DEF ServeOrPark, ServeFrame
      <3> HIDE DEF TypeOK
      <3> QED
        BY <2>1, <3>1, <3>2
    <2>5. UNCHANGED <<phase, cur, open, pending_replay, pageVars, band_frame_cache, mapVars,
                      pages_loaded, frameVars, callerVars, loadVars>>
      BY <1>4 DEF ServeOrPark
    <2> QED
      BY <2>0, <2>2, <2>3, <2>4, <2>5
  <1>5. CASE EndLoad(ok)
    <2>1. strikes' \in 0..Strikes
      BY <1>5 DEF EndLoad, StrikeOrNot
    <2> QED
      BY <1>5, <2>1 DEF EndLoad, Loading, Lowered
  <1>6. CASE Finish
    BY <1>6 DEF Finish, ForgetsIndexes, Reply, Replayed
  <1> QED
    BY <1>1, <1>2, <1>3, <1>4, <1>5, <1>6

LEMMA KeepsTypes == TypeOK /\ [Next]_vars => TypeOK'
  <1> SUFFICES ASSUME TypeOK, [Next]_vars PROVE TypeOK'
    OBVIOUS
  <1>1. CASE Boot
    <2>1. strikes' \in 0..Strikes
      BY <1>1, SizeAssumption DEF TypeOK, Boot, StrikeOrNot
    <2>2. /\ phase = "boot" /\ phase' = "idle" /\ doc' = 1 /\ pages_loaded' \in {0, 1}
          /\ UNCHANGED <<cur, open, cmd_rx, pending_replay, nav_deferred, committed, landed,
                         band_frame_cache, element_map, hit, cleared, in_flight, published,
                         stage, kind, since, answer, shown, begun, over>>
      BY <1>1 DEF Boot, queueVars, frameVars, mapVars, callerVars, heardVars, loadVars
    <2> QED
      BY <2>1, <2>2, SizeAssumption, NameAssumption DEF TypeOK
  <1>2. CASE Pump
    BY <1>2, SizeAssumption, NameAssumption
       DEF TypeOK, Pump, Quiet, AtTop, StruckOut, queueVars, frameVars, mapVars, callerVars,
           heardVars, loadVars
  <1>3. ASSUME NEW s \in Scales, Preview(s)
        PROVE TypeOK'
    BY <1>3, SizeAssumption, NameAssumption
       DEF TypeOK, Preview, Quiet, AtTop, Frame, queueVars, pageVars, frameVars, mapVars,
           callerVars, heardVars, loadVars
  <1>4. CASE DropRealm \/ Disconnect \/ Close \/ Panic
    <2>1. \E heard : Dies(heard)
      BY <1>4 DEF DropRealm, Disconnect, Close, Panic
    <2> QED
      BY <2>1, DiesTypes
  <1>5. CASE UNCHANGED vars
    BY <1>5 DEF TypeOK, vars, queueVars, pageVars, frameVars, mapVars, callerVars, heardVars,
                loadVars
  <1>6. ASSUME NEW c \in Cmds, AskPoll(c) \/ Peek(c) \/ Send(c) \/ \E k \in Kinds : Ask(c, k)
        PROVE TypeOK'
    BY <1>6, CallerTypes
  <1>7. CASE HangUp
    BY <1>7 DEF TypeOK, HangUp, queueVars, pageVars, frameVars, mapVars, callerVars, heardVars,
                loadVars
  <1> QED
    BY <1>1, <1>2, <1>3, <1>4, <1>5, <1>6, <1>7, TakeTypes, ArmTypes, LoadTypes
       DEF Next, Callers, Thread

\* Every variable of the session thread and its callers stays within its type, whatever
\* commands, landings, strikes and panics interleave (actor.rs, state.rs).
THEOREM ActorTypes == Spec => []TypeOK
  BY InitTypes, KeepsTypes, PTL DEF Spec

\* ---------------------------------------------------------------------------
\* Old frames.

\* The published frame is of the last load that began; while the flag is up, that load
\* is not over, and neither is it for a poll on its way to the frame.
LoadsInv ==
    /\ published.load = begun
    /\ over <= begun
    /\ phase \in {"begin", "load"} => over < begun
    /\ in_flight => over < begun
PollsInv ==
    \A c \in Cmds : /\ since[c] <= over
                    /\ stage[c] = "peek" => since[c] < begun
                    /\ stage[c] = "unsent" => shown[c] = None
Queued == \A i \in 1..Len(cmd_rx) : stage[cmd_rx[i]] # "unsent"
FrameInv == LoadsInv /\ PollsInv /\ Queued /\ ServedWhileLoading

\* What FrameInv speaks of, untouched.
FramesStay == UNCHANGED <<published, begun, over, in_flight, since, stage, shown>>

LEMMA Unframed ==
    ASSUME TypeOK, FrameInv, FramesStay,
           phase' \in {"begin", "load"} => phase \in {"begin", "load"},
           cmd_rx' = cmd_rx \/ (cmd_rx # <<>> /\ cmd_rx' = Tail(cmd_rx)) \/ cmd_rx' = <<>>
    PROVE FrameInv'
  <1>1. LoadsInv' /\ ServedWhileLoading'
    BY DEF FrameInv, FramesStay, LoadsInv, ServedWhileLoading
  <1>2. PollsInv'
    BY DEF FrameInv, FramesStay, PollsInv
  <1>3. Queued'
    <2>1. cmd_rx \in Seq(Cmds) /\ stage' = stage
      BY DEF TypeOK, FramesStay
    <2>2. CASE cmd_rx' = cmd_rx
      BY <2>1, <2>2 DEF FrameInv, Queued
    <2>3. CASE cmd_rx # <<>> /\ cmd_rx' = Tail(cmd_rx)
      BY <2>1, <2>3 DEF FrameInv, Queued
    <2>4. CASE cmd_rx' = <<>>
      BY <2>4 DEF Queued
    <2> QED
      BY <2>2, <2>3, <2>4
  <1> QED
    BY <1>1, <1>2, <1>3 DEF FrameInv

LEMMA KeepsFrames ==
    ASSUME TypeOK, FrameInv, [Next]_vars
    PROVE FrameInv'
  <1> USE NameAssumption
  <1>1. ASSUME NEW c \in Cmds, AskPoll(c)
        PROVE FrameInv'
    <2>1. /\ stage' = [stage EXCEPT ![c] = IF in_flight THEN "peek" ELSE "sending"]
          /\ since' = [since EXCEPT ![c] = over]
          /\ UNCHANGED <<published, begun, over, in_flight, shown, phase, cmd_rx>>
      BY <1>1 DEF AskPoll, queueVars, frameVars, heardVars, loadVars
    <2>2. stage[c] = "unsent"
      BY <1>1 DEF AskPoll
    <2>3. LoadsInv'
      BY <2>1 DEF FrameInv, LoadsInv
    <2>4. PollsInv'
      BY <2>1, <2>2 DEF FrameInv, PollsInv, LoadsInv, TypeOK
    <2>5. Queued'
      <3>1. \A d \in Cmds : stage'[d] = "unsent" => stage[d] = "unsent"
        BY <2>1 DEF TypeOK
      <3>2. \A i \in 1..Len(cmd_rx) : cmd_rx[i] \in Cmds
        BY DEF TypeOK
      <3>3. \A i \in 1..Len(cmd_rx) : stage[cmd_rx[i]] # "unsent"
        BY DEF FrameInv, Queued
      <3> QED
        BY <2>1, <3>1, <3>2, <3>3 DEF Queued
    <2>6. ServedWhileLoading'
      BY <2>1, <2>2 DEF FrameInv, PollsInv, ServedWhileLoading, TypeOK
    <2> QED
      BY <2>3, <2>4, <2>5, <2>6 DEF FrameInv
  <1>2. ASSUME NEW c \in Cmds, Peek(c)
        PROVE FrameInv'
    <2>1. /\ \/ stage' = [stage EXCEPT ![c] = "sent"] /\ shown' = [shown EXCEPT ![c] = published]
             \/ stage' = [stage EXCEPT ![c] = "sending"] /\ shown' = shown
          /\ UNCHANGED <<published, begun, over, in_flight, since, phase, cmd_rx>>
          /\ stage[c] = "peek"
      BY <1>2 DEF Peek, ServeFrame, queueVars, frameVars, heardVars, loadVars
    <2>2. LoadsInv'
      BY <2>1 DEF FrameInv, LoadsInv
    <2>3. PollsInv'
      BY <2>1 DEF FrameInv, PollsInv, TypeOK
    <2>4. Queued'
      <3>1. \A d \in Cmds : stage'[d] = "unsent" => stage[d] = "unsent"
        BY <2>1 DEF TypeOK
      <3>2. \A i \in 1..Len(cmd_rx) : cmd_rx[i] \in Cmds
        BY DEF TypeOK
      <3>3. \A i \in 1..Len(cmd_rx) : stage[cmd_rx[i]] # "unsent"
        BY DEF FrameInv, Queued
      <3> QED
        BY <2>1, <3>1, <3>2, <3>3 DEF Queued
    <2>5. published.load > since[c]
      BY <2>1 DEF FrameInv, PollsInv, LoadsInv, TypeOK
    <2>6. ServedWhileLoading'
      BY <2>1, <2>5 DEF FrameInv, ServedWhileLoading, TypeOK
    <2> QED
      BY <2>2, <2>3, <2>4, <2>6 DEF FrameInv
  <1>3. ASSUME NEW c \in Cmds, NEW k \in Kinds, Ask(c, k)
        PROVE FrameInv'
    <2>1. /\ stage' = [stage EXCEPT ![c] = "sending"]
          /\ UNCHANGED <<published, begun, over, in_flight, since, shown, phase, cmd_rx>>
      BY <1>3 DEF Ask, queueVars, frameVars, heardVars, loadVars
    <2> QED
      BY <2>1 DEF FrameInv, LoadsInv, PollsInv, Queued, ServedWhileLoading, TypeOK
  <1>4. ASSUME NEW c \in Cmds, Send(c)
        PROVE FrameInv'
    <2>1. /\ stage' = [stage EXCEPT ![c] = "sent"]
          /\ UNCHANGED <<published, begun, over, in_flight, since, shown, phase>>
          /\ cmd_rx' = cmd_rx \/ cmd_rx' = Append(cmd_rx, c)
      BY <1>4 DEF Send, frameVars, loadVars
    <2>2. cmd_rx \in Seq(Cmds) /\ stage \in [Cmds -> {"unsent", "peek", "sending", "sent"}]
      BY DEF TypeOK
    <2>3. Queued'
      <3>1. \A i \in 1..Len(cmd_rx') : cmd_rx'[i] = c \/ (i \in 1..Len(cmd_rx) /\ cmd_rx'[i] = cmd_rx[i])
        BY <2>1, <2>2
      <3>2. \A d \in Cmds : stage'[d] = "unsent" => stage[d] = "unsent" /\ d # c
        BY <2>1, <2>2
      <3>3. \A i \in 1..Len(cmd_rx) : cmd_rx[i] \in Cmds /\ stage[cmd_rx[i]] # "unsent"
        BY <2>2 DEF FrameInv, Queued
      <3> QED
        BY <3>1, <3>2, <3>3 DEF Queued
    <2>4. LoadsInv' /\ PollsInv' /\ ServedWhileLoading'
      BY <2>1, <2>2 DEF FrameInv, LoadsInv, PollsInv, ServedWhileLoading
    <2> QED
      BY <2>3, <2>4 DEF FrameInv
  <1>5. CASE BeginState
    <2>1. /\ published'.load = begun + 1 /\ begun' = begun + 1 /\ phase' = "begin"
          /\ UNCHANGED <<over, in_flight, since, stage, shown, cmd_rx>>
      BY <1>5 DEF BeginState, Snap, queueVars, callerVars, heardVars
    <2>2. begun \in Nat /\ over \in Nat /\ since \in [Cmds -> Nat]
      BY DEF TypeOK
    <2>3. LoadsInv'
      BY <2>1, <2>2 DEF FrameInv, LoadsInv
    <2>4. PollsInv' /\ Queued' /\ ServedWhileLoading'
      BY <2>1, <2>2 DEF FrameInv, PollsInv, Queued, ServedWhileLoading
    <2> QED
      BY <2>3, <2>4 DEF FrameInv
  <1>6. CASE BeginFlag
    BY <1>6 DEF BeginFlag, FrameInv, LoadsInv, PollsInv, Queued, ServedWhileLoading, queueVars,
                callerVars, heardVars, loadVars
  <1>7. CASE ServeOrPark
    <2> DEFINE c == Head(cmd_rx)
    <2>1. /\ shown' = [shown EXCEPT ![c] = published] \/ shown' = shown
          /\ UNCHANGED <<published, begun, over, in_flight, since, stage, phase>>
          /\ cmd_rx # <<>> /\ cmd_rx' = Tail(cmd_rx) /\ phase = "load"
      BY <1>7 DEF ServeOrPark, ServeFrame, Loading, frameVars, callerVars, heardVars, loadVars
    <2>2. cmd_rx \in Seq(Cmds) /\ c \in Cmds /\ c = cmd_rx[1] /\ 1 \in 1..Len(cmd_rx)
      BY <2>1 DEF TypeOK
    <2>3. stage[c] # "unsent"
      BY <2>2 DEF FrameInv, Queued
    <2>4. published.load > since[c]
      BY <2>1, <2>2 DEF FrameInv, LoadsInv, PollsInv, TypeOK
    <2> HIDE DEF c
    <2>5. LoadsInv'
      BY <2>1 DEF FrameInv, LoadsInv
    <2>6. PollsInv'
      BY <2>1, <2>2, <2>3 DEF FrameInv, PollsInv, TypeOK
    <2>7. Queued'
      BY <2>1, <2>2 DEF FrameInv, Queued
    <2>8. ServedWhileLoading'
      BY <2>1, <2>2, <2>4 DEF FrameInv, ServedWhileLoading, TypeOK
    <2> QED
      BY <2>5, <2>6, <2>7, <2>8 DEF FrameInv
  <1>8. ASSUME NEW ok \in BOOLEAN, EndLoad(ok)
        PROVE FrameInv'
    <2>1. /\ over' = begun /\ phase' = "landed" /\ in_flight' = FALSE
          /\ UNCHANGED <<published, begun, since, stage, shown, cmd_rx>>
      BY <1>8 DEF EndLoad, Lowered, queueVars, callerVars, heardVars
    <2> QED
      BY <2>1 DEF FrameInv, LoadsInv, PollsInv, Queued, ServedWhileLoading, TypeOK
  <1>9. CASE \/ Boot \/ TakeReplay \/ TakeCommand \/ Pump \/ HangUp \/ Read \/ ReadState
             \/ Paint \/ Interact \/ Refuse \/ Commit \/ Finish \/ \E s \in Scales : Preview(s)
    <2>1. FramesStay
      BY <1>9 DEF FramesStay, Boot, TakeReplay, TakeCommand, Takes, Pump, HangUp, Read,
                  ReadState, Paint, Interact, Refuse, Commit, Finish, Preview, ArmDone, Reply,
                  frameVars, callerVars, heardVars, loadVars
    <2>2. phase' \in {"begin", "load"} => phase \in {"begin", "load"}
      BY <1>9 DEF Boot, TakeReplay, TakeCommand, Takes, Pump, HangUp, Read, ReadState, Paint,
                  Interact, Refuse, Commit, Finish, Preview, ArmDone
    <2>3. cmd_rx' = cmd_rx \/ (cmd_rx # <<>> /\ cmd_rx' = Tail(cmd_rx))
      BY <1>9 DEF Boot, TakeReplay, TakeCommand, Pump, HangUp, Read, ReadState, Paint,
                  Interact, Refuse, Commit, Finish, Preview, ArmDone, queueVars
    <2> QED
      BY <2>1, <2>2, <2>3, Unframed
  <1>10. CASE DropRealm \/ Disconnect \/ Close \/ Panic
    <2>1. \E heard : Dies(heard)
      BY <1>10 DEF DropRealm, Disconnect, Close, Panic
    <2>2. FramesStay /\ phase' = "gone" /\ cmd_rx' = <<>>
      BY <2>1 DEF Dies, FramesStay, frameVars, callerVars, loadVars
    <2> QED
      BY <2>2, Unframed
  <1>11. CASE UNCHANGED vars
    <2>1. FramesStay /\ phase' = phase /\ cmd_rx' = cmd_rx
      BY <1>11 DEF vars, FramesStay, queueVars, frameVars, callerVars, heardVars, loadVars
    <2> QED
      BY <2>1, Unframed
  <1> QED
    BY <1>1, <1>2, <1>3, <1>4, <1>5, <1>6, <1>7, <1>8, <1>9, <1>10, <1>11
       DEF Next, Callers, Thread

\* A poll answered with an old frame was asked before that frame's load came to an end,
\* for any interleaving of the flag's two stores with the pollers' two reads
\* (NavFrameShared, nav_frame_answer).
THEOREM FramesAreServedWhileLoading == Spec => []ServedWhileLoading
  <1>1. Init => FrameInv
    BY DEF Init, FrameInv, LoadsInv, PollsInv, Queued, ServedWhileLoading
  <1>2. TypeOK /\ FrameInv /\ [Next]_vars => FrameInv'
    BY KeepsFrames
  <1>3. FrameInv => ServedWhileLoading
    BY DEF FrameInv
  <1> QED
    BY <1>1, <1>2, <1>3, ActorTypes, PTL DEF Spec

\* ---------------------------------------------------------------------------
\* Indexes.

\* The indexes are of a document that has been, and of one no older than the last landing.
MapInv == /\ cleared <= doc
          /\ element_map # None => element_map <= doc
          /\ IndexesDieAtLanding

LEMMA KeepsMap ==
    ASSUME TypeOK, MapInv, [Next]_vars
    PROVE MapInv'
  <1> USE DEF MapInv, IndexesDieAtLanding
  <1>1. CASE UNCHANGED <<doc, mapVars>>
    BY <1>1 DEF mapVars
  <1>2. CASE doc' \in Nat /\ doc <= doc' /\ UNCHANGED mapVars
    BY <1>2 DEF mapVars, TypeOK
  <1>3. CASE ReadState
    BY <1>3 DEF ReadState, TypeOK
  <1>4. CASE Interact
    <2>1. /\ UNCHANGED <<element_map, cleared>> /\ doc' \in Nat /\ doc <= doc'
          /\ \/ hit' = hit
             \/ /\ element_map # None /\ cur \in Cmds
                /\ hit' = [hit EXCEPT ![cur] = [read |-> element_map, used |-> doc]]
      <3>1. cur \in Cmds
        BY <1>4 DEF Interact, Runs, TypeOK
      <3>2. doc' \in Nat /\ doc <= doc'
        BY <1>4 DEF Interact, Commits, TypeOK
      <3> QED
        BY <1>4, <3>1, <3>2 DEF Interact
    <2>2. /\ doc \in Nat /\ cleared \in Nat
          /\ element_map # None => element_map \in Nat
      BY DEF TypeOK
    <2>3. \A c \in Cmds : hit'[c] # None => hit'[c].read <= hit'[c].used
      <3>1. CASE hit' = hit
        BY <3>1
      <3>2. CASE hit' # hit
        <4>1. element_map <= doc /\ hit' = [hit EXCEPT ![cur] = [read |-> element_map, used |-> doc]]
          BY <2>1, <3>2
        <4> QED
          BY <4>1 DEF TypeOK
      <3> QED
        BY <3>1, <3>2
    <2> QED
      BY <2>1, <2>2, <2>3
  <1>5. CASE Finish
    BY <1>5 DEF Finish, ForgetsIndexes, pageVars, TypeOK
  <1>6. CASE DropRealm \/ Disconnect \/ Close \/ Panic
    <2>1. \E heard : Dies(heard)
      BY <1>6 DEF DropRealm, Disconnect, Close, Panic
    <2> QED
      BY <1>1, <2>1 DEF Dies, pageVars
  <1>7. CASE Boot \/ Commit
    <2>1. doc' \in Nat /\ doc <= doc'
      BY <1>7 DEF Boot, Commit, Commits, TypeOK
    <2>2. UNCHANGED mapVars
      BY <1>7 DEF Boot, Commit
    <2> QED
      BY <1>2, <2>1, <2>2
  <1>8. ASSUME NEW c \in Cmds, AskPoll(c) \/ Peek(c) \/ Send(c) \/ \E k \in Kinds : Ask(c, k)
        PROVE UNCHANGED <<doc, mapVars>>
    BY <1>8 DEF AskPoll, Peek, Send, Ask, pageVars
  <1>9. ASSUME \/ TakeReplay \/ TakeCommand \/ Pump \/ HangUp \/ Read \/ Paint \/ Refuse
               \/ BeginState \/ BeginFlag \/ ServeOrPark \/ \E ok \in BOOLEAN : EndLoad(ok)
               \/ \E s \in Scales : Preview(s)
        PROVE UNCHANGED <<doc, mapVars>>
    BY <1>9 DEF TakeReplay, TakeCommand, Takes, Pump, HangUp, Read, Paint, Refuse, BeginState,
                BeginFlag, ServeOrPark, EndLoad, Preview, ArmDone, pageVars
  <1>10. CASE UNCHANGED vars
    BY <1>10, <1>1 DEF vars, pageVars
  <1> HIDE DEF MapInv
  <1> QED
    BY <1>1, <1>3, <1>4, <1>5, <1>6, <1>7, <1>8, <1>9, <1>10 DEF Next, Callers, Thread

\* No index read before a load that was answered with Ok is used after it, however many
\* navigations of the page's own lie in between (the Navigate and SetContent arms).
THEOREM IndexesAreForgotten == Spec => []IndexesDieAtLanding
  <1>1. Init => MapInv
    BY DEF Init, MapInv, IndexesDieAtLanding
  <1>2. TypeOK /\ MapInv /\ [Next]_vars => MapInv'
    BY KeepsMap
  <1>3. MapInv => IndexesDieAtLanding
    BY DEF MapInv
  <1> QED
    BY <1>1, <1>2, <1>3, ActorTypes, PTL DEF Spec

\* ---------------------------------------------------------------------------
\* Arrival order: SessionActor implements CommandServer.

\* Only a load has anything parked; whoever waits in the thread or was answered
\* has sent; only polls look at the snapshot.
OrderInv == /\ phase \notin {"load", "landed"} => nav_deferred = <<>>
            /\ \A c \in Cmds : c \in Waiting \/ Answered(c) => stage[c] = "sent"
            /\ \A c \in Cmds : stage[c] = "peek" => c \in Polls

LEMMA EmptyRange == Range(<<>>) = {}
  BY DEF Range

LEMMA SingleRange ==
    ASSUME NEW c
    PROVE Range(<<c>>) = {c}
  BY DEF Range

LEMMA JoinRange ==
    ASSUME NEW s \in Seq(Cmds), NEW t \in Seq(Cmds)
    PROVE s \o t \in Seq(Cmds) /\ Range(s \o t) = Range(s) \cup Range(t)
  <1>1. s \o t \in Seq(Cmds)
    BY ConcatProperties
  <1>2. Range(s \o t) = Range(s) \cup Range(t)
    BY ONLY s \in Seq(Cmds), t \in Seq(Cmds), RangeConcatenation
  <1> QED
    BY <1>1, <1>2

LEMMA AppendRange ==
    ASSUME NEW s \in Seq(Cmds), NEW c \in Cmds
    PROVE Range(Append(s, c)) = Range(s) \cup {c}
  <1>1. Append(s, c) = s \o <<c>> /\ <<c>> \in Seq(Cmds)
    BY AppendIsConcat
  <1>2. Range(s \o <<c>>) = Range(s) \cup Range(<<c>>)
    BY <1>1, JoinRange
  <1> QED
    BY <1>1, <1>2, SingleRange

LEMMA HeadRange ==
    ASSUME NEW s \in Seq(Cmds), s # <<>>
    PROVE /\ Head(s) \in Cmds /\ Tail(s) \in Seq(Cmds)
          /\ s = <<Head(s)>> \o Tail(s)
          /\ Range(s) = {Head(s)} \cup Range(Tail(s))
  <1>1. Head(s) \in Cmds /\ Tail(s) \in Seq(Cmds) /\ <<Head(s)>> \in Seq(Cmds)
    BY HeadTailProperties
  <1>2. s = <<Head(s)>> \o Tail(s)
    <2>1. /\ Len(<<Head(s)>> \o Tail(s)) = 1 + Len(Tail(s))
          /\ <<Head(s)>> \o Tail(s) \in Seq(Cmds)
          /\ \A i \in 1..(1 + Len(Tail(s))) :
                 (<<Head(s)>> \o Tail(s))[i] = IF i <= 1 THEN Head(s) ELSE Tail(s)[i - 1]
      BY <1>1, ConcatProperties
    <2>2. /\ Len(Tail(s)) = Len(s) - 1 /\ Len(s) \in Nat
          /\ \A i \in 1..Len(Tail(s)) : Tail(s)[i] = s[i + 1]
      BY HeadTailProperties, LenProperties
    <2>3. \A i \in 1..Len(s) : (<<Head(s)>> \o Tail(s))[i] = s[i]
      <3> SUFFICES ASSUME NEW i \in 1..Len(s) PROVE (<<Head(s)>> \o Tail(s))[i] = s[i]
        OBVIOUS
      <3>1. CASE i = 1
        BY <2>1, <2>2, <3>1
      <3>2. CASE i # 1
        <4>1. i - 1 \in 1..Len(Tail(s)) /\ i - 1 + 1 = i
          BY <2>2, <3>2
        <4> QED
          BY <2>1, <2>2, <3>2, <4>1
      <3> QED
        BY <3>1, <3>2
    <2> QED
      BY <2>1, <2>2, <2>3, SeqEqual
  <1> QED
    BY <1>1, <1>2, JoinRange, SingleRange

LEMMA LineParts ==
    ASSUME TypeOK
    PROVE /\ InArm \in Seq(Cmds) /\ Line \in Seq(Cmds)
          /\ cmd_rx \in Seq(Cmds) /\ pending_replay \in Seq(Cmds) /\ nav_deferred \in Seq(Cmds)
          /\ InArm \o pending_replay \in Seq(Cmds)
          /\ InArm \o pending_replay \o nav_deferred \in Seq(Cmds)
          /\ Line = InArm \o pending_replay \o nav_deferred \o cmd_rx
  <1>1. /\ cmd_rx \in Seq(Cmds) /\ pending_replay \in Seq(Cmds) /\ nav_deferred \in Seq(Cmds)
        /\ cur \in Cmds \cup {None}
    BY DEF TypeOK
  <1>2. InArm \in Seq(Cmds)
    BY <1>1 DEF InArm
  <1> QED
    BY <1>1, <1>2, ConcatProperties DEF Line

\* Whoever stands in the line waits in the thread.
LEMMA LineRange ==
    ASSUME TypeOK
    PROVE Range(Line) = Waiting
  <1>1. Range(InArm) = {cur} \ {None}
    BY EmptyRange, SingleRange DEF InArm
  <1>2. /\ Range(InArm \o pending_replay) = Range(InArm) \cup Range(pending_replay)
        /\ Range(InArm \o pending_replay \o nav_deferred)
             = Range(InArm \o pending_replay) \cup Range(nav_deferred)
        /\ Range(Line) = Range(InArm \o pending_replay \o nav_deferred) \cup Range(cmd_rx)
    BY LineParts, JoinRange
  <1> QED
    BY <1>1, <1>2, Zenon DEF Waiting

\* What the steps do to the line.
LEMMA FirstOfJoin ==
    ASSUME NEW c \in Cmds, NEW r \in Seq(Cmds)
    PROVE <<c>> \o r # <<>> /\ Head(<<c>> \o r) = c /\ Tail(<<c>> \o r) = r
  <1> DEFINE s == <<c>> \o r
  <1>1. /\ s \in Seq(Cmds) /\ Len(s) = 1 + Len(r) /\ Len(r) \in Nat
        /\ \A i \in 1..(1 + Len(r)) : s[i] = IF i <= 1 THEN c ELSE r[i - 1]
    BY ConcatProperties, LenProperties
  <1>2. s # <<>>
    BY <1>1, EmptySeq
  <1> HIDE DEF s
  <1>3. /\ Head(s) = s[1] /\ Tail(s) \in Seq(Cmds) /\ Len(Tail(s)) = Len(s) - 1
        /\ \A i \in 1..Len(Tail(s)) : Tail(s)[i] = s[i + 1]
    BY <1>1, <1>2, HeadTailProperties
  <1>4. Tail(s) = r
    <2>1. \A i \in 1..Len(Tail(s)) : Tail(s)[i] = r[i]
      BY <1>1, <1>3
    <2> QED
      BY <1>1, <1>3, <2>1, SeqEqual
  <1> QED
    BY <1>1, <1>2, <1>3, <1>4 DEF s

\* The head of the second part moves into the first, which is empty.
LEMMA HeadMovesUp ==
    ASSUME NEW p \in Seq(Cmds), NEW n \in Seq(Cmds), NEW r \in Seq(Cmds), p # <<>>
    PROVE <<Head(p)>> \o Tail(p) \o n \o r = <<>> \o p \o n \o r
  <1>1. <<>> \o p = p /\ <<Head(p)>> \o Tail(p) = p
    BY ConcatEmptySeq, HeadRange
  <1> QED
    BY <1>1

\* The head of the last part moves to the end of the one before.
LEMMA HeadMovesOver ==
    ASSUME NEW s \in Seq(Cmds), NEW n \in Seq(Cmds), NEW r \in Seq(Cmds), r # <<>>
    PROVE s \o Append(n, Head(r)) \o Tail(r) = s \o n \o r
  <1>1. /\ Head(r) \in Cmds /\ Tail(r) \in Seq(Cmds) /\ <<Head(r)>> \in Seq(Cmds)
        /\ r = <<Head(r)>> \o Tail(r) /\ s \o n \in Seq(Cmds)
    <2>1. /\ Head(r) \in Cmds /\ Tail(r) \in Seq(Cmds) /\ <<Head(r)>> \in Seq(Cmds)
          /\ r = <<Head(r)>> \o Tail(r)
      BY HeadRange
    <2>2. s \o n \in Seq(Cmds)
      BY ConcatProperties
    <2> QED
      BY <2>1, <2>2
  <1>2. Append(n, Head(r)) = n \o <<Head(r)>>
    BY <1>1, AppendIsConcat
  <1>3. s \o (n \o <<Head(r)>>) = s \o n \o <<Head(r)>>
    BY <1>1, ConcatAssociative
  <1>4. s \o n \o <<Head(r)>> \o Tail(r) = s \o n \o (<<Head(r)>> \o Tail(r))
    BY <1>1, ConcatAssociative
  <1>5. s \o Append(n, Head(r)) \o Tail(r) = s \o n \o (<<Head(r)>> \o Tail(r))
    BY <1>2, <1>3, <1>4, Zenon
  <1> QED
    BY <1>1, <1>5, Zenon

\* A command that arrives in the last part arrives at the end of the line.
LEMMA JoinsAtTheEnd ==
    ASSUME NEW s \in Seq(Cmds), NEW r \in Seq(Cmds), NEW c \in Cmds
    PROVE s \o Append(r, c) = Append(s \o r, c)
  <1>1. s \o r \in Seq(Cmds) /\ <<c>> \in Seq(Cmds)
    BY JoinRange
  <1>2. Append(r, c) = r \o <<c>> /\ Append(s \o r, c) = s \o r \o <<c>>
    BY <1>1, AppendIsConcat
  <1>3. s \o r \o <<c>> = s \o (r \o <<c>>)
    BY <1>1, ConcatAssociative
  <1> QED
    BY <1>2, <1>3

\* The head of the last part is the one that is taken out of the line.
LEMMA HeadIsTakenOut ==
    ASSUME NEW s \in Seq(Cmds), NEW r \in Seq(Cmds), r # <<>>
    PROVE /\ Len(s) + 1 \in 1..Len(s \o r)
          /\ (s \o r)[Len(s) + 1] = Head(r)
          /\ RemoveAt(s \o r, Len(s) + 1) = s \o Tail(r)
  <1> DEFINE q == s \o r
             k == Len(s)
             front == SubSeq(q, 1, (k + 1) - 1)
             back == SubSeq(q, k + 1 + 1, Len(q))
  <1>1. /\ q \in Seq(Cmds) /\ Len(q) = k + Len(r) /\ k \in Nat /\ Len(r) \in Nat \ {0}
        /\ \A i \in 1..(k + Len(r)) : q[i] = IF i <= k THEN s[i] ELSE r[i - k]
        /\ \A i \in 1..Len(q) : q[i] \in Cmds
    BY ConcatProperties, LenProperties, EmptySeq, ElementOfSeq
  <1>2. /\ Head(r) = r[1] /\ Tail(r) \in Seq(Cmds) /\ Len(Tail(r)) = Len(r) - 1
        /\ \A i \in 1..Len(Tail(r)) : Tail(r)[i] = r[i + 1]
    BY HeadTailProperties
  <1> HIDE DEF q, k
  <1>3. front = s
    <2>1. \A i \in 1..k : q[i] \in Cmds
      BY <1>1
    <2>2. /\ (k + 1) - 1 = k /\ SubSeq(q, 1, k) \in Seq(Cmds)
          /\ Len(SubSeq(q, 1, k)) = IF 1 <= k THEN k - 1 + 1 ELSE 0
          /\ \A i \in 1..(k - 1 + 1) : SubSeq(q, 1, k)[i] = q[1 + i - 1]
      BY <1>1, <2>1, SubSeqProperties
    <2>3. Len(SubSeq(q, 1, k)) = k /\ \A i \in 1..k : SubSeq(q, 1, k)[i] = s[i]
      BY <1>1, <2>2
    <2> QED
      BY <1>1, <2>2, <2>3, SeqEqual DEF k
  <1>4. back = Tail(r)
    <2>1. /\ k + 1 + 1 = k + 2
          /\ \A i \in (k + 2)..Len(q) : q[i] \in Cmds
      BY <1>1
    <2>2. /\ SubSeq(q, k + 2, Len(q)) \in Seq(Cmds)
          /\ Len(SubSeq(q, k + 2, Len(q))) = IF k + 2 <= Len(q) THEN Len(q) - (k + 2) + 1 ELSE 0
          /\ \A i \in 1..(Len(q) - (k + 2) + 1) : SubSeq(q, k + 2, Len(q))[i] = q[k + 2 + i - 1]
      BY <1>1, <2>1, SubSeqProperties
    <2>3. /\ Len(SubSeq(q, k + 2, Len(q))) = Len(Tail(r))
          /\ \A i \in 1..Len(Tail(r)) : SubSeq(q, k + 2, Len(q))[i] = Tail(r)[i]
      <3>1. Len(SubSeq(q, k + 2, Len(q))) = Len(Tail(r))
        BY <1>1, <1>2, <2>2
      <3>2. ASSUME NEW i \in 1..Len(Tail(r))
            PROVE SubSeq(q, k + 2, Len(q))[i] = Tail(r)[i]
        <4>1. /\ i \in 1..(Len(q) - (k + 2) + 1) /\ k + 2 + i - 1 = k + (i + 1)
              /\ k + (i + 1) \in 1..(k + Len(r)) /\ ~(k + (i + 1) <= k)
              /\ k + (i + 1) - k = i + 1
          BY <1>1, <1>2
        <4>2. SubSeq(q, k + 2, Len(q))[i] = q[k + (i + 1)]
          BY <2>2, <4>1
        <4>3. q[k + (i + 1)] = r[i + 1]
          BY <1>1, <4>1
        <4> QED
          BY <1>2, <4>2, <4>3
      <3> QED
        BY <3>1, <3>2
    <2> QED
      BY <1>2, <2>1, <2>2, <2>3, SeqEqual
  <1>5. q[k + 1] = Head(r) /\ k + 1 \in 1..Len(q)
    BY <1>1, <1>2
  <1>6. RemoveAt(q, k + 1) = front \o back
    BY Zenon DEF RemoveAt
  <1>7. Len(s) + 1 \in 1..Len(s \o r) /\ (s \o r)[Len(s) + 1] = Head(r)
    BY <1>5 DEF q, k
  <1>8. RemoveAt(q, k + 1) = s \o Tail(r)
    BY <1>3, <1>4, <1>6, Zenon
  <1> QED
    BY <1>7, <1>8 DEF q, k

\* ---------------------------------------------------------------------------
\* What each step means to the server.

Unmoved == UNCHANGED <<Line, LoadBegun, Heard, phase = "gone">>

LEMMA ServerRange == Server!Range(Line) = Range(Line)
  BY DEF Server!Range, Range

LEMMA AnswerIsHeard ==
    ASSUME TypeOK, NEW c \in Cmds, NEW a, a # "none", answer' = [answer EXCEPT ![c] = a]
    PROVE Heard' = Heard \cup {c}
  <1>1. answer \in [Cmds -> {"none", "reply", "frame", "died"}]
    BY DEF TypeOK
  <1> QED
    BY <1>1 DEF Heard, Answered

\* A caller that has not sent yet is neither in the line nor answered.
LEMMA NotSentIsUnseen ==
    ASSUME TypeOK, OrderInv, NEW c \in Cmds, stage[c] # "sent"
    PROVE Server!Unseen(c)
  <1>1. c \notin Waiting /\ ~Answered(c)
    BY DEF OrderInv
  <1>2. c \notin Range(Line)
    BY <1>1, LineRange
  <1> QED
    BY <1>1, <1>2, ServerRange DEF Server!Unseen, Heard

LEMMA SendIsArrival ==
    ASSUME TypeOK, OrderInv, NEW c \in Cmds, Send(c)
    PROVE Server!Arrive(c) \/ Server!Aside(c)
  <1>1. Server!Unseen(c)
    BY NotSentIsUnseen DEF Send
  <1>2. UNCHANGED <<phase, cur, kind, pending_replay, nav_deferred>>
    BY DEF Send
  <1>3. UNCHANGED <<LoadBegun, InArm, phase = "gone">>
    BY <1>2 DEF LoadBegun, InArm
  <1>4. CASE phase # "gone" /\ cmd_rx' = Append(cmd_rx, c) /\ answer' = answer
    <2>1. Line' = Append(Line, c)
      BY <1>2, <1>3, <1>4, LineParts, JoinsAtTheEnd DEF Line
    <2>2. Heard' = Heard
      BY <1>4 DEF Heard, Answered
    <2> QED
      BY <1>1, <1>3, <1>4, <2>1, <2>2 DEF Server!Arrive
  <1>5. CASE phase = "gone" /\ answer' = [answer EXCEPT ![c] = "died"] /\ cmd_rx' = cmd_rx
    <2>1. Line' = Line
      BY <1>2, <1>3, <1>5 DEF Line
    <2>2. Heard' = Heard \cup {c}
      BY <1>5, AnswerIsHeard
    <2> QED
      BY <1>1, <1>3, <1>5, <2>1, <2>2 DEF Server!Aside
  <1> QED
    BY <1>4, <1>5 DEF Send

LEMMA PeekIsAside ==
    ASSUME TypeOK, OrderInv, NEW c \in Cmds, Peek(c)
    PROVE Server!Aside(c) \/ Unmoved
  <1>1. Server!Unseen(c) /\ c \in Polls
    BY NotSentIsUnseen DEF Peek, OrderInv
  <1>2. UNCHANGED <<phase, cur, kind, pending_replay, nav_deferred, cmd_rx>>
    BY DEF Peek, queueVars
  <1>3. UNCHANGED <<LoadBegun, Line, phase = "gone">>
    BY <1>2 DEF LoadBegun, InArm, Line
  <1>4. CASE ServeFrame(c)
    <2>1. Heard' = Heard \cup {c}
      BY <1>4, AnswerIsHeard DEF ServeFrame
    <2> QED
      BY <1>1, <1>3, <2>1 DEF Server!Aside
  <1>5. CASE UNCHANGED heardVars
    BY <1>3, <1>5 DEF Unmoved, Heard, Answered, heardVars
  <1> QED
    BY <1>4, <1>5 DEF Peek

\* The end of an arm, a navigation's with its replay included.
LEMMA ArmAnswersHead ==
    ASSUME TypeOK, cur # None, cur' = None, phase' = "idle", Reply(cur), cmd_rx' = cmd_rx,
           \/ UNCHANGED <<pending_replay, nav_deferred>>
           \/ pending_replay' = Replayed /\ nav_deferred' = <<>>
    PROVE Server!Answer
  <1> DEFINE rest == pending_replay \o nav_deferred \o cmd_rx
  <1>1. /\ pending_replay \in Seq(Cmds) /\ nav_deferred \in Seq(Cmds) /\ cmd_rx \in Seq(Cmds)
        /\ cur \in Cmds /\ phase # "gone" /\ pending_replay \o nav_deferred \in Seq(Cmds)
        /\ rest \in Seq(Cmds) /\ <<cur>> \in Seq(Cmds) /\ <<>> \in Seq(Cmds)
    BY ConcatProperties DEF TypeOK
  <1>2. Line = <<cur>> \o rest
    <2>1. Line = <<cur>> \o pending_replay \o nav_deferred \o cmd_rx
      BY DEF Line, InArm
    <2>2. /\ <<cur>> \o pending_replay \in Seq(Cmds)
          /\ <<cur>> \o pending_replay \o nav_deferred = <<cur>> \o (pending_replay \o nav_deferred)
      BY <1>1, ConcatProperties, ConcatAssociative
    <2>3. <<cur>> \o (pending_replay \o nav_deferred) \o cmd_rx = <<cur>> \o rest
      BY <1>1, ConcatAssociative
    <2> QED
      BY <2>1, <2>2, <2>3
  <1>3. Line' = rest
    <2>1. CASE UNCHANGED <<pending_replay, nav_deferred>>
      <3>1. Line' = <<>> \o pending_replay \o nav_deferred \o cmd_rx
        BY <2>1 DEF Line, InArm
      <3> QED
        BY <1>1, <3>1, ConcatEmptySeq
    <2>2. CASE pending_replay' = Replayed /\ nav_deferred' = <<>>
      <3>1. Line' = <<>> \o (pending_replay \o nav_deferred) \o <<>> \o cmd_rx
        BY <2>2 DEF Line, InArm, Replayed
      <3> QED
        BY <1>1, <3>1, ConcatEmptySeq
    <2> QED
      BY <2>1, <2>2
  <1> HIDE DEF rest
  <1>4. Line # <<>> /\ Head(Line) = cur /\ Tail(Line) = rest
    BY <1>1, <1>2, FirstOfJoin
  <1>5. Heard' = Heard \cup {cur}
    BY <1>1, AnswerIsHeard DEF Reply
  <1>6. LoadBegun' = FALSE /\ (phase = "gone")' = (phase = "gone")
    BY <1>1 DEF LoadBegun
  <1> QED
    BY <1>3, <1>4, <1>5, <1>6 DEF Server!Answer

\* The thread's end, whatever ends it.
LEMMA DeathIsStop ==
    ASSUME TypeOK, phase # "gone", NEW heard \in SUBSET Waiting, Dies(heard)
    PROVE Server!Stop
  <1>1. Line' = <<>>
    <2>1. /\ cur' = None /\ cmd_rx' = <<>> /\ pending_replay' = <<>> /\ nav_deferred' = <<>>
          /\ <<>> \in Seq(Cmds)
      BY DEF Dies
    <2>2. Line' = <<>> \o <<>> \o <<>> \o <<>>
      BY <2>1 DEF Line, InArm
    <2> QED
      BY <2>1, <2>2, ConcatEmptySeq
  <1>2. Heard' = Heard \cup Range(Line)
    <2>1. answer' = [c \in Cmds |-> IF c \in heard THEN "reply"
                                    ELSE IF c \in Waiting THEN "died" ELSE answer[c]]
      BY DEF Dies
    <2>2. Heard' = Heard \cup (Waiting \cap Cmds)
      BY <2>1 DEF Heard, Answered
    <2>3. Range(Line) \subseteq Cmds
      BY LineParts, RangeOfSeq
    <2> QED
      BY <2>2, <2>3, LineRange
  <1>3. phase' = "gone" /\ LoadBegun' = FALSE
    BY DEF Dies, LoadBegun
  <1> QED
    BY <1>1, <1>2, <1>3, ServerRange DEF Server!Stop

\* A poll that the Navigate arm answers with the old frame.
LEMMA ServeIsOvertake ==
    ASSUME TypeOK, ServeOrPark
    PROVE (\E i \in 1..Len(Line) : Server!Overtake(i)) \/ Unmoved
  <1> DEFINE ahead == InArm \o pending_replay \o nav_deferred
             c == Head(cmd_rx)
  <1>1. /\ phase = "load" /\ kind[cur] = "navigate" /\ cur # None /\ cmd_rx # <<>>
        /\ cmd_rx \in Seq(Cmds) /\ nav_deferred \in Seq(Cmds) /\ c \in Cmds
        /\ cmd_rx' = Tail(cmd_rx) /\ UNCHANGED <<phase, cur, kind, pending_replay>>
    <2>1. /\ phase = "load" /\ kind[cur] = "navigate" /\ cmd_rx # <<>> /\ cmd_rx' = Tail(cmd_rx)
          /\ UNCHANGED <<phase, cur, kind, pending_replay>>
      BY DEF ServeOrPark, Loading, callerVars
    <2>2. cmd_rx \in Seq(Cmds) /\ nav_deferred \in Seq(Cmds) /\ cur # None
      BY <2>1 DEF TypeOK
    <2> QED
      BY <2>1, <2>2, HeadTailProperties
  <1>2. UNCHANGED <<LoadBegun, InArm, phase = "gone">> /\ LoadBegun
    BY <1>1 DEF LoadBegun, InArm
  <1>3. ahead \in Seq(Cmds) /\ InArm \o pending_replay \in Seq(Cmds) /\ Line = ahead \o cmd_rx
    BY LineParts
  <1>4. CASE ServesOldFrame(c) /\ ServeFrame(c) /\ UNCHANGED nav_deferred
    <2>1. Len(ahead) \in Nat \ {0}
      <3>1. InArm = <<cur>> /\ cur \in Cmds /\ pending_replay \in Seq(Cmds)
        BY <1>1 DEF InArm, TypeOK
      <3>2. Len(InArm) = 1 /\ InArm \in Seq(Cmds)
        BY <3>1
      <3>3. /\ Len(InArm \o pending_replay) = 1 + Len(pending_replay)
            /\ Len(ahead) = Len(InArm \o pending_replay) + Len(nav_deferred)
        BY <1>1, <1>3, <3>1, <3>2, ConcatProperties
      <3> QED
        BY <1>1, <3>1, <3>3, LenProperties
    <2>2. /\ Len(ahead) + 1 \in 1..Len(Line) /\ Line[Len(ahead) + 1] = c
          /\ RemoveAt(Line, Len(ahead) + 1) = ahead \o Tail(cmd_rx)
      BY <1>1, <1>3, HeadIsTakenOut
    <2>3. Line' = ahead \o Tail(cmd_rx)
      BY <1>1, <1>2, <1>4 DEF Line
    <2>4. Heard' = Heard \cup {c} /\ c \in Polls
      BY <1>1, <1>4, AnswerIsHeard DEF ServeFrame, ServesOldFrame
    <2>5. Server!RemoveAt(Line, Len(ahead) + 1) = RemoveAt(Line, Len(ahead) + 1)
      BY Zenon DEF Server!RemoveAt, RemoveAt
    <2> HIDE DEF ahead, c
    <2>6. Len(ahead) + 1 \in 2..Len(Line)
      BY <2>1, <2>2
    <2>7. Server!Overtake(Len(ahead) + 1)
      BY <1>2, <2>2, <2>3, <2>4, <2>5, <2>6, Zenon DEF Server!Overtake
    <2> QED
      BY <2>2, <2>7
  <1>5. CASE nav_deferred' = Append(nav_deferred, c) /\ UNCHANGED heardVars
    <2>1. ahead' = InArm \o pending_replay \o Append(nav_deferred, c)
      BY <1>1, <1>2, <1>5
    <2>2. InArm \o pending_replay \o Append(nav_deferred, c) \o Tail(cmd_rx) = Line
      <3> DEFINE s == InArm \o pending_replay
      <3>1. s \in Seq(Cmds) /\ nav_deferred \in Seq(Cmds) /\ cmd_rx \in Seq(Cmds) /\ cmd_rx # <<>>
        BY <1>1, <1>3
      <3>2. Line = s \o nav_deferred \o cmd_rx
        BY DEF Line
      <3> HIDE DEF s
      <3>3. s \o Append(nav_deferred, c) \o Tail(cmd_rx) = s \o nav_deferred \o cmd_rx
        BY <3>1, HeadMovesOver
      <3> QED
        BY <3>2, <3>3 DEF s
    <2>3. Line' = Line
      BY <1>1, <2>1, <2>2 DEF Line
    <2> QED
      BY <1>2, <1>5, <2>3 DEF Unmoved, Heard, Answered, heardVars
  <1> QED
    BY <1>4, <1>5 DEF ServeOrPark

\* Taking the next command does not change who stands where.
LEMMA TakeKeepsLine ==
    ASSUME TypeOK, OrderInv, TakeReplay \/ TakeCommand
    PROVE Unmoved
  <1>1. /\ phase = "idle" /\ cur = None /\ nav_deferred = <<>>
        /\ pending_replay \in Seq(Cmds) /\ cmd_rx \in Seq(Cmds) /\ <<>> \in Seq(Cmds)
    BY DEF TypeOK, OrderInv, TakeReplay, TakeCommand, AtTop
  <1>2. phase' = "run" /\ UNCHANGED <<nav_deferred, heardVars>>
    BY DEF TakeReplay, TakeCommand, Takes
  <1>3. Line = <<>> \o pending_replay \o <<>> \o cmd_rx
    BY <1>1 DEF Line, InArm
  <1>4. UNCHANGED <<LoadBegun, Heard, phase = "gone">>
    BY <1>1, <1>2 DEF LoadBegun, Heard, Answered, heardVars
  <1>5. CASE TakeReplay
    <2>1. /\ pending_replay # <<>> /\ cur' = Head(pending_replay)
          /\ pending_replay' = Tail(pending_replay) /\ cmd_rx' = cmd_rx
      BY <1>5 DEF TakeReplay, ReplayFirst, Takes
    <2>2. Head(pending_replay) \in Cmds
      BY <1>1, <2>1, HeadTailProperties
    <2>3. Line' = <<Head(pending_replay)>> \o Tail(pending_replay) \o <<>> \o cmd_rx
      BY <1>1, <1>2, <2>1, <2>2, NameAssumption DEF Line, InArm
    <2> QED
      BY <1>1, <1>3, <1>4, <2>1, <2>3, HeadMovesUp DEF Unmoved
  <1>6. CASE TakeCommand
    <2>1. /\ pending_replay = <<>> /\ pending_replay' = <<>> /\ cmd_rx # <<>>
          /\ cur' = Head(cmd_rx) /\ cmd_rx' = Tail(cmd_rx)
      BY <1>6 DEF TakeCommand, ReplayFirst, Takes
    <2>2. Head(cmd_rx) \in Cmds /\ <<Head(cmd_rx)>> \in Seq(Cmds)
          /\ cmd_rx = <<Head(cmd_rx)>> \o Tail(cmd_rx)
      BY <1>1, <2>1, HeadRange
    <2>3. Line' = <<Head(cmd_rx)>> \o <<>> \o <<>> \o Tail(cmd_rx)
      BY <1>1, <1>2, <2>1, <2>2, NameAssumption DEF Line, InArm
    <2>4. Line' = cmd_rx
      BY <2>2, <2>3, ConcatEmptySeq
    <2>5. Line = cmd_rx
      BY <1>1, <1>3, <2>1, ConcatEmptySeq
    <2> QED
      BY <1>4, <2>4, <2>5 DEF Unmoved
  <1> QED
    BY <1>5, <1>6

\* Somebody in the arm is somebody in the line.
LEMMA BusyLine ==
    ASSUME TypeOK, cur # None
    PROVE Line # <<>>
  BY LineRange, EmptyRange DEF Waiting

\* The steps that leave the line, the load and the answers alone.
LEMMA StillIsUnmoved ==
    ASSUME TypeOK, OrderInv,
           \/ Boot \/ Pump \/ BeginState \/ Commit \/ HangUp \/ \E ok \in BOOLEAN : EndLoad(ok)
           \/ \E s \in Scales : Preview(s)
           \/ \E c \in Cmds : AskPoll(c) \/ \E k \in Kinds : Ask(c, k)
           \/ UNCHANGED vars
    PROVE Unmoved
  <1> DEFINE Still == UNCHANGED <<cur, cmd_rx, pending_replay, nav_deferred, answer>>
  <1>1. ASSUME Still, LoadBegun' = LoadBegun, (phase = "gone")' = (phase = "gone")
        PROVE Unmoved
    BY <1>1 DEF Unmoved, Line, InArm, Heard, Answered
  <1>2. CASE Boot \/ Pump \/ BeginState \/ Commit \/ HangUp
    <2>1. Still /\ kind' = kind
      BY <1>2 DEF Boot, Pump, BeginState, Commit, HangUp, queueVars, callerVars, heardVars
    <2>2. phase' = phase \/ (phase = "boot" /\ phase' = "idle") \/ (phase = "run" /\ phase' = "begin")
      BY <1>2 DEF Boot, Pump, BeginState, Commit, HangUp, Runs
    <2> QED
      BY <1>1, <2>1, <2>2 DEF LoadBegun
  <1>3. ASSUME NEW ok \in BOOLEAN, EndLoad(ok)
        PROVE Unmoved
    <2>1. Still /\ kind' = kind /\ phase = "load" /\ phase' = "landed"
      BY <1>3 DEF EndLoad, Loading, queueVars, callerVars, heardVars
    <2> QED
      BY <1>1, <2>1 DEF LoadBegun
  <1>4. ASSUME NEW s \in Scales, Preview(s)
        PROVE Unmoved
    <2>1. Still /\ kind' = kind /\ phase' = phase
      BY <1>4 DEF Preview, queueVars, callerVars, heardVars
    <2> QED
      BY <1>1, <2>1 DEF LoadBegun
  <1>5. ASSUME NEW c \in Cmds, AskPoll(c)
        PROVE Unmoved
    <2>1. Still /\ kind' = kind /\ phase' = phase
      BY <1>5 DEF AskPoll, queueVars, heardVars
    <2> QED
      BY <1>1, <2>1 DEF LoadBegun
  <1>6. ASSUME NEW c \in Cmds, NEW k \in Kinds, Ask(c, k)
        PROVE Unmoved
    <2>1. /\ Still /\ phase' = phase /\ stage[c] = "unsent"
          /\ kind' = [kind EXCEPT ![c] = k]
      BY <1>6 DEF Ask, queueVars, heardVars
    <2>2. kind \in [Cmds -> AllKinds] /\ (phase \in {"load", "landed"} => cur # None /\ cur \in Cmds)
      BY DEF TypeOK
    <2>3. cur # None => cur # c
      BY <2>1 DEF OrderInv, Waiting
    <2>4. phase \in {"load", "landed"} => kind'[cur] = kind[cur]
      BY <2>1, <2>2, <2>3
    <2> QED
      BY <1>1, <2>1, <2>4 DEF LoadBegun
  <1>7. CASE UNCHANGED vars
    <2>1. Still /\ kind' = kind /\ phase' = phase
      BY <1>7 DEF vars, queueVars, callerVars, heardVars
    <2> QED
      BY <1>1, <2>1 DEF LoadBegun
  <1> QED
    BY <1>2, <1>3, <1>4, <1>5, <1>6, <1>7

\* The flag goes up: a navigation at the head begins to load.
LEMMA FlagIsLoad ==
    ASSUME TypeOK, BeginFlag
    PROVE Server!Load \/ Unmoved
  <1>1. /\ phase = "begin" /\ phase' = "load" /\ cur # None
        /\ UNCHANGED <<cur, cmd_rx, pending_replay, nav_deferred, answer, kind>>
    BY DEF BeginFlag, TypeOK, queueVars, callerVars, heardVars
  <1>2. UNCHANGED <<Line, Heard, phase = "gone">> /\ ~LoadBegun
    BY <1>1 DEF Line, InArm, Heard, Answered, LoadBegun
  <1>3. LoadBegun' \in BOOLEAN /\ LoadBegun \in BOOLEAN
    BY DEF LoadBegun
  <1> QED
    BY <1>1, <1>2, <1>3, BusyLine DEF Server!Load, Unmoved

\* The arms that load nothing, and the end of the two that do.
LEMMA ArmIsAnswer ==
    ASSUME TypeOK, Read \/ ReadState \/ Paint \/ Interact \/ Refuse \/ Finish
    PROVE Server!Answer
  <1>1. CASE Read \/ ReadState \/ Paint \/ Interact \/ Refuse
    <2>1. phase = "run" /\ ArmDone
      BY <1>1, Zenon DEF Read, ReadState, Paint, Interact, Refuse, Runs
    <2>2. cur # None
      BY <2>1 DEF TypeOK
    <2> QED
      BY <2>1, <2>2, ArmAnswersHead DEF ArmDone, queueVars
  <1>2. CASE Finish
    <2>1. /\ phase = "landed" /\ cur' = None /\ phase' = "idle" /\ Reply(cur) /\ cmd_rx' = cmd_rx
          /\ pending_replay' = Replayed /\ nav_deferred' = <<>>
      BY <1>2, Zenon DEF Finish
    <2>2. cur # None
      BY <2>1 DEF TypeOK
    <2> QED
      BY <2>1, <2>2, ArmAnswersHead
  <1> QED
    BY <1>1, <1>2

\* Every end of the thread: the last strike, the last sender, a close, a panic.
LEMMA EndIsStop ==
    ASSUME TypeOK, DropRealm \/ Disconnect \/ Close \/ Panic
    PROVE Server!Stop
  <1>1. CASE DropRealm \/ Disconnect \/ Panic
    <2>1. phase # "gone" /\ Dies({})
      BY <1>1 DEF DropRealm, Disconnect, Quiet, AtTop, Panic
    <2>2. {} \in SUBSET Waiting
      OBVIOUS
    <2> QED
      BY <2>1, <2>2, DeathIsStop
  <1>2. CASE Close
    <2>1. phase = "run" /\ Dies({cur})
      BY <1>2 DEF Close, Runs
    <2>2. {cur} \in SUBSET Waiting
      BY <2>1 DEF TypeOK, Waiting
    <2> QED
      BY <2>1, <2>2, DeathIsStop
  <1> QED
    BY <1>1, <1>2

\* No step but a caller's own brings anybody into the line.
Inside == \/ Server!Load \/ Server!Answer \/ Server!Stop \/ Unmoved
          \/ ServeOrPark

LEMMA StepsInside ==
    ASSUME TypeOK, OrderInv, [Next]_vars
    PROVE Inside \/ \E c \in Cmds : Peek(c) \/ Send(c)
  <1>1. CASE \/ Boot \/ Pump \/ BeginState \/ Commit \/ HangUp
             \/ \E ok \in BOOLEAN : EndLoad(ok)
             \/ \E s \in Scales : Preview(s)
             \/ \E c \in Cmds : AskPoll(c) \/ \E k \in Kinds : Ask(c, k)
             \/ UNCHANGED vars
    BY <1>1, StillIsUnmoved DEF Inside
  <1>2. CASE BeginFlag
    BY <1>2, FlagIsLoad DEF Inside
  <1>3. CASE Read \/ ReadState \/ Paint \/ Interact \/ Refuse \/ Finish
    BY <1>3, ArmIsAnswer DEF Inside
  <1>4. CASE DropRealm \/ Disconnect \/ Close \/ Panic
    BY <1>4, EndIsStop DEF Inside
  <1>5. CASE TakeReplay \/ TakeCommand
    BY <1>5, TakeKeepsLine DEF Inside
  <1>6. CASE ServeOrPark
    BY <1>6 DEF Inside
  <1> QED
    BY <1>1, <1>2, <1>3, <1>4, <1>5, <1>6, Zenon DEF Next, Thread, Callers

\* ---------------------------------------------------------------------------
\* The refinement.

\* Everybody who waits or was answered.
Known == Waiting \cup Heard

LineIsWaiting == TypeOK => Range(Line) = Waiting
LEMMA LineIsWaitingHolds == LineIsWaiting
  BY LineRange DEF LineIsWaiting

LEMMA ParkingBringsNobody ==
    ASSUME TypeOK, ServeOrPark
    PROVE Known' \subseteq Known
  <1> DEFINE c == Head(cmd_rx)
  <1>1. /\ cmd_rx \in Seq(Cmds) /\ nav_deferred \in Seq(Cmds) /\ cmd_rx # <<>>
        /\ cmd_rx' = Tail(cmd_rx) /\ UNCHANGED <<cur, pending_replay>>
    BY DEF TypeOK, ServeOrPark
  <1>2. c \in Cmds /\ Range(cmd_rx) = {c} \cup Range(Tail(cmd_rx))
    BY <1>1, HeadRange
  <1>3. CASE ServeFrame(c) /\ UNCHANGED nav_deferred
    <2>1. Heard' = Heard \cup {c}
      BY <1>2, <1>3, AnswerIsHeard DEF ServeFrame
    <2> QED
      BY <1>1, <1>2, <1>3, <2>1 DEF Known, Waiting
  <1>4. CASE nav_deferred' = Append(nav_deferred, c) /\ UNCHANGED heardVars
    <2>1. Range(nav_deferred') = Range(nav_deferred) \cup {c}
      BY <1>1, <1>2, <1>4, AppendRange
    <2>2. Heard' = Heard
      BY <1>4 DEF Heard, Answered, heardVars
    <2> QED
      BY <1>1, <1>2, <2>1, <2>2 DEF Known, Waiting
  <1> QED
    BY <1>3, <1>4 DEF ServeOrPark

LEMMA NobodyIsBroughtIn ==
    ASSUME TypeOK, TypeOK', Inside
    PROVE Known' \subseteq Known
  <1>1. Range(Line) = Waiting /\ Range(Line') = Waiting'
    <2>1. LineIsWaiting'
      BY LineIsWaitingHolds, PTL
    <2>2. Range(Line)' = Waiting'
      BY <2>1 DEF LineIsWaiting
    <2>3. Range(Line)' = Range(Line')
      BY DEF Range
    <2> QED
      BY <2>2, <2>3, LineRange
  <1>2. CASE Server!Load \/ Unmoved
    BY <1>1, <1>2 DEF Server!Load, Unmoved, Known
  <1>3. CASE Server!Answer
    <2>1. Line # <<>> /\ Line' = Tail(Line) /\ Heard' = Heard \cup {Head(Line)}
      BY <1>3 DEF Server!Answer
    <2>2. Range(Line) = {Head(Line)} \cup Range(Tail(Line))
      BY <2>1, LineParts, HeadRange
    <2> QED
      BY <1>1, <2>1, <2>2 DEF Known
  <1>4. CASE Server!Stop
    <2>1. Line' = <<>> /\ Heard' = Heard \cup Range(Line)
      BY <1>4, ServerRange DEF Server!Stop
    <2> QED
      BY <1>1, <2>1, EmptyRange DEF Known
  <1>5. CASE ServeOrPark
    BY <1>5, ParkingBringsNobody
  <1> QED
    BY <1>2, <1>3, <1>4, <1>5 DEF Inside

LEMMA KeepsParkedDuringLoads ==
    ASSUME TypeOK, OrderInv, [Next]_vars
    PROVE (phase \notin {"load", "landed"} => nav_deferred = <<>>)'
  <1> SUFFICES ASSUME phase' \notin {"load", "landed"} PROVE nav_deferred' = <<>>
    OBVIOUS
  <1>1. ASSUME nav_deferred' = nav_deferred, phase \notin {"load", "landed"}
        PROVE nav_deferred' = <<>>
    BY <1>1 DEF OrderInv
  <1>2. CASE Finish \/ DropRealm \/ Disconnect \/ Close \/ Panic
    BY <1>2, Zenon DEF Finish, DropRealm, Disconnect, Close, Panic, Dies
  <1>3. CASE ServeOrPark \/ Commit
    BY <1>3 DEF ServeOrPark, Commit, Loading
  <1>4. CASE \/ Read \/ ReadState \/ Paint \/ Interact \/ Refuse
    <2>1. phase = "run" /\ nav_deferred' = nav_deferred
      BY <1>4, Zenon DEF Read, ReadState, Paint, Interact, Refuse, Runs, ArmDone, queueVars
    <2> QED
      BY <1>1, <2>1
  <1>5. CASE Boot \/ TakeReplay \/ TakeCommand \/ Pump \/ BeginState \/ BeginFlag
    <2>1. phase \in {"boot", "idle", "run", "begin"} /\ nav_deferred' = nav_deferred
      BY <1>5 DEF Boot, TakeReplay, TakeCommand, Pump, BeginState, BeginFlag, Takes, AtTop, Quiet,
                  Runs, queueVars
    <2> QED
      BY <1>1, <2>1
  <1>6. CASE HangUp \/ UNCHANGED vars
    BY <1>1, <1>6 DEF HangUp, vars, queueVars
  <1>7. ASSUME NEW s \in Scales, Preview(s)
        PROVE nav_deferred' = <<>>
    BY <1>1, <1>7 DEF Preview, queueVars
  <1>8. ASSUME NEW c \in Cmds, AskPoll(c) \/ Peek(c) \/ Send(c) \/ \E k \in Kinds : Ask(c, k)
        PROVE nav_deferred' = <<>>
    BY <1>1, <1>8 DEF AskPoll, Peek, Send, Ask, queueVars
  <1>9. ASSUME NEW ok \in BOOLEAN, EndLoad(ok)
        PROVE nav_deferred' = <<>>
    BY <1>9 DEF EndLoad
  <1> QED
    BY <1>2, <1>3, <1>4, <1>5, <1>6, <1>7, <1>8, <1>9, Zenon DEF Next, Thread, Callers

LEMMA StagesAdvance ==
    ASSUME TypeOK, [Next]_vars
    PROVE \A c \in Cmds : /\ stage[c] = "sent" => stage'[c] = "sent"
                          /\ stage'[c] = "peek" => stage[c] = "peek" \/ c \in Polls
  <1> DEFINE Advance == \A c \in Cmds : /\ stage[c] = "sent" => stage'[c] = "sent"
                                        /\ stage'[c] = "peek" => stage[c] = "peek" \/ c \in Polls
  <1>1. stage' = stage => Advance
    OBVIOUS
  <1>2. ASSUME NEW c \in Cmds, NEW s, stage[c] # "sent", stage' = [stage EXCEPT ![c] = s],
               s = "peek" => c \in Polls
        PROVE Advance
    BY <1>2 DEF TypeOK
  <1> HIDE DEF Advance
  <1>3. ASSUME NEW c \in Cmds, AskPoll(c)
        PROVE Advance
    BY <1>2, <1>3 DEF AskPoll
  <1>4. ASSUME NEW c \in Cmds, Peek(c) \/ Send(c) \/ \E k \in Kinds : Ask(c, k)
        PROVE Advance
    BY <1>2, <1>4 DEF Peek, Send, Ask
  <1>5. CASE \/ Boot \/ DropRealm \/ TakeReplay \/ TakeCommand \/ Disconnect \/ Pump \/ Read
             \/ ReadState \/ Paint \/ Interact \/ Close \/ Refuse
    BY <1>1, <1>5, Zenon DEF Boot, DropRealm, TakeReplay, TakeCommand, Disconnect, Pump, Read,
                             ReadState, Paint, Interact, Close, Refuse, Takes, Dies, ArmDone, callerVars
  <1>6. CASE \/ BeginState \/ BeginFlag \/ Commit \/ ServeOrPark \/ Finish \/ Panic \/ HangUp
             \/ \E ok \in BOOLEAN : EndLoad(ok)
             \/ \E s \in Scales : Preview(s)
             \/ UNCHANGED vars
    BY <1>1, <1>6, Zenon DEF BeginState, BeginFlag, Commit, ServeOrPark, Finish, Panic, HangUp,
                             EndLoad, Preview, Dies, callerVars, vars
  <1> QED
    BY <1>3, <1>4, <1>5, <1>6, Zenon DEF Next, Thread, Callers, Advance

\* Send and Peek bring in the caller, who has sent by then, and nobody else.
LEMMA CallersBringThemselves ==
    ASSUME TypeOK, NEW c \in Cmds, Peek(c) \/ Send(c)
    PROVE \A d \in Known' : d \in Known \/ (d = c /\ stage'[d] = "sent")
  <1>1. CASE Peek(c)
    <2>1. Waiting' = Waiting
      BY <1>1 DEF Peek, queueVars, Waiting
    <2>2. CASE stage' = [stage EXCEPT ![c] = "sent"] /\ ServeFrame(c)
      <3>1. Heard' = Heard \cup {c} /\ stage'[c] = "sent"
        BY <2>2, AnswerIsHeard DEF ServeFrame, TypeOK
      <3> QED
        BY <2>1, <3>1 DEF Known
    <2>3. CASE UNCHANGED heardVars
      BY <2>1, <2>3 DEF Known, Heard, Answered, heardVars
    <2> QED
      BY <1>1, <2>2, <2>3 DEF Peek
  <1>2. CASE Send(c)
    <2>1. stage'[c] = "sent" /\ cmd_rx \in Seq(Cmds)
      BY <1>2 DEF Send, TypeOK
    <2>2. Range(cmd_rx') \subseteq Range(cmd_rx) \cup {c}
      BY <1>2, <2>1, AppendRange DEF Send
    <2>3. Heard' \subseteq Heard \cup {c}
      BY <1>2, AnswerIsHeard DEF Send, Heard, Answered
    <2> QED
      BY <1>2, <2>1, <2>2, <2>3 DEF Send, Known, Waiting
  <1> QED
    BY <1>1, <1>2

LEMMA KeepsOrder == TypeOK /\ TypeOK' /\ OrderInv /\ [Next]_vars => OrderInv'
  <1> SUFFICES ASSUME TypeOK, TypeOK', OrderInv, [Next]_vars PROVE OrderInv'
    OBVIOUS
  <1>1. ASSUME NEW c \in Cmds, (c \in Waiting)' \/ Answered(c)'
        PROVE stage'[c] = "sent"
    <2>1. c \in Known'
      BY <1>1 DEF Known, Heard
    <2>2. c \in Known \/ stage'[c] = "sent"
      BY <2>1, StepsInside, NobodyIsBroughtIn, CallersBringThemselves
    <2>3. c \in Known => stage[c] = "sent"
      BY DEF OrderInv, Known, Heard
    <2> QED
      BY <2>2, <2>3, StagesAdvance
  <1>2. ASSUME NEW c \in Cmds, stage'[c] = "peek"
        PROVE c \in Polls
    BY <1>2, StagesAdvance DEF OrderInv
  <1> QED
    BY <1>1, <1>2, KeepsParkedDuringLoads DEF OrderInv

LEMMA OrderHolds == Spec => []OrderInv
  <1>1. Init => OrderInv
    BY NameAssumption, EmptyRange DEF Init, OrderInv, Waiting, Answered
  <1> QED
    BY <1>1, KeepsOrder, ActorTypes, PTL DEF Spec

LEMMA ServedFirst == Init => Server!Init
  <1> SUFFICES ASSUME Init PROVE Server!Init
    OBVIOUS
  <1>1. Line = <<>>
    <2>1. Line = <<>> \o <<>> \o <<>> \o <<>> /\ <<>> \in Seq(Cmds)
      BY DEF Init, Line, InArm
    <2> QED
      BY <2>1, ConcatEmptySeq
  <1>2. LoadBegun = FALSE /\ Heard = {} /\ (phase = "gone") = FALSE
    BY DEF Init, LoadBegun, Heard, Answered
  <1> QED
    BY <1>1, <1>2 DEF Server!Init

LEMMA ServedNext ==
    TypeOK /\ OrderInv /\ [Next]_vars
      => [Server!Next]_<<Line, LoadBegun, Heard, phase = "gone">>
  <1> SUFFICES ASSUME TypeOK, OrderInv, [Next]_vars
               PROVE Server!Next \/ Unmoved
    BY DEF Unmoved
  <1>1. CASE Server!Load \/ Server!Answer \/ Server!Stop \/ Unmoved
    BY <1>1 DEF Server!Next
  <1>2. CASE ServeOrPark
    BY <1>2, ServeIsOvertake DEF Server!Next
  <1>3. ASSUME NEW c \in Cmds, Peek(c) \/ Send(c)
        PROVE Server!Next \/ Unmoved
    BY <1>3, PeekIsAside, SendIsArrival DEF Server!Next
  <1> QED
    BY <1>1, <1>2, <1>3, StepsInside DEF Inside

\* The thread implements CommandServer: callers are answered in the order their
\* commands arrived, each once and none forgotten; only a poll overtakes, and only
\* while a navigation ahead of it loads, and the thread's end, by a strike, the last
\* sender, a close or a panic, tells everybody in line (the Navigate arm's park and
\* replay, the loop's top, cmd_rx.recv).
THEOREM ActorServesInOrder == Spec => InArrivalOrder
  BY ServedFirst, ServedNext, OrderHolds, ActorTypes, PTL DEF Spec, InArrivalOrder, Server!Spec
=============================================================================
