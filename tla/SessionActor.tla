---------------------------- MODULE SessionActor ----------------------------
(***************************************************************************)
(* One session thread (session_thread) and the callers that send it        *)
(* commands.  The thread works its channel off one command at a time; a    *)
(* Navigate owns the page for as long as the load takes, and its arm keeps *)
(* polling the channel: a default-shape screenshot is answered with the    *)
(* frame painted before the navigation, everything else is parked and      *)
(* replayed after it.  Callers of such a screenshot look at NavFrameShared *)
(* first, which the thread publishes before a load and withdraws after it. *)
(*                                                                         *)
(* A document stands for its URL, its DOM and its JS realm, numbered in    *)
(* the order they were committed; a frame is the document it was painted   *)
(* from and its scale; element_map is the document its indexes were read   *)
(* from.  Left out: what scripts compute, the replay log, the console      *)
(* ring, last_nav_error (it only words errors), idle GC, web storage (see  *)
(* Accounts) and what a manager does around a command (SessionManager).    *)
(***************************************************************************)
EXTENDS Integers, SequencesExt

CONSTANTS
    Cmds,       \* commands, one caller each
    Polls,      \* those that are screenshots of the default shape
    Kinds,      \* what the other commands may be
    Scales,     \* device pixel ratios a frame may have
    Dpr,        \* the one each poll asks for
    PageLimit,  \* session_page_limit (200)
    Strikes,    \* heap guard strikes a realm survives (3)
    MaxDocs,    \* bound: documents committed
    MayPanic,   \* fault: the thread may unwind, wherever it is
    None

AllKinds == {"navigate", "content", "state", "click", "input", "click_xy",
             "eval", "read", "close"}

ASSUME SetAssumption == Polls \subseteq Cmds /\ Kinds \subseteq AllKinds
ASSUME DprAssumption == Dpr \in [Polls -> Scales]
ASSUME SizeAssumption == /\ PageLimit \in Nat
                         /\ Strikes \in Nat \ {0}
                         /\ MaxDocs \in Nat \ {0}
                         /\ MayPanic \in BOOLEAN
ASSUME NameAssumption == None \notin Cmds /\ None \notin Nat

VARIABLES
    phase,             \* where the thread is
    cur,               \* the command in its arm
    cmd_rx,            \* the command channel
    open,              \* the manager still holds a sender
    pending_replay,    \* parked during an earlier navigation
    nav_deferred,      \* parked during this one
    committed,         \* the load has replaced the document
    landed,            \* how the load ended
    doc,               \* the live document
    strikes,           \* heap_guard_strikes of its realm
    band_frame_cache,  \* the last band frame painted
    element_map,       \* document the indexes were read from
    pages_loaded,      \* what the page budget has counted
    in_flight,         \* NavFrameShared.in_flight
    published,         \* NavFrameShared.state
    stage,             \* how far each caller got
    kind,              \* what each command is
    answer,            \* what each caller heard
    shown,             \* the frame a poll was answered with (history)
    hit,               \* documents an index was read from and used on (history)
    since,             \* loads over when the poll was asked (history)
    begun, over,       \* loads published, loads that came to an end (history)
    cleared            \* document of the last load answered with Ok (history)

pageVars == <<doc, strikes, committed, landed>>
frameVars == <<in_flight, published>>
queueVars == <<cmd_rx, pending_replay, nav_deferred>>
callerVars == <<stage, kind, since>>
heardVars == <<answer, shown>>
loadVars == <<begun, over>>
mapVars == <<element_map, hit, cleared>>
vars == <<phase, cur, open, queueVars, pageVars, band_frame_cache, mapVars,
          pages_loaded, frameVars, callerVars, heardVars, loadVars>>

Frame == [doc : 1..MaxDocs, scale : Scales]

\* One published pre-navigation frame; load tells which load published it.
Snapshot == [url : 0..MaxDocs, frame : Frame \cup {None}, load : Nat]

Answered(c) == answer[c] # "none"
Reply(c) == /\ answer' = [answer EXCEPT ![c] = "reply"]
            /\ UNCHANGED shown
ServeFrame(c) == /\ answer' = [answer EXCEPT ![c] = "frame"]
                 /\ shown' = [shown EXCEPT ![c] = published]

\* check_page_budget; 0 disables it.
OverBudget == PageLimit # 0 /\ pages_loaded >= PageLimit

\* The cached frame has the scale the poll asks for.
Fits(c) == published.frame # None /\ published.frame.scale = Dpr[c]

\* ---------------------------------------------------------------------------
\* Callers.

\* nav_frame_answer holds the manager's mutex from its check to its clone.
Unlocked == \A c \in Cmds : stage[c] # "peek"

\* send_screenshot: the flag decides whether the snapshot is looked at.
AskPoll(c) ==
    /\ c \in Polls
    /\ stage[c] = "unsent"
    /\ open
    /\ Unlocked
    /\ stage' = [stage EXCEPT ![c] = IF in_flight THEN "peek" ELSE "sending"]
    /\ since' = [since EXCEPT ![c] = over]
    /\ UNCHANGED <<phase, cur, open, queueVars, pageVars, band_frame_cache, mapVars,
                   pages_loaded, frameVars, kind, heardVars, loadVars>>

\* The snapshot is cloned; a frame of the wrong scale sends the poll on.
Peek(c) ==
    /\ stage[c] = "peek"
    /\ \/ /\ Fits(c)
          /\ stage' = [stage EXCEPT ![c] = "sent"]
          /\ ServeFrame(c)
       \/ /\ ~Fits(c)
          /\ stage' = [stage EXCEPT ![c] = "sending"]
          /\ UNCHANGED heardVars
    /\ UNCHANGED <<phase, cur, open, queueVars, pageVars, band_frame_cache, mapVars,
                   pages_loaded, frameVars, kind, since, loadVars>>

\* prepare_send: the caller leaves the mutex with a clone of cmd_tx.
Ask(c, k) ==
    /\ c \notin Polls
    /\ stage[c] = "unsent"
    /\ open
    /\ Unlocked
    /\ stage' = [stage EXCEPT ![c] = "sending"]
    /\ kind' = [kind EXCEPT ![c] = k]
    /\ UNCHANGED <<phase, cur, open, queueVars, pageVars, band_frame_cache, mapVars,
                   pages_loaded, frameVars, since, heardVars, loadVars>>

\* cmd_tx.send: it fails once the thread has dropped the receiver.
Send(c) ==
    /\ stage[c] = "sending"
    /\ stage' = [stage EXCEPT ![c] = "sent"]
    /\ \/ /\ phase # "gone"
          /\ cmd_rx' = Append(cmd_rx, c)
          /\ UNCHANGED answer
       \/ /\ phase = "gone"
          /\ answer' = [answer EXCEPT ![c] = "died"]
          /\ UNCHANGED cmd_rx
    /\ UNCHANGED <<phase, cur, open, pending_replay, nav_deferred, pageVars,
                   band_frame_cache, mapVars, pages_loaded, frameVars, kind, since,
                   shown, loadVars>>

\* The manager lets go of the session (close, eviction, kill).
HangUp ==
    /\ open
    /\ Unlocked
    /\ open' = FALSE
    /\ UNCHANGED <<phase, cur, queueVars, pageVars, band_frame_cache, mapVars,
                   pages_loaded, frameVars, callerVars, heardVars, loadVars>>

\* ---------------------------------------------------------------------------
\* The thread.

\* Everything queued is dropped with the thread; its callers see the reply
\* channel close.
Waiting == Range(cmd_rx) \cup Range(pending_replay) \cup Range(nav_deferred)
           \cup ({cur} \ {None})
Dies(heard) ==
    /\ phase' = "gone"
    /\ cur' = None
    /\ cmd_rx' = <<>>
    /\ pending_replay' = <<>>
    /\ nav_deferred' = <<>>
    /\ answer' = [c \in Cmds |-> IF c \in heard THEN "reply"
                                 ELSE IF c \in Waiting THEN "died" ELSE answer[c]]
    /\ UNCHANGED <<open, pageVars, band_frame_cache, mapVars, pages_loaded, frameVars,
                   callerVars, shown, loadVars>>

\* A new document and with it a new realm.
Commits == /\ doc < MaxDocs
           /\ doc' = doc + 1
           /\ strikes' = 0

\* The heap guard terminates the realm's script, once or more, or not at all.
StrikeOrNot == strikes' \in strikes..Strikes

Boot == /\ phase = "boot"
        /\ phase' = "idle"
        /\ doc' = 1
        /\ StrikeOrNot
        /\ pages_loaded' \in {0, 1}
        /\ UNCHANGED <<cur, open, queueVars, committed, landed, band_frame_cache,
                       mapVars, frameVars, callerVars, heardVars, loadVars>>

\* Mutant: one strike too many.
OverStrikes == strikes > Strikes

StruckOut == strikes >= Strikes

\* The loop's top: a realm struck too often is dropped, thread and all.
DropRealm == /\ phase = "idle"
             /\ StruckOut
             /\ Dies({})

AtTop == phase = "idle" /\ ~StruckOut

\* Mutant: the channel is read before what was parked.
ReplayLast == pending_replay # <<>> /\ cmd_rx = <<>>

ReplayFirst == pending_replay # <<>>

Takes(c) == /\ cur' = c
            /\ phase' = "run"
            /\ UNCHANGED <<open, nav_deferred, pageVars, band_frame_cache, mapVars,
                           pages_loaded, frameVars, callerVars, heardVars, loadVars>>

TakeReplay == /\ AtTop
              /\ ReplayFirst
              /\ pending_replay' = Tail(pending_replay)
              /\ UNCHANGED cmd_rx
              /\ Takes(Head(pending_replay))

TakeCommand == /\ AtTop
               /\ ~ReplayFirst
               /\ cmd_rx # <<>>
               /\ cmd_rx' = Tail(cmd_rx)
               /\ UNCHANGED pending_replay
               /\ Takes(Head(cmd_rx))

Quiet == AtTop /\ pending_replay = <<>> /\ cmd_rx = <<>>

\* recv returns None: every sender is gone and the channel is empty.
Disconnect == /\ Quiet
              /\ ~open
              /\ \A c \in Cmds : stage[c] # "sending"
              /\ Dies({})

\* A pump slice runs page script, and the heap guard may strike it.
Pump == /\ Quiet
        /\ strikes' = strikes + 1
        /\ UNCHANGED <<phase, cur, open, queueVars, doc, committed, landed, band_frame_cache,
                       mapVars, pages_loaded, frameVars, callerVars, heardVars, loadVars>>

\* The end of an arm that loads nothing.
ArmDone == /\ Reply(cur)
           /\ phase' = "idle"
           /\ cur' = None
           /\ UNCHANGED <<open, queueVars, committed, landed, frameVars, callerVars, loadVars>>

Runs(k) == phase = "run" /\ cur \notin Polls /\ kind[cur] = k

Read == /\ Runs("read")
        /\ ArmDone
        /\ UNCHANGED <<doc, strikes, band_frame_cache, mapVars, pages_loaded>>

\* State and Snapshot: cleared first, rebuilt if the extraction succeeds.
ReadState == /\ Runs("state")
             /\ element_map' \in {doc, None}
             /\ StrikeOrNot
             /\ ArmDone
             /\ UNCHANGED <<doc, band_frame_cache, hit, cleared, pages_loaded>>

\* Screenshot of the default shape: the signature names the realm and the
\* scale; without a live band it is painted another way and not cached.
Paint == /\ phase = "run"
         /\ cur \in Polls
         /\ band_frame_cache' \in {[doc |-> doc, scale |-> Dpr[cur]], band_frame_cache}
         /\ ArmDone
         /\ UNCHANGED <<doc, strikes, mapVars, pages_loaded>>

\* A poll of a caller not followed here, asked and answered in between.
Preview(s) == /\ Quiet
              /\ band_frame_cache' = [doc |-> doc, scale |-> s]
              /\ UNCHANGED <<phase, cur, open, queueVars, pageVars, mapVars, pages_loaded,
                             frameVars, callerVars, heardVars, loadVars>>

Indexed == {"click", "input"}
Budgeted == {"click", "click_xy"}

\* Click, Input, ClickXY, Drag and Eval: the page may navigate itself, and the
\* arm drains that navigation before it replies.  Only clicks are counted, and
\* only those after which the URL is another one.
Interact ==
    /\ \E k \in {"click", "input", "click_xy", "eval"} :
        /\ Runs(k)
        /\ \/ /\ (k \in Budgeted /\ OverBudget) \/ (k \in Indexed /\ element_map = None)
              /\ UNCHANGED <<doc, strikes, pages_loaded, hit>>
           \/ /\ ~(k \in Budgeted /\ OverBudget)
              /\ ~(k \in Indexed /\ element_map = None)
              /\ hit' = IF k \in Indexed
                        THEN [hit EXCEPT ![cur] = [read |-> element_map, used |-> doc]]
                        ELSE hit
              /\ pages_loaded' \in {pages_loaded} \cup
                                  (IF k \in Budgeted THEN {pages_loaded + 1} ELSE {})
              /\ \/ /\ StrikeOrNot
                    /\ UNCHANGED doc
                 \/ Commits
    /\ ArmDone
    /\ UNCHANGED <<band_frame_cache, element_map, cleared>>

Close == /\ Runs("close")
         /\ Dies({cur})

\* The page budget or the domain's rate window says no: nothing is loaded.
Refuse == /\ Runs("navigate")
          /\ ArmDone
          /\ UNCHANGED <<doc, strikes, band_frame_cache, mapVars, pages_loaded>>

\* NavFrameShared::begin stores the state under its lock, then raises the flag.
Snap == [url |-> doc, frame |-> band_frame_cache, load |-> begun + 1]
BeginState ==
    /\ Runs("content") \/ (Runs("navigate") /\ ~OverBudget)
    /\ phase' = "begin"
    /\ published' = Snap
    /\ begun' = begun + 1
    /\ committed' = FALSE
    /\ UNCHANGED <<cur, open, queueVars, doc, strikes, landed, band_frame_cache, mapVars,
                   pages_loaded, in_flight, callerVars, heardVars, over>>

BeginFlag ==
    /\ phase = "begin"
    /\ phase' = "load"
    /\ in_flight' = TRUE
    /\ UNCHANGED <<cur, open, queueVars, pageVars, band_frame_cache, mapVars, pages_loaded,
                   published, callerVars, heardVars, loadVars>>

Loading == phase = "load"

Commit == /\ Loading
          /\ ~committed
          /\ Commits
          /\ committed' = TRUE
          /\ UNCHANGED <<phase, cur, open, queueVars, landed, band_frame_cache, mapVars,
                         pages_loaded, frameVars, callerVars, heardVars, loadVars>>

ServesOldFrame(c) == c \in Polls /\ Fits(c)

\* The Navigate arm polls the channel while goto waits; SetContent does not.
ServeOrPark ==
    /\ Loading
    /\ kind[cur] = "navigate"
    /\ cmd_rx # <<>>
    /\ LET c == Head(cmd_rx) IN
        \/ /\ ServesOldFrame(c)
           /\ ServeFrame(c)
           /\ UNCHANGED nav_deferred
        \/ /\ ~ServesOldFrame(c)
           /\ nav_deferred' = Append(nav_deferred, c)
           /\ UNCHANGED heardVars
    /\ cmd_rx' = Tail(cmd_rx)
    /\ UNCHANGED <<phase, cur, open, pending_replay, pageVars, band_frame_cache, mapVars,
                   pages_loaded, frameVars, callerVars, loadVars>>

\* Mutant: a load that fails leaves the flag up.
LoweredOnSuccess(ok) == IF ok THEN FALSE ELSE in_flight

Lowered(ok) == FALSE

\* goto returns, in time or at its deadline, its scripts struck or not;
\* NavFrameShared::end.
EndLoad(ok) ==
    /\ Loading
    /\ ok => committed
    /\ phase' = "landed"
    /\ landed' = ok
    /\ in_flight' = Lowered(ok)
    /\ over' = begun
    /\ StrikeOrNot
    /\ UNCHANGED <<cur, open, queueVars, doc, committed, band_frame_cache, mapVars,
                   pages_loaded, published, callerVars, heardVars, begun>>

\* Mutant: a failed navigation forgets what it parked.
DroppedOnFailure == IF landed THEN pending_replay \o nav_deferred ELSE pending_replay

Replayed == pending_replay \o nav_deferred

\* Mutant: the indexes outlive the page.
KeepsIndexes == element_map

\* A landing forgets the indexes of the page before it.
ForgetsIndexes == IF landed THEN None ELSE element_map

\* The arm's bookkeeping, its reply, and the replay of what it parked.
Finish ==
    /\ phase = "landed"
    /\ element_map' = ForgetsIndexes
    /\ cleared' = IF landed THEN doc ELSE cleared
    /\ pages_loaded' = IF landed /\ kind[cur] = "navigate" THEN pages_loaded + 1
                       ELSE pages_loaded
    /\ Reply(cur)
    /\ pending_replay' = Replayed
    /\ nav_deferred' = <<>>
    /\ phase' = "idle"
    /\ cur' = None
    /\ UNCHANGED <<open, cmd_rx, pageVars, band_frame_cache, hit, frameVars, callerVars,
                   loadVars>>

\* A panic unwinds the thread: at boot (the browser or its page cannot be
\* built), between commands or inside one; nothing lowers the flag.
Panic == /\ MayPanic
         /\ phase # "gone"
         /\ Dies({})

\* ---------------------------------------------------------------------------

Init ==
    /\ phase = "boot"
    /\ cur = None
    /\ cmd_rx = <<>>
    /\ open = TRUE
    /\ pending_replay = <<>>
    /\ nav_deferred = <<>>
    /\ committed = FALSE
    /\ landed = FALSE
    /\ doc = 0
    /\ strikes = 0
    /\ band_frame_cache = None
    /\ element_map = None
    /\ pages_loaded = 0
    /\ in_flight = FALSE
    /\ published = [url |-> 0, frame |-> None, load |-> 0]
    /\ stage = [c \in Cmds |-> "unsent"]
    /\ kind = [c \in Cmds |-> "read"]
    /\ answer = [c \in Cmds |-> "none"]
    /\ shown = [c \in Cmds |-> None]
    /\ hit = [c \in Cmds |-> None]
    /\ since = [c \in Cmds |-> 0]
    /\ begun = 0
    /\ over = 0
    /\ cleared = 0

Callers == \E c \in Cmds : Peek(c) \/ Send(c)

Thread == \/ Boot \/ DropRealm \/ TakeReplay \/ TakeCommand \/ Disconnect \/ Pump
          \/ Read \/ ReadState \/ Paint \/ Interact \/ Close \/ Refuse
          \/ BeginState \/ BeginFlag \/ Commit \/ ServeOrPark
          \/ \E ok \in BOOLEAN : EndLoad(ok)
          \/ Finish

Next == \/ \E c \in Cmds : AskPoll(c)
        \/ \E c \in Cmds, k \in Kinds : Ask(c, k)
        \/ Callers
        \/ HangUp
        \/ \E s \in Scales : Preview(s)
        \/ Thread
        \/ Panic

Spec == Init /\ [][Next]_vars

\* A load ends at its deadline and a script at the watchdog's, so the thread
\* and the callers that have begun to talk to it always take another step.
FairSpec == /\ Spec
            /\ WF_vars(Thread)
            /\ \A c \in Cmds : WF_vars(Peek(c) \/ Send(c))

\* ---------------------------------------------------------------------------
\* Properties.

TypeOK ==
    /\ phase \in {"boot", "idle", "run", "begin", "load", "landed", "gone"}
    /\ cur \in Cmds \cup {None}
    /\ (cur # None) <=> phase \in {"run", "begin", "load", "landed"}
    /\ cmd_rx \in Seq(Cmds)
    /\ open \in BOOLEAN
    /\ pending_replay \in Seq(Cmds)
    /\ nav_deferred \in Seq(Cmds)
    /\ committed \in BOOLEAN
    /\ landed \in BOOLEAN
    /\ doc \in 0..MaxDocs
    /\ phase = "boot" => doc = 0
    /\ doc = 0 => phase \in {"boot", "gone"}
    /\ strikes \in 0..Strikes
    /\ band_frame_cache \in Frame \cup {None}
    /\ element_map \in 1..MaxDocs \cup {None}
    /\ pages_loaded \in Nat
    /\ in_flight \in BOOLEAN
    /\ published \in Snapshot
    /\ stage \in [Cmds -> {"unsent", "peek", "sending", "sent"}]
    /\ kind \in [Cmds -> AllKinds]
    /\ answer \in [Cmds -> {"none", "reply", "frame", "died"}]
    /\ shown \in [Cmds -> Snapshot \cup {None}]
    /\ hit \in [Cmds -> [read : 1..MaxDocs, used : 1..MaxDocs] \cup {None}]
    /\ since \in [Cmds -> Nat]
    /\ begun \in Nat /\ over \in Nat
    /\ cleared \in 0..MaxDocs

\* The line the callers stand in: the command in the arm, what earlier
\* navigations parked, what this one parked, the channel.
InArm == IF cur = None THEN <<>> ELSE <<cur>>
Line == InArm \o pending_replay \o nav_deferred \o cmd_rx

LoadBegun == phase \in {"load", "landed"} /\ kind[cur] = "navigate"
Heard == {c \in Cmds : Answered(c)}

\* Callers are answered in the order their commands arrived, each once and
\* none forgotten; only a poll may overtake, and only while a navigation that
\* is ahead of it loads (the Navigate arm's park and replay).
Server == INSTANCE CommandServer
    WITH queue <- Line, loading <- LoadBegun, settled <- Heard, stopped <- phase = "gone"

InArrivalOrder == Server!Spec

\* A poll answered with an old frame gets one that was published for a load
\* which was not over when the poll was asked: neither the order of
\* NavFrameShared's two stores nor a load ending between a caller's two reads
\* hands out a frame from before an earlier navigation's reply.
ServedWhileLoading ==
    \A c \in Cmds : shown[c] # None => shown[c].load > since[c]

\* An index read before a load that was answered Ok is never used after it.
IndexesDieAtLanding ==
    /\ element_map # None => element_map >= cleared
    /\ \A c \in Cmds : hit[c] # None => hit[c].read <= hit[c].used

\* Whoever has begun to send gets an answer or an error: a parked, queued or
\* half sent command is never left hanging, whatever the navigation ahead of
\* it does, and when the thread ends.
EveryCallerHears ==
    \A c \in Cmds : (stage[c] # "unsent") ~> Answered(c)

\* The page an old frame is labelled with is the page it was painted from
\* (the test of sync_js_hold_still_serves_default_screenshot_polls: "the
\* served frame is the pre-navigation page's").
ServedPairMatches ==
    \A c \in Cmds : shown[c] # None => shown[c].frame.doc = shown[c].url

\* An index is used on the document it was read from (docs/API.md: after a
\* navigation "stale refs fail").
StaleIndexFails ==
    \A c \in Cmds : hit[c] # None => hit[c].read = hit[c].used

\* in_flight is "lowered after it lands or fails" (NavFrameShared): a poll
\* asked once the thread is gone is not answered with the frame from before
\* a load that died with it.
DeadThreadServesNothing ==
    \A c \in Polls :
        [](phase = "gone" /\ stage[c] = "unsent" => [](answer[c] # "frame"))
=============================================================================
