--------------------------- MODULE SessionManager ---------------------------
(***************************************************************************)
(* The session manager of the browser service: src/session/manager.rs,     *)
(* its persistence half manager/persist.rs, and the session threads as the *)
(* manager sees them through their command channels.                       *)
(*                                                                         *)
(* One process keeps two maps, `live` (sessions with a browser thread) and *)
(* `dormant` (shells registered at boot from a snapshot), both behind one  *)
(* async mutex, and a snapshot store `snap` that outlives the process.     *)
(* Handlers take the mutex, look a session up (reviving it from its        *)
(* snapshot when the policy says so), send a command down the thread's     *)
(* channel, await the reply with or without the mutex, and then capture    *)
(* the login state back into the store.                                    *)
(*                                                                         *)
(* Abstractions.  Login state (cookies, web storage) is a number: a page   *)
(* that logs in or out moves it to the next value of a global clock.  The  *)
(* four channel reads of one capture are one read.  Idle time is a counter *)
(* 0..TTL per session, TTL meaning "past the timeout".  A snapshot older   *)
(* than a day, unparsable, or of another version is `stale`.  Viewport pin *)
(* and dialog policy ride along with no effect here.                       *)
(***************************************************************************)
EXTENDS Naturals, Sequences

CONSTANTS
  Clients,             \* HTTP handlers and MCP tools, one request at a time
  Threads,             \* slots for session threads (bound: live threads)
  MaxId,               \* session ids s_1 .. s_MaxId (bound)
  TTL,                 \* idle ticks until a session is expired
  MaxLogin,            \* bound on the login clock
  MaxQueue,            \* bound on a channel a request still adds to
  Kinds,               \* flag combinations a create request may ask for
  RestoreModes,        \* values AGINXBROWSER_RESTORE_SESSIONS may have
  Faults,              \* TRUE: threads die, reads fail, the flush times out
  Flusher,             \* the shutdown flush, the one actor beside clients
  NoOne, None          \* nobody holds the lock / no entry

Ids    == 1..MaxId
Actors == Clients \cup {Flusher}
Kind   == [persistent : BOOLEAN, keepalive : BOOLEAN, account : BOOLEAN]

Session  == [thread : Threads, persistent : BOOLEAN, keepalive : BOOLEAN,
             account : BOOLEAN, idle : 0..TTL]
Shell    == [persistent : BOOLEAN, keepalive : BOOLEAN, idle : 0..TTL]
Snapshot == [login : 0..MaxLogin, persistent : BOOLEAN, keepalive : BOOLEAN,
             stale : BOOLEAN]
Command  == [from : Actors \cup {NoOne}, what : {"cmd", "read", "close"}]
Call     == [id : Ids, thread : Threads, renew : BOOLEAN, locked : BOOLEAN,
             durable : BOOLEAN, seen : 0..MaxLogin]

ASSUME ConstantsAssumption ==
  /\ MaxId \in Nat /\ TTL \in Nat \ {0} /\ MaxLogin \in Nat
  /\ MaxQueue \in Nat
  /\ Kinds \subseteq Kind
  /\ RestoreModes \subseteq {"all", "off", "skip-keepalive"}
  /\ Faults \in BOOLEAN
  /\ Flusher \notin Clients /\ NoOne \notin Actors

ASSUME NoneAssumption ==
  None \notin Session \cup Shell \cup Snapshot \cup Call

VARIABLES
  phase,    \* "down", "serving", "flushing" (shutdown signal), "draining"
  lock,     \* holder of the SESSIONS mutex across an await, or NoOne
  counter,  \* SESSION_COUNTER
  live,     \* SessionManager.sessions
  dormant,  \* SessionManager.dormant
  snap,     \* the snapshot store, on disk
  alive,    \* threads whose command loop is running
  queue,    \* the command channel of each thread
  login,    \* login state each thread's page holds
  clock,    \* the login clock (bound: MaxLogin)
  pc, call, \* where each handler is, and the request it serves
  todo,     \* sessions the shutdown flush has yet to visit
  ended,    \* history: "over" once an id's session was closed or expired
            \* for good, "refused" when a close found nothing to close
  acked     \* history: the newest login state a caller was told is done

memory == <<counter, live, dormant, alive, queue, login, todo>>
vars   == <<phase, lock, clock, snap, pc, call, ended, acked, memory>>

--------------------------------------------------------------------------
(* Lookups and updates shared by the operations.                          *)

Expired(s) == ~s.keepalive /\ s.idle = TTL

\* Mutant: a renewal that steps the clock back.
TouchOneTickBack(s, renew) == IF renew THEN [s EXCEPT !.idle = @ - 1] ELSE s
\* A working command restarts the idle clock, a read-only probe does not.
Touch(s, renew) == IF renew THEN [s EXCEPT !.idle = 0] ELSE s

\* Mutant: only account sessions are written back.
PersistsAccounts(s) == s.account
\* What persist_after_success reads back: an account or a persistent session.
Persists(s) == s.account \/ s.persistent

\* Mutant: the error of a send into a closed channel is ignored.
Assumed(t) == TRUE
\* The thread still has the receiving end of its channel.
Listening(t) == t \in alive

CanCapture(id) ==
  live[id] # None /\ Persists(live[id]) /\ Listening(live[id].thread)

\* Mutant: the flag of #88 is left at its default.
SavedStateImmortal(s, n) == [login |-> n, persistent |-> TRUE,
                             keepalive |-> s.keepalive, stale |-> FALSE]
\* What a capture that read login state n saves for s, the session its id
\* names by then.  The code has a default for a session that left meanwhile.
SavedState(s, n) ==
  IF s = None
  THEN [login |-> n, persistent |-> TRUE, keepalive |-> FALSE, stale |-> FALSE]
  ELSE [login |-> n, persistent |-> s.persistent, keepalive |-> s.keepalive,
        stale |-> FALSE]

\* A snapshot revive_session and register_dormant accept.
Usable(id) == snap[id] # None /\ ~snap[id].stale

\* The maps with the ids of S removed.
Without(map, S) == [id \in Ids |-> IF id \in S THEN None ELSE map[id]]

CloseCmd == [from |-> NoOne, what |-> "close"]

\* The channels once every live session of S was sent a Close whose reply
\* nobody awaits.
HangUp(S) ==
  [t \in Threads |->
     IF t \in alive /\ \E id \in S : live[id] # None /\ live[id].thread = t
     THEN Append(queue[t], CloseCmd) ELSE queue[t]]

\* The channels once `a` dropped its reply receivers.
Unheard(a) ==
  [t \in Threads |->
     [i \in DOMAIN queue[t] |->
        IF queue[t][i].from = a THEN [queue[t][i] EXCEPT !.from = NoOne]
                                ELSE queue[t][i]]]

FreeThread(t) ==
  /\ t \notin alive
  /\ \A id \in Ids : live[id] # None => live[id].thread # t
  /\ \A a \in Actors : call[a] # None => call[a].thread # t

\* Mutant: the revived page starts without the saved login state.
SpawnBlank(id, t, kind, n) ==
  /\ FreeThread(t)
  /\ live'  = [live EXCEPT ![id] =
                 [thread |-> t, persistent |-> kind.persistent,
                  keepalive |-> kind.keepalive, account |-> kind.account,
                  idle |-> 0]]
  /\ alive' = alive \cup {t}
  /\ login' = [login EXCEPT ![t] = 0]
  /\ queue' = HangUp({id})
\* Register a session under id on a fresh thread whose page starts with
\* login state n, hanging up on the session the id had before, if any.
Spawn(id, t, kind, n) ==
  /\ FreeThread(t)
  /\ live'  = [live EXCEPT ![id] =
                 [thread |-> t, persistent |-> kind.persistent,
                  keepalive |-> kind.keepalive, account |-> kind.account,
                  idle |-> 0]]
  /\ alive' = alive \cup {t}
  /\ login' = [login EXCEPT ![t] = n]
  /\ queue' = HangUp({id})

\* Mutant: only the live sessions are looked at.
FreshAmongLive(id) == live[id] = None
\* The id create takes: the counter skips every id somebody could still use.
Fresh(id) == live[id] = None /\ dormant[id] = None /\ snap[id] = None
NextId(id) ==
  /\ counter <= id /\ Fresh(id)
  /\ \A j \in Ids : counter <= j /\ j < id => ~Fresh(j)

\* Mutant: the mutex is not held across a capture.
CanLockDuringCapture ==
  /\ phase \in {"serving", "draining"}
  /\ lock \in {NoOne} \cup {a \in Actors : pc[a] = "capturing"}
\* The mutex can be taken now by a request.
CanLock == lock = NoOne /\ phase \in {"serving", "draining"}

\* The handler answers its caller and drops the mutex if it held it.
Return(c) ==
  /\ pc'   = [pc EXCEPT ![c] = "idle"]
  /\ call' = [call EXCEPT ![c] = None]
  /\ lock' = IF lock = c THEN NoOne ELSE lock

\* History: id ended for good, or its idle time ran out under the calls that
\* use it; nothing is promised to those calls any more.
Forgive(id) ==
  [a \in Actors |-> IF call[a] # None /\ call[a].id = id
                    THEN [call[a] EXCEPT !.durable = FALSE] ELSE call[a]]
Drops(id, how) ==
  /\ ended' = [ended EXCEPT ![id] = how]
  /\ acked' = [acked EXCEPT ![id] = 0]

--------------------------------------------------------------------------
(* Create, and phase 1 of a round trip: prepare_send.                      *)

CreateSession(kind) ==
  /\ CanLock
  /\ \E id \in Ids, t \in Threads :
       /\ NextId(id)
       /\ Spawn(id, t, kind, 0)
       /\ counter' = id + 1
       /\ Drops(id, "no")
  /\ UNCHANGED <<phase, lock, clock, dormant, snap, pc, call, todo>>

\* History: an Ok on this session promises that its login state is saved.
Promised(s) == MaxLogin > 0 /\ s.persistent /\ ~s.account

\* A request for id on thread t got its channel; `send` keeps the mutex.
Enter(c, id, t, renew, locked, s) ==
  /\ pc'   = [pc EXCEPT ![c] = "prepared"]
  /\ call' = [call EXCEPT ![c] =
                [id |-> id, thread |-> t, renew |-> renew, locked |-> locked,
                 durable |-> Promised(s) /\ renew, seen |-> 0]]
  /\ lock' = IF locked THEN c ELSE NoOne

BeginLive(c, id, renew, locked) ==
  /\ CanLock /\ pc[c] = "idle"
  /\ dormant[id] = None /\ live[id] # None /\ ~Expired(live[id])
  /\ live' = [live EXCEPT ![id] = Touch(@, renew)]
  /\ Enter(c, id, live[id].thread, renew, locked, live[id])
  /\ UNCHANGED <<phase, counter, dormant, snap, alive, queue, login, clock,
                 todo, ended, acked>>

\* prepare_send falls through to revive_session.  (A shell that is not
\* promoted answers Dormant and changes nothing.)
FallsToRevive(id, renew) ==
  \/ /\ dormant[id] # None /\ renew
     /\ dormant[id].persistent \/ ~Expired(dormant[id])
  \/ /\ dormant[id] = None /\ live[id] # None
     /\ Expired(live[id]) /\ live[id].persistent
  \/ dormant[id] = None /\ live[id] = None

BeginRevive(c, id, renew, locked) ==
  /\ CanLock /\ pc[c] = "idle"
  /\ FallsToRevive(id, renew) /\ Usable(id)
  /\ LET kind == [persistent |-> snap[id].persistent,
                  keepalive |-> snap[id].keepalive, account |-> FALSE]
     IN \E t \in Threads :
          /\ Spawn(id, t, kind, snap[id].login)
          /\ Enter(c, id, t, renew, locked, kind)
  /\ dormant' = Without(dormant, {id})
  /\ UNCHANGED <<phase, counter, snap, clock, todo, ended, acked>>

\* No snapshot to revive from: NotFound, and a stale one is dropped.
RefuseMissing(id, renew) ==
  /\ CanLock
  /\ FallsToRevive(id, renew) /\ ~Usable(id)
  /\ queue'   = HangUp({id})
  /\ live'    = Without(live, {id})
  /\ dormant' = Without(dormant, {id})
  /\ snap'    = Without(snap, {id})
  /\ UNCHANGED <<phase, lock, counter, alive, login, clock, pc, call, todo,
                 ended, acked>>

\* An idle-expired session that is not persistent goes with its snapshot.
RefuseExpired(id) ==
  /\ CanLock
  /\ \E s \in {live[id], dormant[id]} \ {None} :
       Expired(s) /\ ~s.persistent
  /\ queue'   = HangUp({id})
  /\ live'    = Without(live, {id})
  /\ dormant' = Without(dormant, {id})
  /\ snap'    = Without(snap, {id})
  /\ Drops(id, "over")
  /\ UNCHANGED <<phase, lock, counter, alive, login, clock, pc, call, todo>>

--------------------------------------------------------------------------
(* Phases 2 and 3: the channel round trip and the capture.                 *)

Submit(c) ==
  LET t == call[c].thread IN
  /\ pc[c] = "prepared"
  /\ \/ /\ t \in alive /\ Len(queue[t]) < MaxQueue
        /\ queue' = [queue EXCEPT ![t] =
                       Append(@, [from |-> c, what |-> "cmd"])]
        /\ pc' = [pc EXCEPT ![c] = "awaiting"]
        /\ UNCHANGED <<lock, call>>
     \/ /\ t \notin alive                                   \* ThreadDied
        /\ Return(c)
        /\ UNCHANGED queue
  /\ UNCHANGED <<phase, counter, live, dormant, snap, alive, login, clock,
                 todo, ended, acked>>

\* persist_after_success: the session named by the id now, if it still has
\* one, is read back; otherwise the request is over.
Persist(c) ==
  LET id == call[c].id
      t  == live[id].thread
  IN
  /\ pc[c] = "replied"
  /\ lock = c \/ CanLock
  /\ lock' = c
  /\ \/ /\ CanCapture(id)
        /\ queue' = [queue EXCEPT ![t] =
                       Append(@, [from |-> c, what |-> "read"])]
        /\ pc'   = [pc EXCEPT ![c] = "capturing"]
        /\ call' = [call EXCEPT ![c].thread = t]
     \/ /\ ~CanCapture(id)
        /\ pc' = [pc EXCEPT ![c] = "holding"]
        /\ UNCHANGED <<queue, call>>
  /\ UNCHANGED <<phase, counter, live, dormant, snap, alive, login, clock,
                 todo, ended, acked>>

\* The guard is dropped and the caller hears Ok.
Release(c) ==
  /\ pc[c] = "holding"
  /\ Return(c)
  /\ acked' = IF call[c].durable /\ acked[call[c].id] < call[c].seen
              THEN [acked EXCEPT ![call[c].id] = call[c].seen] ELSE acked
  /\ UNCHANGED <<phase, clock, snap, ended, memory>>

\* clone_session: still under the mutex, a new session takes over the flags
\* and the login state that was read.
CloneSession(c) ==
  LET s == live[call[c].id] IN
  /\ pc[c] = "holding" /\ call[c].locked /\ call[c].renew /\ s # None
  /\ \E id \in Ids, t \in Threads :
       /\ NextId(id)
       /\ Spawn(id, t, s, call[c].seen)
       /\ counter' = id + 1
       /\ Drops(id, "no")
  /\ Return(c)
  /\ UNCHANGED <<phase, clock, dormant, snap, todo>>

\* The handler stops waiting: its caller hung up and the future is dropped,
\* or the listing's 250 ms or close_and_wait's 20 s are over.
GiveUp(c) ==
  /\ pc[c] # "idle"
  /\ Return(c)
  /\ queue' = Unheard(c)
  /\ UNCHANGED <<phase, counter, live, dormant, snap, alive, login, clock,
                 todo, ended, acked>>

--------------------------------------------------------------------------
(* The session thread serves its channel in order.                         *)

Pending(a, t) == \E i \in DOMAIN queue[t] : queue[t][i].from = a

\* The loop of thread t ends: its channel is dropped with every command in
\* it, so each waiting handler sees its reply channel close.  A capture is
\* best effort: its handler goes on as if there had been nothing to save.
Dies(t) ==
  LET heard(a) == Pending(a, t)
      over(a)  == heard(a) /\ (pc[a] # "capturing" \/ a = Flusher)
  IN /\ alive' = alive \ {t}
     /\ queue' = [queue EXCEPT ![t] = <<>>]
     /\ login' = [login EXCEPT ![t] = 0]
     /\ pc'    = [a \in Actors |-> IF over(a) THEN "idle"
                                   ELSE IF heard(a) THEN "holding" ELSE pc[a]]
     /\ call'  = [a \in Actors |-> IF over(a) THEN None ELSE call[a]]
     /\ lock'  = IF \E c \in Clients : lock = c /\ over(c)
                 THEN NoOne ELSE lock
     /\ UNCHANGED <<phase, counter, live, dormant, snap, clock, todo, ended,
                    acked>>

\* A client command is done.  A failed one, and a probe sent without the
\* mutex, return; the others go on to persist_after_success.
RunCommand(t) ==
  /\ queue[t] # <<>> /\ Head(queue[t]).what = "cmd"
  /\ queue' = [queue EXCEPT ![t] = Tail(@)]
  /\ LET c == Head(queue[t]).from IN
     \/ /\ c = NoOne
        /\ UNCHANGED <<lock, pc, call>>
     \/ /\ c # NoOne /\ pc[c] = "awaiting"
        /\ call[c].renew \/ call[c].locked
        /\ pc'   = [pc EXCEPT ![c] = "replied"]
        /\ call' = [call EXCEPT ![c].seen = login[t]]
        /\ UNCHANGED lock
     \/ c # NoOne /\ pc[c] = "awaiting" /\ Return(c)
  /\ UNCHANGED <<phase, counter, live, dormant, snap, alive, login, clock,
                 todo, ended, acked>>

\* The capture's read is answered and its handler, which holds the mutex,
\* saves: an anonymous session into the snapshot store, an account session
\* into the account store.  A read may fail, and then nothing is saved.
RunRead(t) ==
  /\ queue[t] # <<>> /\ Head(queue[t]).what = "read"
  /\ queue' = [queue EXCEPT ![t] = Tail(@)]
  /\ LET a == Head(queue[t]).from IN
     \/ /\ a = NoOne
        /\ UNCHANGED <<snap, pc, call>>
     \/ /\ a # NoOne /\ pc[a] = "capturing"
        /\ LET id == call[a].id
               s  == live[id]
           IN snap' \in
                (IF s # None /\ s.account THEN {snap}
                 ELSE {[snap EXCEPT ![id] = SavedState(s, login[t])]})
                \cup (IF Faults THEN {snap} ELSE {})
        /\ pc'   = [pc EXCEPT ![a] =
                      IF a = Flusher THEN "idle" ELSE "holding"]
        /\ call' = IF a = Flusher THEN [call EXCEPT ![a] = None] ELSE call
  /\ UNCHANGED <<phase, lock, counter, live, dormant, alive, login, clock,
                 todo, ended, acked>>

RunClose(t) ==
  queue[t] # <<>> /\ Head(queue[t]).what = "close" /\ Dies(t)

\* The heap guard drops the realm, or the thread panics.
ThreadDies(t) == Faults /\ t \in alive /\ Dies(t)

\* The page logs in, logs out, or rotates a token, by command or by script.
PageWrites(t) ==
  /\ t \in alive /\ clock < MaxLogin
  /\ clock' = clock + 1
  /\ login' = [login EXCEPT ![t] = clock + 1]
  /\ UNCHANGED <<phase, lock, counter, live, dormant, snap, alive, queue, pc,
                 call, todo, ended, acked>>

--------------------------------------------------------------------------
(* Closing and eviction.                                                   *)

\* close: fire and forget, whatever the id names.
CloseSession(id) ==
  /\ CanLock
  /\ queue'   = HangUp({id})
  /\ live'    = Without(live, {id})
  /\ dormant' = Without(dormant, {id})
  /\ snap'    = Without(snap, {id})
  /\ call'    = Forgive(id)
  /\ Drops(id, "over")
  /\ UNCHANGED <<phase, lock, counter, alive, login, clock, pc, todo>>

\* close_and_wait, the session_close request.  It holds the mutex until the
\* thread acknowledges; an id in neither map is answered ok: false, and
\* whatever snapshot it has stays.
CloseAndWait(c, id) ==
  /\ CanLock /\ pc[c] = "idle"
  /\ \/ /\ live[id] # None
        /\ live' = Without(live, {id})
        /\ snap' = Without(snap, {id})
        /\ LET t == live[id].thread IN
           IF t \in alive
           THEN /\ queue' = [queue EXCEPT ![t] =
                               Append(@, [from |-> c, what |-> "close"])]
                /\ pc'    = [pc EXCEPT ![c] = "closing"]
                /\ call'  = [Forgive(id) EXCEPT ![c] =
                               [id |-> id, thread |-> t, renew |-> FALSE,
                                locked |-> TRUE, durable |-> FALSE,
                                seen |-> 0]]
                /\ lock'  = c
           ELSE call' = Forgive(id) /\ UNCHANGED <<queue, pc, lock>>
        /\ Drops(id, "over")
        /\ UNCHANGED dormant
     \/ /\ live[id] = None /\ dormant[id] # None
        /\ dormant' = Without(dormant, {id})
        /\ snap'    = Without(snap, {id})
        /\ call'    = Forgive(id)
        /\ Drops(id, "over")
        /\ UNCHANGED <<lock, live, queue, pc>>
     \/ /\ live[id] = None /\ dormant[id] = None /\ snap[id] # None
        /\ ended' = [ended EXCEPT ![id] = "refused"]
        /\ UNCHANGED <<lock, live, dormant, snap, queue, pc, call, acked>>
  /\ UNCHANGED <<phase, counter, alive, login, clock, todo>>

\* evict_expired: expired sessions and shells leave their map, those not
\* persistent with their snapshot; stale snapshots are purged.
EvictExpired ==
  LET out  == {id \in Ids : \E s \in {live[id], dormant[id]} \ {None} :
                              Expired(s)}
      lost == {id \in out : \E s \in {live[id], dormant[id]} \ {None} :
                              ~s.persistent}
      aged == {id \in Ids : snap[id] # None /\ snap[id].stale}
  IN /\ queue'   = HangUp(out)
     /\ live'    = Without(live, out)
     /\ dormant' = Without(dormant, out)
     /\ snap'    = Without(snap, lost \cup aged)
     /\ ended'   = [id \in Ids |-> IF id \in lost THEN "over"
                                                  ELSE ended[id]]
     /\ acked'   = [id \in Ids |-> IF id \in lost THEN 0 ELSE acked[id]]

Evict ==
  /\ CanLock /\ EvictExpired
  /\ UNCHANGED <<phase, lock, counter, alive, login, clock, pc, call, todo>>

--------------------------------------------------------------------------
(* Time, shutdown and restart.                                             *)

\* One tick of the idle clock of a session nobody renewed.  A command on its
\* way does not hold its session: last_used is the time it was sent.
IdleTick(id) ==
  /\ phase # "down"
  /\ \/ /\ live[id] # None /\ ~live[id].keepalive /\ live[id].idle < TTL
        /\ live' = [live EXCEPT ![id].idle = @ + 1]
        /\ call' = IF Expired(live'[id]) THEN Forgive(id) ELSE call
        /\ UNCHANGED dormant
     \/ /\ dormant[id] # None /\ ~dormant[id].keepalive
        /\ dormant[id].idle < TTL
        /\ dormant' = [dormant EXCEPT ![id].idle = @ + 1]
        /\ UNCHANGED <<live, call>>
  /\ UNCHANGED <<phase, lock, counter, snap, alive, queue, login, clock, pc,
                 todo, ended, acked>>

\* A day passes since the snapshot was saved (the flush lasts a minute).
SnapshotAges(id) ==
  /\ phase # "flushing" /\ Usable(id)
  /\ snap'  = [snap EXCEPT ![id].stale = TRUE]
  /\ call'  = Forgive(id)
  /\ acked' = [acked EXCEPT ![id] = 0]
  /\ UNCHANGED <<phase, lock, clock, pc, ended, memory>>

\* Mutant: only the persistent sessions are flushed.
FleetPersistent(map) == {id \in Ids : map[id] # None /\ map[id].persistent}
\* The sessions the flush visits.
Fleet(map) == {id \in Ids : map[id] # None}

\* SIGTERM: flush_for_shutdown takes the mutex, evicts, and captures one
\* live session after the other.
FlushStart ==
  /\ phase = "serving" /\ lock = NoOne
  /\ EvictExpired
  /\ phase' = "flushing" /\ lock' = Flusher
  /\ todo'  = Fleet(live')
  /\ UNCHANGED <<counter, alive, login, clock, pc, call>>

FlushNext(id) ==
  LET t == live[id].thread IN
  /\ phase = "flushing" /\ pc[Flusher] = "idle" /\ id \in todo
  /\ todo' = todo \ {id}
  /\ IF Listening(t)
     THEN /\ queue' = [queue EXCEPT ![t] =
                         Append(@, [from |-> Flusher, what |-> "read"])]
          /\ pc'    = [pc EXCEPT ![Flusher] = "capturing"]
          /\ call'  = [call EXCEPT ![Flusher] =
                         [id |-> id, thread |-> t, renew |-> FALSE,
                          locked |-> TRUE, durable |-> FALSE, seen |-> 0]]
     ELSE UNCHANGED <<queue, pc, call>>
  /\ UNCHANGED <<phase, lock, counter, live, dormant, snap, alive, login,
                 clock, ended, acked>>

\* The session's 10 s or the whole flush's 60 s are spent.
FlushTimeout ==
  /\ Faults /\ phase = "flushing"
  /\ pc'    = [pc EXCEPT ![Flusher] = "idle"]
  /\ call'  = [call EXCEPT ![Flusher] = None]
  /\ queue' = Unheard(Flusher)
  /\ todo'  \in {todo, {}}
  /\ UNCHANGED <<phase, lock, counter, live, dormant, snap, alive, login,
                 clock, ended, acked>>

\* The flush returns.  Requests that were waiting for the mutex still run.
FlushEnd ==
  /\ phase = "flushing" /\ pc[Flusher] = "idle" /\ todo = {}
  /\ phase' = "draining" /\ lock' = NoOne
  /\ UNCHANGED <<snap, clock, pc, call, ended, acked, memory>>

\* The process ends: after its shutdown, or killed at any earlier point.
Stop ==
  /\ phase # "down"
  /\ phase'   = "down" /\ lock' = NoOne /\ counter' = 1
  /\ live'    = [id \in Ids |-> None]
  /\ dormant' = [id \in Ids |-> None]
  /\ alive'   = {} /\ todo' = {}
  /\ queue'   = [t \in Threads |-> <<>>]
  /\ login'   = [t \in Threads |-> 0]
  /\ pc'      = [a \in Actors |-> "idle"]
  /\ call'    = [a \in Actors |-> None]
  /\ UNCHANGED <<snap, clock, ended, acked>>

\* main: restore_all registers a shell per snapshot before the listener
\* opens, and drops the stale ones it meets.
Boot(mode) ==
  LET met == {id \in Ids : /\ mode # "off" /\ snap[id] # None
                           /\ mode = "skip-keepalive" => ~snap[id].keepalive}
  IN /\ phase = "down" /\ phase' = "serving"
     /\ dormant' = [id \in Ids |->
                      IF id \in met /\ Usable(id)
                      THEN [persistent |-> snap[id].persistent,
                            keepalive |-> snap[id].keepalive, idle |-> 0]
                      ELSE None]
     /\ snap' = Without(snap, {id \in met : ~Usable(id)})
     /\ UNCHANGED <<lock, counter, live, alive, queue, login, clock, pc,
                    call, todo, ended, acked>>

--------------------------------------------------------------------------
Init ==
  /\ phase   = "down" /\ lock = NoOne /\ counter = 1 /\ clock = 0
  /\ live    = [id \in Ids |-> None]
  /\ dormant = [id \in Ids |-> None]
  /\ snap    = [id \in Ids |-> None]
  /\ alive   = {} /\ todo = {}
  /\ queue   = [t \in Threads |-> <<>>]
  /\ login   = [t \in Threads |-> 0]
  /\ pc      = [a \in Actors |-> "idle"]
  /\ call    = [a \in Actors |-> None]
  /\ ended   = [id \in Ids |-> "no"]
  /\ acked   = [id \in Ids |-> 0]

Request ==
  \/ \E kind \in Kinds : CreateSession(kind)
  \/ \E c \in Clients, id \in Ids, renew \in BOOLEAN, locked \in BOOLEAN :
       BeginLive(c, id, renew, locked) \/ BeginRevive(c, id, renew, locked)
  \/ \E id \in Ids, renew \in BOOLEAN : RefuseMissing(id, renew)
  \/ \E id \in Ids : RefuseExpired(id) \/ CloseSession(id)
  \/ \E c \in Clients, id \in Ids : CloseAndWait(c, id)
  \/ Evict

Progress(c) == Submit(c) \/ Persist(c) \/ Release(c)

Thread(t) == t \in alive /\ (RunCommand(t) \/ RunRead(t) \/ RunClose(t))

Flush == FlushStart \/ (\E id \in Ids : FlushNext(id)) \/ FlushTimeout
         \/ FlushEnd

Environment ==
  \/ \E t \in Threads : PageWrites(t) \/ ThreadDies(t)
  \/ \E id \in Ids : IdleTick(id) \/ SnapshotAges(id)
  \/ \E c \in Clients : GiveUp(c)
  \/ Stop \/ \E mode \in RestoreModes : Boot(mode)

Next ==
  \/ Request
  \/ \E c \in Clients : Progress(c) \/ CloneSession(c)
  \/ \E t \in Threads : Thread(t)
  \/ Flush
  \/ Environment

Spec == Init /\ [][Next]_vars

--------------------------------------------------------------------------
(* Properties.                                                             *)

\* Every variable stays within its type: maps hold entries or None, an idle
\* clock stays within the TTL, channels hold commands of known handlers.
TypeOK ==
  /\ phase \in {"down", "serving", "flushing", "draining"}
  /\ lock \in Actors \cup {NoOne}
  /\ counter \in 1..(MaxId + 1)
  /\ live \in [Ids -> Session \cup {None}]
  /\ dormant \in [Ids -> Shell \cup {None}]
  /\ snap \in [Ids -> Snapshot \cup {None}]
  /\ alive \subseteq Threads
  /\ queue \in [Threads -> Seq(Command)]
  /\ login \in [Threads -> 0..MaxLogin]
  /\ clock \in 0..MaxLogin
  /\ pc \in [Actors -> {"idle", "prepared", "awaiting", "replied",
                        "capturing", "holding", "closing"}]
  /\ call \in [Actors -> Call \cup {None}]
  /\ todo \subseteq Ids
  /\ ended \in [Ids -> {"no", "over", "refused"}]
  /\ acked \in [Ids -> 0..MaxLogin]

\* Who holds the mutex owns what it looked up: a capture runs under it on a
\* session that is still registered when the answer comes, the flush keeps
\* it from its first session to its last and every session it has yet to
\* visit stays, and a process that is down has neither handlers nor sessions.
LockDiscipline ==
  /\ \A a \in Actors : pc[a] = "idle" <=> call[a] = None
  /\ \A a \in Actors : pc[a] = "capturing" =>
                          lock = a /\ live[call[a].id] # None
  /\ pc[Flusher] \in {"idle", "capturing"}
  /\ phase = "flushing" =>
       lock = Flusher /\ \A id \in todo : live[id] # None
  /\ phase = "down" => /\ \A a \in Actors : pc[a] = "idle"
                       /\ \A id \in Ids : live[id] = None

\* An id is never both a live session and a dormant shell: prepare_send
\* looks at the shell first, so a live session behind one would be
\* unreachable, and promoting the shell would leak its thread.
OneHome == \A id \in Ids : live[id] = None \/ dormant[id] = None

\* "Done means done" (close, manager.rs): once a session was closed, or
\* expired without being persistent, no late capture, flush, eviction,
\* restart or revival brings any trace of it back, until create hands the
\* id out again.
DoneMeansDone ==
  \A id \in Ids : ended[id] = "over" =>
    live[id] = None /\ dormant[id] = None /\ snap[id] = None

\* A session comes back as what it was (#88): the snapshot on disk carries
\* the flags of the session or shell it belongs to, so a plain session does
\* not return immortal, and an account session leaves no snapshot at all.
FlagsAgree ==
  \A id \in Ids : snap[id] # None =>
    /\ live[id] # None =>
         /\ ~live[id].account
         /\ live[id].persistent = snap[id].persistent
         /\ live[id].keepalive = snap[id].keepalive
    /\ dormant[id] # None =>
         /\ dormant[id].persistent = snap[id].persistent
         /\ dormant[id].keepalive = snap[id].keepalive

\* No leaked browser: a running thread either serves exactly one registered
\* session or has a Close waiting in its channel.
NoOrphanThread ==
  /\ \A t \in alive :
       \/ \E id \in Ids : live[id] # None /\ live[id].thread = t
       \/ \E i \in DOMAIN queue[t] : queue[t][i].what = "close"
  /\ \A i, j \in Ids : live[i] # None /\ live[j] # None
                       /\ live[i].thread = live[j].thread => i = j

\* The saved login state never goes backwards while it exists, although an
\* evicted session's old thread and its revived successor may run at once.
SnapshotNeverRollsBack ==
  [][\A id \in Ids : snap[id] # None /\ snap'[id] # None =>
                     snap[id].login <= snap'[id].login]_vars

\* A call gets its channel: the step in which prepare_send succeeds.
Admitted(c) == pc[c] = "idle" /\ pc'[c] = "prepared"

\* "A preview must not keep a session alive" (send_command_readonly): a
\* probe admitted to an unexpired session leaves every idle clock alone and
\* wakes no dormant shell.
ProbeLeavesClocks ==
  [][\A c \in Clients : Admitted(c) /\ ~call'[c].renew =>
       /\ dormant' = dormant
       /\ \A id \in Ids : live[id] # None /\ ~Expired(live[id]) =>
                          live'[id] = live[id]]_vars

\* The stronger reading of the same comment: a probe starts no browser.
ProbeWakesNobody ==
  [][\A c \in Clients : Admitted(c) /\ ~call'[c].renew =>
                        alive' \subseteq alive]_vars

\* "session_close drops the snapshot" (state.rs): after a close request the
\* id's login state is gone from disk, whatever the session was doing.
CloseIsForGood ==
  \A id \in Ids : ended[id] # "no" => snap[id] = None

\* "One long command must not freeze every session's calls" (send_command):
\* the mutex is never held across a wait behind another caller's command.
LockNeverWaitsBehindACommand ==
  \A c \in Clients : pc[c] = "capturing" =>
    LET q == queue[call[c].thread] IN
    \A i, j \in DOMAIN q : i < j /\ q[j].from = c => q[i].what # "cmd"

\* The login state is snapshotted after every command: what a caller of a
\* persistent session was told is done is on disk, across eviction, revival
\* and restart, until the session is closed or its snapshot ages out.  An Ok
\* promises this unless the session's idle time ran out under the call.
AckedLoginIsDurable ==
  \A id \in Ids : acked[id] > 0 =>
    snap[id] # None /\ acked[id] <= snap[id].login

\* The claim as it is documented: "the login state is snapshotted to the local
\* store after every command" (state.rs), so whoever hears Ok on a session
\* still open finds on disk the login state its command left, however long
\* the command took.
OkIsSaved ==
  [][\A c \in Clients :
       LET id == call[c].id IN
       Release(c) /\ call[c].renew /\ call[c].seen > 0 /\ ended[id] = "no" =>
         snap[id] # None /\ call[c].seen <= snap[id].login]_vars

\* #88, "an upgrade must not cost live sessions": when the shutdown flush
\* returns, every anonymous live session, persistent or not, has a snapshot
\* the next process can revive it from.
FlushCoversFleet ==
  [][phase = "flushing" /\ phase' = "draining" =>
     \A id \in Ids : live[id] # None /\ ~live[id].account => Usable(id)]_vars

--------------------------------------------------------------------------
(* Fairness: a running thread serves its channel; the async mutex is a     *)
(* FIFO queue, so a handler that waits for it gets it; a handler that has  *)
(* its answer runs on.  Callers, pages, time and crashes are not fair.     *)
FairSpec ==
  /\ Spec
  /\ \A t \in Threads : WF_vars(Thread(t))
  /\ \A c \in Clients : SF_vars(Progress(c))
  /\ \A id \in Ids : WF_vars(FlushNext(id))
  /\ WF_vars(FlushEnd)

\* Every call is answered: no handler waits for ever on a thread that was
\* closed, evicted or lost, nor on the mutex.
EveryCallReturns == \A c \in Clients : pc[c] # "idle" ~> pc[c] = "idle"

\* The process does shut down: the flush ends, no capture can block it.
FlushTerminates == phase = "flushing" ~> phase # "flushing"
=============================================================================
