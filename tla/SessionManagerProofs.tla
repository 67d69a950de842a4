------------------------ MODULE SessionManagerProofs ------------------------
(***************************************************************************)
(* Proofs about SessionManager, for every number of clients, threads and   *)
(* ids, every kind of session, restore mode, fault and timing, except that *)
(* the last two theorems assume what their statements name.                *)
(***************************************************************************)
EXTENDS SessionManager, SequenceTheorems, TLAPS

USE ConstantsAssumption, NoneAssumption

--------------------------------------------------------------------------
(* What the helpers return.                                               *)

\* One more command at the end of a channel leaves a channel.
LEMMA AppendTyped ==
  ASSUME NEW q \in Seq(Command), NEW m \in Command
  PROVE  Append(q, m) \in Seq(Command)
  BY AppendProperties

\* Taking the first command off a channel leaves a channel.
LEMMA TailTyped ==
  ASSUME NEW q \in Seq(Command), q # <<>>
  PROVE  Head(q) \in Command /\ Tail(q) \in Seq(Command)
  BY HeadTailProperties

\* Hanging up on sessions leaves channels.
LEMMA HangUpTyped ==
  ASSUME TypeOK, NEW S
  PROVE  HangUp(S) \in [Threads -> Seq(Command)]
<1>1. CloseCmd \in Command
  BY DEF CloseCmd, Command
<1>2. ASSUME NEW t \in Threads
      PROVE  queue[t] \in Seq(Command)
             /\ Append(queue[t], CloseCmd) \in Seq(Command)
  BY <1>1, <1>2, AppendTyped DEF TypeOK
<1>3. QED
  BY <1>2 DEF HangUp

\* Dropping reply receivers leaves channels.
LEMMA UnheardTyped ==
  ASSUME TypeOK, NEW a \in Actors
  PROVE  Unheard(a) \in [Threads -> Seq(Command)]
<1>1. ASSUME NEW t \in Threads
      PROVE  [i \in DOMAIN queue[t] |->
                IF queue[t][i].from = a
                THEN [queue[t][i] EXCEPT !.from = NoOne]
                ELSE queue[t][i]] \in Seq(Command)
  <2>1. queue[t] \in Seq(Command)
    BY DEF TypeOK
  <2>2. DOMAIN queue[t] = 1..Len(queue[t]) /\ Len(queue[t]) \in Nat
    BY <2>1, LenProperties
  <2>3. ASSUME NEW i \in 1..Len(queue[t])
        PROVE  queue[t][i] \in Command
    BY <2>1, ElementOfSeq
  <2>4. ASSUME NEW i \in 1..Len(queue[t])
        PROVE  [queue[t][i] EXCEPT !.from = NoOne] \in Command
    BY <2>3 DEF Command
  <2>5. [i \in DOMAIN queue[t] |->
           IF queue[t][i].from = a
           THEN [queue[t][i] EXCEPT !.from = NoOne]
           ELSE queue[t][i]] \in [1..Len(queue[t]) -> Command]
    BY <2>2, <2>3, <2>4
  <2>6. QED
    BY <2>2, <2>5, SeqDef
<1>2. QED
  BY <1>1 DEF Unheard

\* Removing ids from a map leaves a map.
LEMMA WithoutTyped ==
  ASSUME NEW T, NEW map \in [Ids -> T \cup {None}], NEW S
  PROVE  Without(map, S) \in [Ids -> T \cup {None}]
  BY DEF Without

\* Forgiving an id changes nothing a call is about.
LEMMA ForgiveTyped ==
  ASSUME TypeOK, NEW id \in Ids
  PROVE  /\ Forgive(id) \in [Actors -> Call \cup {None}]
         /\ \A a \in Actors : /\ Forgive(id)[a] = None <=> call[a] = None
                              /\ call[a] # None =>
                                   Forgive(id)[a].id = call[a].id
<1>1. ASSUME NEW a \in Actors, call[a] # None
      PROVE  /\ [call[a] EXCEPT !.durable = FALSE] \in Call
             /\ [call[a] EXCEPT !.durable = FALSE].id = call[a].id
  <2>1. call[a] \in Call
    BY <1>1 DEF TypeOK
  <2>2. QED
    BY <2>1 DEF Call
<1>2. QED
  BY <1>1 DEF Forgive, TypeOK

\* A tick of an idle clock at most forgives its id, and moves no handler.
LEMMA TickForgives ==
  ASSUME NEW id \in Ids, IdleTick(id)
  PROVE  call' \in {call, Forgive(id)} /\ UNCHANGED <<pc, acked, snap, login>>
  BY DEF IdleTick

\* A spawned session is a session on a running thread.
LEMMA SpawnTyped ==
  ASSUME TypeOK, NEW id \in Ids, NEW t \in Threads,
         NEW kind, kind.persistent \in BOOLEAN, kind.keepalive \in BOOLEAN,
         kind.account \in BOOLEAN, NEW n \in 0..MaxLogin,
         Spawn(id, t, kind, n)
  PROVE  /\ live' \in [Ids -> Session \cup {None}]
         /\ alive' \subseteq Threads
         /\ queue' \in [Threads -> Seq(Command)]
         /\ login' \in [Threads -> 0..MaxLogin]
         /\ \A i \in Ids : live'[i] = None <=> i # id /\ live[i] = None
<1>1. [thread |-> t, persistent |-> kind.persistent,
       keepalive |-> kind.keepalive, account |-> kind.account,
       idle |-> 0] \in Session
  BY DEF Session
<1>2. QED
  BY <1>1, HangUpTyped DEF Spawn, TypeOK

\* A handler that answers its caller leaves a typed state.
LEMMA ReturnTyped ==
  ASSUME TypeOK, NEW c \in Actors, Return(c)
  PROVE  /\ pc' \in [Actors -> {"idle", "prepared", "awaiting", "replied",
                                "capturing", "holding", "closing"}]
         /\ call' \in [Actors -> Call \cup {None}]
         /\ lock' \in Actors \cup {NoOne}
  BY DEF Return, TypeOK

\* So does one that gets its channel.
LEMMA EnterTyped ==
  ASSUME TypeOK, NEW c \in Clients, NEW id \in Ids, NEW t \in Threads,
         NEW renew \in BOOLEAN, NEW locked \in BOOLEAN,
         NEW s, s.persistent \in BOOLEAN, s.account \in BOOLEAN,
         Enter(c, id, t, renew, locked, s)
  PROVE  /\ pc' \in [Actors -> {"idle", "prepared", "awaiting", "replied",
                                "capturing", "holding", "closing"}]
         /\ call' \in [Actors -> Call \cup {None}]
         /\ lock' \in Actors \cup {NoOne}
         /\ pc'[c] = "prepared" /\ call'[c] # None
         /\ \A a \in Actors \ {c} : pc'[a] = pc[a] /\ call'[a] = call[a]
<1>1. c \in Actors
  BY DEF Actors
<1>2. (Promised(s) /\ renew) \in BOOLEAN
  OBVIOUS
<1>3. 0 \in 0..MaxLogin
  BY DEF Promised
<1>4. [id |-> id, thread |-> t, renew |-> renew, locked |-> locked,
       durable |-> Promised(s) /\ renew, seen |-> 0] \in Call
  BY <1>2, <1>3 DEF Call
<1>5. QED
  BY <1>1, <1>4 DEF Enter, TypeOK

\* Ending an id, or starting it anew, is recorded within the type.
LEMMA DropsTyped ==
  ASSUME TypeOK, NEW id \in Ids, NEW how \in {"no", "over", "refused"},
         Drops(id, how)
  PROVE  /\ ended' \in [Ids -> {"no", "over", "refused"}]
         /\ acked' \in [Ids -> 0..MaxLogin]
<1>1. 0 \in 0..MaxLogin
  OBVIOUS
<1>2. QED
  BY <1>1 DEF Drops, TypeOK

\* Eviction leaves maps, channels and history typed.
LEMMA EvictTyped ==
  ASSUME TypeOK, EvictExpired
  PROVE  /\ queue' \in [Threads -> Seq(Command)]
         /\ live' \in [Ids -> Session \cup {None}]
         /\ dormant' \in [Ids -> Shell \cup {None}]
         /\ snap' \in [Ids -> Snapshot \cup {None}]
         /\ ended' \in [Ids -> {"no", "over", "refused"}]
         /\ acked' \in [Ids -> 0..MaxLogin]
         /\ \A id \in Ids : live'[id] \in {live[id], None}
<1>1. queue' \in [Threads -> Seq(Command)]
  BY HangUpTyped DEF EvictExpired
<1>2. /\ live' \in [Ids -> Session \cup {None}]
      /\ dormant' \in [Ids -> Shell \cup {None}]
      /\ snap' \in [Ids -> Snapshot \cup {None}]
      /\ \A id \in Ids : live'[id] \in {live[id], None}
  BY DEF EvictExpired, Without, TypeOK
<1>3. /\ ended' \in [Ids -> {"no", "over", "refused"}]
      /\ acked' \in [Ids -> 0..MaxLogin]
  <2>1. 0 \in 0..MaxLogin
    OBVIOUS
  <2>2. QED
    BY <2>1 DEF EvictExpired, TypeOK
<1>4. QED
  BY <1>1, <1>2, <1>3

\* A thread that ends leaves a typed state, in which every handler that
\* waited on it is idle again, or a client's capture has become moot.
LEMMA DiesTyped ==
  ASSUME TypeOK, NEW t \in Threads, Dies(t)
  PROVE  /\ alive' \subseteq Threads
         /\ queue' \in [Threads -> Seq(Command)]
         /\ login' \in [Threads -> 0..MaxLogin]
         /\ pc' \in [Actors -> {"idle", "prepared", "awaiting", "replied",
                                "capturing", "holding", "closing"}]
         /\ call' \in [Actors -> Call \cup {None}]
         /\ lock' \in {lock, NoOne}
         /\ \A a \in Actors :
              \/ pc'[a] = "idle" /\ call'[a] = None
              \/ /\ pc'[a] = "holding" /\ pc[a] = "capturing"
                 /\ a # Flusher /\ call'[a] = call[a]
              \/ pc'[a] = pc[a] /\ call'[a] = call[a]
         /\ \A a \in Actors :
              lock = a /\ pc'[a] # "idle" => lock' = a
         /\ lock = Flusher => lock' = Flusher
<1> DEFINE heard(a) == Pending(a, t)
           over(a)  == heard(a) /\ (pc[a] # "capturing" \/ a = Flusher)
<1>1. <<>> \in Seq(Command) /\ 0 \in 0..MaxLogin
  BY EmptySeq
<1>2. /\ alive' \subseteq Threads
      /\ queue' \in [Threads -> Seq(Command)]
      /\ login' \in [Threads -> 0..MaxLogin]
  BY <1>1 DEF Dies, TypeOK
<1>3. /\ pc' = [a \in Actors |-> IF over(a) THEN "idle"
                                 ELSE IF heard(a) THEN "holding" ELSE pc[a]]
      /\ call' = [a \in Actors |-> IF over(a) THEN None ELSE call[a]]
      /\ lock' = IF \E c \in Clients : lock = c /\ over(c)
                 THEN NoOne ELSE lock
  BY DEF Dies
<1>4. Flusher \notin Clients /\ Clients \subseteq Actors
  BY DEF Actors
<1> HIDE DEF heard
<1>5. QED
  BY <1>2, <1>3, <1>4 DEF TypeOK

--------------------------------------------------------------------------
(* Type correctness.  LockDiscipline is needed for one thing only: a       *)
(* handler that is not idle has a call.                                    *)

LEMMA TypeInit == Init => TypeOK
<1>1. /\ <<>> \in Seq(Command) /\ 0 \in 0..MaxLogin
      /\ 1 \in 1..(MaxId + 1)
  BY EmptySeq
<1>2. QED
  BY <1>1 DEF Init, TypeOK

LEMMA TypeRequest == TypeOK /\ LockDiscipline /\ Request => TypeOK'
<1> SUFFICES ASSUME TypeOK, LockDiscipline, Request
             PROVE  TypeOK'
  OBVIOUS
<1>1. 0 \in 0..MaxLogin /\ Clients \subseteq Actors
  BY DEF Actors
<1>2. ASSUME NEW kind \in Kinds, CreateSession(kind)
      PROVE  TypeOK'
  <2>1. PICK id \in Ids, t \in Threads :
          NextId(id) /\ Spawn(id, t, kind, 0) /\ counter' = id + 1
          /\ Drops(id, "no")
    BY <1>2 DEF CreateSession
  <2>2. kind \in Kind
    OBVIOUS
  <2>3. /\ kind.persistent \in BOOLEAN /\ kind.keepalive \in BOOLEAN
        /\ kind.account \in BOOLEAN
    BY <2>2 DEF Kind
  <2>4. counter' \in 1..(MaxId + 1)
    BY <2>1 DEF Ids
  <2>5. /\ live' \in [Ids -> Session \cup {None}]
        /\ alive' \subseteq Threads
        /\ queue' \in [Threads -> Seq(Command)]
        /\ login' \in [Threads -> 0..MaxLogin]
    BY <1>1, <2>1, <2>3, SpawnTyped
  <2>6. /\ ended' \in [Ids -> {"no", "over", "refused"}]
        /\ acked' \in [Ids -> 0..MaxLogin]
    BY <2>1, DropsTyped
  <2>7. QED
    BY <1>2, <2>4, <2>5, <2>6 DEF CreateSession, TypeOK
<1>3. ASSUME NEW c \in Clients, NEW id \in Ids, NEW renew \in BOOLEAN,
             NEW locked \in BOOLEAN, BeginLive(c, id, renew, locked)
      PROVE  TypeOK'
  <2>1. live[id] \in Session
    BY <1>3 DEF BeginLive, TypeOK
  <2>2. /\ live[id].thread \in Threads
        /\ live[id].persistent \in BOOLEAN /\ live[id].account \in BOOLEAN
        /\ Touch(live[id], renew) \in Session
    BY <2>1 DEF Session, Touch
  <2>3. live' \in [Ids -> Session \cup {None}]
    BY <1>3, <2>2 DEF BeginLive, TypeOK
  <2>4. Enter(c, id, live[id].thread, renew, locked, live[id])
    BY <1>3 DEF BeginLive
  <2>5. /\ pc' \in [Actors -> {"idle", "prepared", "awaiting", "replied",
                               "capturing", "holding", "closing"}]
        /\ call' \in [Actors -> Call \cup {None}]
        /\ lock' \in Actors \cup {NoOne}
    BY <2>2, <2>4, EnterTyped
  <2>6. QED
    BY <1>3, <2>3, <2>5 DEF BeginLive, TypeOK
<1>4. ASSUME NEW c \in Clients, NEW id \in Ids, NEW renew \in BOOLEAN,
             NEW locked \in BOOLEAN, BeginRevive(c, id, renew, locked)
      PROVE  TypeOK'
  <2> DEFINE kind == [persistent |-> snap[id].persistent,
                      keepalive |-> snap[id].keepalive, account |-> FALSE]
  <2>1. snap[id] \in Snapshot
    BY <1>4 DEF BeginRevive, Usable, TypeOK
  <2>2. /\ snap[id].login \in 0..MaxLogin
        /\ kind.persistent \in BOOLEAN /\ kind.keepalive \in BOOLEAN
        /\ kind.account \in BOOLEAN
    BY <2>1 DEF Snapshot
  <2>3. PICK t \in Threads : /\ Spawn(id, t, kind, snap[id].login)
                             /\ Enter(c, id, t, renew, locked, kind)
    BY <1>4 DEF BeginRevive
  <2> HIDE DEF kind
  <2>4. /\ live' \in [Ids -> Session \cup {None}]
        /\ alive' \subseteq Threads
        /\ queue' \in [Threads -> Seq(Command)]
        /\ login' \in [Threads -> 0..MaxLogin]
    BY <2>2, <2>3, SpawnTyped
  <2>5. /\ pc' \in [Actors -> {"idle", "prepared", "awaiting", "replied",
                               "capturing", "holding", "closing"}]
        /\ call' \in [Actors -> Call \cup {None}]
        /\ lock' \in Actors \cup {NoOne}
    BY <2>2, <2>3, EnterTyped
  <2>6. dormant' \in [Ids -> Shell \cup {None}]
    BY <1>4, WithoutTyped DEF BeginRevive, TypeOK
  <2>7. QED
    BY <1>4, <2>4, <2>5, <2>6 DEF BeginRevive, TypeOK
<1>5. ASSUME NEW S
      PROVE  /\ Without(live, S) \in [Ids -> Session \cup {None}]
             /\ Without(dormant, S) \in [Ids -> Shell \cup {None}]
             /\ Without(snap, S) \in [Ids -> Snapshot \cup {None}]
  BY WithoutTyped DEF TypeOK
<1>6. ASSUME NEW id \in Ids, NEW renew \in BOOLEAN, RefuseMissing(id, renew)
      PROVE  TypeOK'
  BY <1>5, <1>6, HangUpTyped DEF RefuseMissing, TypeOK
<1>7. ASSUME NEW id \in Ids, RefuseExpired(id)
      PROVE  TypeOK'
  BY <1>5, <1>7, HangUpTyped, DropsTyped DEF RefuseExpired, TypeOK
<1>8. ASSUME NEW id \in Ids, CloseSession(id)
      PROVE  TypeOK'
  BY <1>5, <1>8, HangUpTyped, DropsTyped, ForgiveTyped
     DEF CloseSession, TypeOK
<1>9. ASSUME NEW c \in Clients, NEW id \in Ids, CloseAndWait(c, id)
      PROVE  TypeOK'
  <2>1. CASE live[id] # None
    <3> DEFINE t == live[id].thread
    <3>1. live[id] \in Session
      BY <2>1 DEF TypeOK
    <3>2. t \in Threads
      BY <3>1 DEF Session
    <3>3. /\ [from |-> c, what |-> "close"] \in Command
          /\ [id |-> id, thread |-> t, renew |-> FALSE, locked |-> TRUE,
              durable |-> FALSE, seen |-> 0] \in Call
      BY <1>1, <3>2 DEF Command, Call
    <3>4. Append(queue[t], [from |-> c, what |-> "close"]) \in Seq(Command)
      BY <3>2, <3>3, AppendTyped DEF TypeOK
    <3>5. /\ live' = Without(live, {id}) /\ snap' = Without(snap, {id})
          /\ Drops(id, "over") /\ dormant' = dormant
          /\ UNCHANGED <<phase, counter, alive, login, clock, todo>>
      BY <1>9, <2>1 DEF CloseAndWait
    <3>6. CASE t \in alive
      <4>1. /\ queue' = [queue EXCEPT ![t] =
                           Append(@, [from |-> c, what |-> "close"])]
            /\ pc'    = [pc EXCEPT ![c] = "closing"]
            /\ call'  = [Forgive(id) EXCEPT ![c] =
                           [id |-> id, thread |-> t, renew |-> FALSE,
                            locked |-> TRUE, durable |-> FALSE, seen |-> 0]]
            /\ lock'  = c
        BY <1>9, <2>1, <3>6 DEF CloseAndWait
      <4>2. queue' \in [Threads -> Seq(Command)]
        BY <3>2, <3>4, <4>1 DEF TypeOK
      <4>3. call' \in [Actors -> Call \cup {None}]
        BY <1>1, <3>3, <4>1, ForgiveTyped
      <4> HIDE DEF t
      <4>4. QED
        BY <1>1, <1>5, <3>5, <4>1, <4>2, <4>3, DropsTyped DEF TypeOK
    <3>7. CASE t \notin alive
      BY <1>5, <1>9, <2>1, <3>5, <3>7, DropsTyped, ForgiveTyped
         DEF CloseAndWait, TypeOK
    <3>8. QED
      BY <3>6, <3>7
  <2>2. CASE live[id] = None /\ dormant[id] # None
    BY <1>5, <1>9, <2>2, DropsTyped, ForgiveTyped DEF CloseAndWait, TypeOK
  <2>3. CASE live[id] = None /\ dormant[id] = None
    BY <1>9, <2>3 DEF CloseAndWait, TypeOK
  <2>4. QED
    BY <2>1, <2>2, <2>3
<1>10. ASSUME Evict
       PROVE  TypeOK'
  BY <1>10, EvictTyped DEF Evict, TypeOK
<1>11. QED
  BY <1>2, <1>3, <1>4, <1>6, <1>7, <1>8, <1>9, <1>10 DEF Request

LEMMA TypeProgress ==
  ASSUME TypeOK, LockDiscipline, NEW c \in Clients,
         Progress(c) \/ CloneSession(c)
  PROVE  TypeOK'
<1>1. 0 \in 0..MaxLogin /\ c \in Actors
  BY DEF Actors
<1>2. ASSUME pc[c] # "idle"
      PROVE  /\ call[c] \in Call /\ call[c].thread \in Threads
             /\ call[c].id \in Ids /\ call[c].seen \in 0..MaxLogin
  <2>1. call[c] \in Call
    BY <1>1, <1>2 DEF LockDiscipline, TypeOK
  <2>2. QED
    BY <2>1 DEF Call
<1>3. CASE Submit(c)
  <2> DEFINE t == call[c].thread
  <2>1. t \in Threads
    BY <1>2, <1>3 DEF Submit
  <2>2. [from |-> c, what |-> "cmd"] \in Command
    BY <1>1 DEF Command
  <2>3. Append(queue[t], [from |-> c, what |-> "cmd"]) \in Seq(Command)
    BY <2>1, <2>2, AppendTyped DEF TypeOK
  <2>4. queue' \in [Threads -> Seq(Command)]
    BY <1>3, <2>1, <2>3 DEF Submit, TypeOK
  <2>5. /\ pc' \in [Actors -> {"idle", "prepared", "awaiting", "replied",
                               "capturing", "holding", "closing"}]
        /\ call' \in [Actors -> Call \cup {None}]
        /\ lock' \in Actors \cup {NoOne}
    BY <1>1, <1>3, ReturnTyped DEF Submit, TypeOK
  <2>6. QED
    BY <1>3, <2>4, <2>5 DEF Submit, TypeOK
<1>4. CASE Persist(c)
  <2> DEFINE id == call[c].id
             t  == live[id].thread
  <2>1. call[c] \in Call /\ id \in Ids
    BY <1>2, <1>4 DEF Persist
  <2>2. CASE CanCapture(id)
    <3>1. live[id] \in Session
      BY <2>1, <2>2 DEF CanCapture, TypeOK
    <3>2. t \in Threads
      BY <3>1 DEF Session
    <3>3. [from |-> c, what |-> "read"] \in Command
      BY <1>1 DEF Command
    <3>4. Append(queue[t], [from |-> c, what |-> "read"]) \in Seq(Command)
      BY <3>2, <3>3, AppendTyped DEF TypeOK
    <3>5. [call[c] EXCEPT !.thread = t] \in Call
      BY <2>1, <3>2 DEF Call
    <3>6. /\ queue' = [queue EXCEPT ![t] =
                         Append(@, [from |-> c, what |-> "read"])]
          /\ pc'   = [pc EXCEPT ![c] = "capturing"]
          /\ call' = [call EXCEPT ![c].thread = t]
      BY <1>4, <2>2 DEF Persist
    <3>7. call' = [call EXCEPT ![c] = [call[c] EXCEPT !.thread = t]]
      BY <3>6
    <3> HIDE DEF id, t
    <3>8. /\ queue' \in [Threads -> Seq(Command)]
          /\ call' \in [Actors -> Call \cup {None}]
      <4>1. queue' \in [Threads -> Seq(Command)]
        BY <3>2, <3>4, <3>6 DEF TypeOK
      <4>2. call' \in [Actors -> Call \cup {None}]
        BY <3>5, <3>7 DEF TypeOK
      <4>3. QED
        BY <4>1, <4>2
    <3>9. pc' \in [Actors -> {"idle", "prepared", "awaiting", "replied",
                             "capturing", "holding", "closing"}]
      BY <3>6 DEF TypeOK
    <3>10. QED
      BY <1>1, <1>4, <3>8, <3>9 DEF Persist, TypeOK
  <2>3. CASE ~CanCapture(id)
    BY <1>1, <1>4, <2>3 DEF Persist, TypeOK
  <2>4. QED
    BY <2>2, <2>3
<1>5. CASE Release(c)
  <2>1. /\ pc' \in [Actors -> {"idle", "prepared", "awaiting", "replied",
                               "capturing", "holding", "closing"}]
        /\ call' \in [Actors -> Call \cup {None}]
        /\ lock' \in Actors \cup {NoOne}
    BY <1>1, <1>5, ReturnTyped DEF Release
  <2>2. acked' \in [Ids -> 0..MaxLogin]
    BY <1>2, <1>5 DEF Release, TypeOK
  <2>3. QED
    BY <1>5, <2>1, <2>2 DEF Release, TypeOK, memory
<1>6. CASE CloneSession(c)
  <2> DEFINE s == live[call[c].id]
  <2>1. PICK id \in Ids, t \in Threads :
          NextId(id) /\ Spawn(id, t, s, call[c].seen) /\ counter' = id + 1
          /\ Drops(id, "no")
    BY <1>6 DEF CloneSession
  <2>2. s \in Session
    BY <1>2, <1>6 DEF CloneSession, TypeOK
  <2>3. /\ s.persistent \in BOOLEAN /\ s.keepalive \in BOOLEAN
        /\ s.account \in BOOLEAN
    BY <2>2 DEF Session
  <2>4. call[c].seen \in 0..MaxLogin
    BY <1>2, <1>6 DEF CloneSession
  <2> HIDE DEF s
  <2>5. /\ live' \in [Ids -> Session \cup {None}]
        /\ alive' \subseteq Threads
        /\ queue' \in [Threads -> Seq(Command)]
        /\ login' \in [Threads -> 0..MaxLogin]
    BY <2>1, <2>3, <2>4, SpawnTyped
  <2>6. /\ ended' \in [Ids -> {"no", "over", "refused"}]
        /\ acked' \in [Ids -> 0..MaxLogin]
    BY <2>1, DropsTyped
  <2>7. counter' \in 1..(MaxId + 1)
    BY <2>1 DEF Ids
  <2>8. /\ pc' \in [Actors -> {"idle", "prepared", "awaiting", "replied",
                               "capturing", "holding", "closing"}]
        /\ call' \in [Actors -> Call \cup {None}]
        /\ lock' \in Actors \cup {NoOne}
    BY <1>1, <1>6, ReturnTyped DEF CloneSession
  <2>9. QED
    BY <1>6, <2>5, <2>6, <2>7, <2>8 DEF CloneSession, TypeOK
<1>7. QED
  BY <1>3, <1>4, <1>5, <1>6 DEF Progress

LEMMA TypeThread ==
  ASSUME TypeOK, LockDiscipline, NEW t \in Threads, Thread(t)
  PROVE  TypeOK'
<1>1. queue[t] \in Seq(Command) /\ login[t] \in 0..MaxLogin
  BY DEF TypeOK
<1>2. ASSUME queue[t] # <<>>
      PROVE  /\ Head(queue[t]).from \in Actors \cup {NoOne}
             /\ [queue EXCEPT ![t] = Tail(@)] \in [Threads -> Seq(Command)]
  <2>1. Head(queue[t]) \in Command /\ Tail(queue[t]) \in Seq(Command)
    BY <1>1, <1>2, TailTyped
  <2>2. QED
    BY <2>1 DEF Command, TypeOK
<1>3. CASE RunCommand(t)
  <2> DEFINE c == Head(queue[t]).from
  <2>1. /\ c \in Actors \cup {NoOne}
        /\ queue' \in [Threads -> Seq(Command)]
    BY <1>2, <1>3 DEF RunCommand
  <2>2. CASE c = NoOne /\ UNCHANGED <<lock, pc, call>>
    BY <1>3, <2>1, <2>2 DEF RunCommand, TypeOK
  <2>3. CASE /\ c # NoOne /\ pc[c] = "awaiting"
             /\ pc'   = [pc EXCEPT ![c] = "replied"]
             /\ call' = [call EXCEPT ![c].seen = login[t]]
             /\ UNCHANGED lock
    <3>1. call[c] \in Call
      BY <2>1, <2>3 DEF LockDiscipline, TypeOK
    <3>2. [call[c] EXCEPT !.seen = login[t]] \in Call
      BY <1>1, <3>1 DEF Call
    <3>3. call' = [call EXCEPT ![c] = [call[c] EXCEPT !.seen = login[t]]]
      BY <2>3
    <3> HIDE DEF c
    <3>4. call' \in [Actors -> Call \cup {None}]
      BY <3>2, <3>3 DEF TypeOK
    <3>5. QED
      BY <1>3, <2>1, <2>3, <3>4 DEF RunCommand, TypeOK
  <2>4. CASE c # NoOne /\ pc[c] = "awaiting" /\ Return(c)
    <3>1. c \in Actors
      BY <2>1, <2>4
    <3>2. QED
      BY <1>3, <2>1, <2>4, <3>1, ReturnTyped DEF RunCommand, TypeOK
  <2>5. QED
    BY <1>3, <2>2, <2>3, <2>4 DEF RunCommand
<1>4. CASE RunRead(t)
  <2> DEFINE a  == Head(queue[t]).from
             id == call[a].id
             s  == live[id]
  <2>1. /\ a \in Actors \cup {NoOne}
        /\ queue' \in [Threads -> Seq(Command)]
    BY <1>2, <1>4 DEF RunRead
  <2>2. CASE a = NoOne /\ UNCHANGED <<snap, pc, call>>
    BY <1>4, <2>1, <2>2 DEF RunRead, TypeOK
  <2>3. CASE a # NoOne /\ pc[a] = "capturing"
    <3>1. a \in Actors /\ call[a] \in Call /\ id \in Ids
      <4>1. a \in Actors /\ call[a] \in Call
        BY <2>1, <2>3 DEF LockDiscipline, TypeOK
      <4>2. QED
        BY <4>1 DEF Call
    <3>2. s \in Session
      BY <2>3, <3>1 DEF LockDiscipline, TypeOK
    <3>3. SavedState(s, login[t]) \in Snapshot
      BY <1>1, <3>2 DEF SavedState, Session, Snapshot
    <3>4. /\ snap' \in {snap, [snap EXCEPT ![id] = SavedState(s, login[t])]}
          /\ pc'   = [pc EXCEPT ![a] =
                       IF a = Flusher THEN "idle" ELSE "holding"]
          /\ call' = IF a = Flusher THEN [call EXCEPT ![a] = None] ELSE call
      BY <1>4, <2>3 DEF RunRead
    <3> HIDE DEF a, id, s
    <3>5. snap' \in [Ids -> Snapshot \cup {None}]
      BY <3>1, <3>3, <3>4 DEF TypeOK
    <3>6. /\ pc' \in [Actors -> {"idle", "prepared", "awaiting", "replied",
                                 "capturing", "holding", "closing"}]
          /\ call' \in [Actors -> Call \cup {None}]
      BY <3>1, <3>4 DEF TypeOK
    <3>7. QED
      BY <1>4, <2>1, <3>5, <3>6 DEF RunRead, TypeOK
  <2>4. QED
    BY <1>4, <2>2, <2>3 DEF RunRead
<1>5. CASE Dies(t)
  BY <1>5, DiesTyped DEF Dies, TypeOK
<1>6. QED
  BY <1>3, <1>4, <1>5 DEF Thread, RunClose

LEMMA TypeFlush ==
  ASSUME TypeOK, LockDiscipline, Flush
  PROVE  TypeOK'
<1>1. Flusher \in Actors /\ 0 \in 0..MaxLogin
  BY DEF Actors
<1>2. CASE FlushStart
  <2>1. todo' \subseteq Ids
    BY <1>2 DEF FlushStart, Fleet
  <2>2. QED
    BY <1>1, <1>2, <2>1, EvictTyped DEF FlushStart, TypeOK
<1>3. ASSUME NEW id \in Ids, FlushNext(id)
      PROVE  TypeOK'
  <2> DEFINE t == live[id].thread
  <2>1. todo' \subseteq Ids
    BY <1>3 DEF FlushNext, TypeOK
  <2>2. CASE Listening(t)
    <3>1. t \in Threads
      BY <2>2 DEF Listening, TypeOK
    <3>2. /\ [from |-> Flusher, what |-> "read"] \in Command
          /\ [id |-> id, thread |-> t, renew |-> FALSE, locked |-> TRUE,
              durable |-> FALSE, seen |-> 0] \in Call
      BY <1>1, <3>1 DEF Command, Call
    <3>3. Append(queue[t], [from |-> Flusher, what |-> "read"]) \in Seq(Command)
      BY <3>1, <3>2, AppendTyped DEF TypeOK
    <3>4. /\ queue' = [queue EXCEPT ![t] =
                         Append(@, [from |-> Flusher, what |-> "read"])]
          /\ pc'    = [pc EXCEPT ![Flusher] = "capturing"]
          /\ call'  = [call EXCEPT ![Flusher] =
                         [id |-> id, thread |-> t, renew |-> FALSE,
                          locked |-> TRUE, durable |-> FALSE, seen |-> 0]]
      BY <1>3, <2>2 DEF FlushNext
    <3> HIDE DEF t
    <3>5. queue' \in [Threads -> Seq(Command)]
      BY <3>3, <3>4 DEF TypeOK
    <3>6. call' \in [Actors -> Call \cup {None}]
      BY <3>2, <3>4 DEF TypeOK
    <3>7. QED
      BY <1>3, <2>1, <3>4, <3>5, <3>6 DEF FlushNext, TypeOK
  <2>3. CASE ~Listening(t)
    BY <1>3, <2>1, <2>3 DEF FlushNext, TypeOK
  <2>4. QED
    BY <2>2, <2>3
<1>4. CASE FlushTimeout
  BY <1>1, <1>4, UnheardTyped DEF FlushTimeout, TypeOK
<1>5. CASE FlushEnd
  BY <1>5 DEF FlushEnd, TypeOK, memory
<1>6. QED
  BY <1>2, <1>3, <1>4, <1>5 DEF Flush

LEMMA TypeEnvironment ==
  ASSUME TypeOK, LockDiscipline, Environment
  PROVE  TypeOK'
<1>1. 0 \in 0..MaxLogin
  OBVIOUS
<1>2. ASSUME NEW t \in Threads, PageWrites(t)
      PROVE  TypeOK'
  <2>1. clock + 1 \in 0..MaxLogin
    BY <1>2 DEF PageWrites, TypeOK
  <2>2. QED
    BY <1>2, <2>1 DEF PageWrites, TypeOK
<1>3. ASSUME NEW t \in Threads, ThreadDies(t)
      PROVE  TypeOK'
  BY <1>3, DiesTyped DEF ThreadDies, Dies, TypeOK
<1>4. ASSUME NEW id \in Ids, IdleTick(id)
      PROVE  TypeOK'
  <2>0. call' \in [Actors -> Call \cup {None}]
    <3>1. /\ call \in [Actors -> Call \cup {None}]
          /\ Forgive(id) \in [Actors -> Call \cup {None}]
      BY ForgiveTyped DEF TypeOK
    <3>2. QED
      BY <1>4, <3>1, TickForgives
  <2>1. CASE /\ live[id] # None /\ live[id].idle < TTL
             /\ live' = [live EXCEPT ![id].idle = @ + 1] /\ UNCHANGED dormant
    <3>1. live[id] \in Session
      BY <2>1 DEF TypeOK
    <3>2. live[id].idle + 1 \in 0..TTL
      BY <2>1, <3>1 DEF Session
    <3>3. [live[id] EXCEPT !.idle = @ + 1] \in Session
      BY <3>1, <3>2 DEF Session
    <3>4. QED
      BY <1>4, <2>0, <2>1, <3>3 DEF IdleTick, TypeOK
  <2>2. CASE /\ dormant[id] # None /\ dormant[id].idle < TTL
             /\ dormant' = [dormant EXCEPT ![id].idle = @ + 1]
             /\ UNCHANGED live
    <3>1. dormant[id] \in Shell
      BY <2>2 DEF TypeOK
    <3>2. dormant[id].idle + 1 \in 0..TTL
      BY <2>2, <3>1 DEF Shell
    <3>3. [dormant[id] EXCEPT !.idle = @ + 1] \in Shell
      BY <3>1, <3>2 DEF Shell
    <3>4. QED
      BY <1>4, <2>0, <2>2, <3>3 DEF IdleTick, TypeOK
  <2>3. QED
    BY <1>4, <2>1, <2>2 DEF IdleTick
<1>5. ASSUME NEW id \in Ids, SnapshotAges(id)
      PROVE  TypeOK'
  <2>1. snap[id] \in Snapshot
    BY <1>5 DEF SnapshotAges, Usable, TypeOK
  <2>2. [snap[id] EXCEPT !.stale = TRUE] \in Snapshot
    BY <2>1 DEF Snapshot
  <2>3. QED
    BY <1>1, <1>5, <2>2, ForgiveTyped DEF SnapshotAges, TypeOK, memory
<1>6. ASSUME NEW c \in Clients, GiveUp(c)
      PROVE  TypeOK'
  <2>1. c \in Actors
    BY DEF Actors
  <2>2. QED
    BY <1>6, <2>1, ReturnTyped, UnheardTyped DEF GiveUp, TypeOK
<1>7. CASE Stop
  <2>1. 1 \in 1..(MaxId + 1) /\ <<>> \in Seq(Command)
    BY EmptySeq
  <2>2. QED
    BY <1>1, <1>7, <2>1 DEF Stop, TypeOK
<1>8. ASSUME NEW mode \in RestoreModes, Boot(mode)
      PROVE  TypeOK'
  <2>1. 0 \in 0..TTL
    OBVIOUS
  <2>2. ASSUME NEW id \in Ids, Usable(id)
        PROVE  [persistent |-> snap[id].persistent,
                keepalive |-> snap[id].keepalive, idle |-> 0] \in Shell
    <3>1. snap[id] \in Snapshot
      BY <2>2 DEF Usable, TypeOK
    <3>2. QED
      BY <2>1, <3>1 DEF Snapshot, Shell
  <2>3. dormant' \in [Ids -> Shell \cup {None}]
    BY <1>8, <2>2 DEF Boot
  <2>4. snap' \in [Ids -> Snapshot \cup {None}]
    BY <1>8, WithoutTyped DEF Boot, TypeOK
  <2>5. QED
    BY <1>8, <2>3, <2>4 DEF Boot, TypeOK
<1>9. QED
  BY <1>2, <1>3, <1>4, <1>5, <1>6, <1>7, <1>8 DEF Environment

LEMMA TypeStep == TypeOK /\ LockDiscipline /\ [Next]_vars => TypeOK'
<1>1. ASSUME TypeOK, UNCHANGED vars
      PROVE  TypeOK'
  BY <1>1 DEF TypeOK, vars, memory
<1>2. QED
  BY <1>1, TypeRequest, TypeProgress, TypeThread, TypeFlush,
     TypeEnvironment DEF Next

--------------------------------------------------------------------------
(* The lock discipline.                                                    *)

LEMMA LockInit == Init => LockDiscipline
  BY DEF Init, LockDiscipline, Actors

\* While the mutex is free no capture runs, no flush, and the process is up.
LEMMA FreeLockIsQuiet ==
  ASSUME LockDiscipline, CanLock
  PROVE  /\ \A a \in Actors : pc[a] # "capturing"
         /\ lock = NoOne
         /\ phase # "flushing" /\ phase # "down"
  BY DEF LockDiscipline, CanLock

\* A step under the free mutex that starts no capture and keeps the phase
\* has only its own handler to answer for.
LEMMA QuietStep ==
  ASSUME LockDiscipline, CanLock, phase' = phase,
         \A a \in Actors :
           \/ pc'[a] = pc[a] /\ (call'[a] = None <=> call[a] = None)
           \/ /\ a # Flusher /\ call'[a] # None
              /\ pc'[a] \in {"prepared", "closing"}
  PROVE  LockDiscipline'
<1>1. Flusher \in Actors
  BY DEF Actors
<1>2. \A a \in Actors : pc'[a] # "capturing"
  BY FreeLockIsQuiet
<1>3. \A a \in Actors : pc'[a] = "idle" <=> call'[a] = None
  BY DEF LockDiscipline
<1>4. pc'[Flusher] \in {"idle", "capturing"}
  BY <1>1, <1>2 DEF LockDiscipline
<1>5. phase' # "flushing" /\ phase' # "down"
  BY FreeLockIsQuiet
<1>6. QED
  BY <1>2, <1>3, <1>4, <1>5 DEF LockDiscipline

LEMMA LockRequest ==
  ASSUME TypeOK, LockDiscipline, Request
  PROVE  LockDiscipline'
<1>1. Flusher \notin Clients /\ Clients \subseteq Actors
  BY DEF Actors
<1>2. ASSUME NEW kind \in Kinds, CreateSession(kind)
      PROVE  LockDiscipline'
  BY <1>2, QuietStep DEF CreateSession
<1>3. ASSUME NEW c \in Clients, NEW id \in Ids, NEW renew \in BOOLEAN,
             NEW locked \in BOOLEAN, BeginLive(c, id, renew, locked)
      PROVE  LockDiscipline'
  <2>1. live[id] \in Session
    BY <1>3 DEF BeginLive, TypeOK
  <2>2. /\ live[id].thread \in Threads
        /\ live[id].persistent \in BOOLEAN /\ live[id].account \in BOOLEAN
    BY <2>1 DEF Session
  <2>3. /\ CanLock /\ phase' = phase
        /\ Enter(c, id, live[id].thread, renew, locked, live[id])
    BY <1>3 DEF BeginLive
  <2>4. /\ pc'[c] = "prepared" /\ call'[c] # None
        /\ \A a \in Actors \ {c} : pc'[a] = pc[a] /\ call'[a] = call[a]
    BY <2>2, <2>3, EnterTyped
  <2>5. QED
    BY <1>1, <2>3, <2>4, QuietStep
<1>4. ASSUME NEW c \in Clients, NEW id \in Ids, NEW renew \in BOOLEAN,
             NEW locked \in BOOLEAN, BeginRevive(c, id, renew, locked)
      PROVE  LockDiscipline'
  <2> DEFINE kind == [persistent |-> snap[id].persistent,
                      keepalive |-> snap[id].keepalive, account |-> FALSE]
  <2>1. snap[id] \in Snapshot
    BY <1>4 DEF BeginRevive, Usable, TypeOK
  <2>2. kind.persistent \in BOOLEAN /\ kind.account \in BOOLEAN
    BY <2>1 DEF Snapshot
  <2>3. PICK t \in Threads : Enter(c, id, t, renew, locked, kind)
    BY <1>4 DEF BeginRevive
  <2>4. CanLock /\ phase' = phase
    BY <1>4 DEF BeginRevive
  <2> HIDE DEF kind
  <2>5. /\ pc'[c] = "prepared" /\ call'[c] # None
        /\ \A a \in Actors \ {c} : pc'[a] = pc[a] /\ call'[a] = call[a]
    BY <2>2, <2>3, EnterTyped
  <2>6. QED
    BY <1>1, <2>4, <2>5, QuietStep
<1>5. ASSUME NEW id \in Ids, NEW renew \in BOOLEAN, RefuseMissing(id, renew)
      PROVE  LockDiscipline'
  BY <1>5, QuietStep DEF RefuseMissing
<1>6. ASSUME NEW id \in Ids, RefuseExpired(id)
      PROVE  LockDiscipline'
  BY <1>6, QuietStep DEF RefuseExpired
<1>7. ASSUME NEW id \in Ids, CloseSession(id)
      PROVE  LockDiscipline'
  BY <1>7, ForgiveTyped, QuietStep DEF CloseSession
<1>8. ASSUME NEW c \in Clients, NEW id \in Ids, CloseAndWait(c, id)
      PROVE  LockDiscipline'
  <2>1. CanLock /\ phase' = phase
    BY <1>8 DEF CloseAndWait
  <2>2. CASE call' = Forgive(id) /\ pc' = pc
    BY <2>1, <2>2, ForgiveTyped, QuietStep
  <2>3. CASE UNCHANGED <<pc, call>>
    BY <2>1, <2>3, QuietStep
  <2>4. CASE live[id] # None /\ live[id].thread \in alive
    <3> DEFINE r == [id |-> id, thread |-> live[id].thread, renew |-> FALSE,
                     locked |-> TRUE, durable |-> FALSE, seen |-> 0]
    <3>1. live[id].thread \in Threads /\ 0 \in 0..MaxLogin
      BY <2>4 DEF TypeOK
    <3>2. r \in Call
      BY <3>1 DEF Call
    <3>3. pc' = [pc EXCEPT ![c] = "closing"]
          /\ call' = [Forgive(id) EXCEPT ![c] = r]
      BY <1>8, <2>4 DEF CloseAndWait
    <3> HIDE DEF r
    <3>4. pc'[c] = "closing" /\ call'[c] = r
          /\ \A a \in Actors \ {c} : pc'[a] = pc[a]
                                      /\ call'[a] = Forgive(id)[a]
      BY <1>1, <3>3, ForgiveTyped DEF TypeOK
    <3>5. QED
      BY <1>1, <2>1, <3>2, <3>4, ForgiveTyped, QuietStep
  <2>5. QED
    BY <1>8, <2>2, <2>3, <2>4 DEF CloseAndWait
<1>9. ASSUME Evict
      PROVE  LockDiscipline'
  BY <1>9, QuietStep DEF Evict
<1>10. QED
  BY <1>2, <1>3, <1>4, <1>5, <1>6, <1>7, <1>8, <1>9 DEF Request

\* A handler's answer frees at most its own hold on the mutex.
LEMMA ReturnKeepsDiscipline ==
  ASSUME TypeOK, LockDiscipline, NEW c \in Clients, Return(c),
         phase' = phase, todo' = todo,
         \A id \in Ids : live[id] # None => live'[id] # None,
         pc[c] # "idle"
  PROVE  LockDiscipline'
<1>1. Flusher \notin Clients /\ c \in Actors /\ Flusher \in Actors
  BY DEF Actors
<1>2. /\ \A a \in Actors : IF a = c THEN pc'[a] = "idle" /\ call'[a] = None
                            ELSE pc'[a] = pc[a] /\ call'[a] = call[a]
      /\ \A a \in Actors : lock = a /\ a # c => lock' = a
  BY <1>1 DEF Return, TypeOK
<1>3. \A a \in Actors : pc'[a] = "idle" <=> call'[a] = None
  BY <1>2 DEF LockDiscipline
<1>4. ASSUME NEW a \in Actors, pc'[a] = "capturing"
      PROVE  lock' = a /\ live'[call'[a].id] # None
  <2>1. a # c /\ pc[a] = "capturing" /\ call'[a] = call[a] /\ lock' = a
        /\ live[call[a].id] # None
    BY <1>2, <1>4 DEF LockDiscipline
  <2>2. call[a] \in Call
    BY <2>1 DEF LockDiscipline, TypeOK
  <2>3. call[a].id \in Ids
    BY <2>2 DEF Call
  <2>4. QED
    BY <2>1, <2>3
<1>5. pc'[Flusher] \in {"idle", "capturing"}
  BY <1>1, <1>2 DEF LockDiscipline
<1>6. phase' = "flushing" =>
        lock' = Flusher /\ \A id \in todo' : live'[id] # None
  BY <1>1, <1>2 DEF LockDiscipline, TypeOK
<1>7. phase' # "down"
  BY <1>1 DEF LockDiscipline
<1>8. QED
  BY <1>3, <1>4, <1>5, <1>6, <1>7 DEF LockDiscipline

LEMMA LockProgress ==
  ASSUME TypeOK, LockDiscipline, NEW c \in Clients,
         Progress(c) \/ CloneSession(c)
  PROVE  LockDiscipline'
<1>1. Flusher \notin Clients /\ c \in Actors /\ Flusher \in Actors
  BY DEF Actors
<1>2. CASE Submit(c)
  <2>1. CASE Return(c)
    BY <1>2, <2>1, ReturnKeepsDiscipline DEF Submit
  <2>2. CASE pc' = [pc EXCEPT ![c] = "awaiting"] /\ UNCHANGED <<lock, call>>
    BY <1>1, <1>2, <2>2 DEF Submit, LockDiscipline, TypeOK
  <2>3. QED
    BY <1>2, <2>1, <2>2 DEF Submit
<1>3. CASE Persist(c)
  <2> DEFINE id == call[c].id
             t  == live[id].thread
  <2>1. /\ pc[c] = "replied" /\ (lock = c \/ CanLock) /\ lock' = c
        /\ phase' = phase /\ live' = live /\ todo' = todo
    BY <1>3 DEF Persist
  <2>2. /\ \A a \in Actors : a # c => pc[a] # "capturing"
        /\ phase # "flushing" /\ phase # "down"
    BY <1>1, <2>1, FreeLockIsQuiet DEF LockDiscipline
  <2>3. call[c] \in Call
    BY <1>1, <2>1 DEF LockDiscipline, TypeOK
  <2>4. pc[Flusher] = "idle"
    BY <1>1, <2>2 DEF LockDiscipline
  <2>5. CASE CanCapture(id)
    <3>1. live[id] # None /\ id \in Ids
      BY <2>3, <2>5 DEF CanCapture, Call
    <3>2. t \in Threads
      BY <3>1 DEF TypeOK, Session
    <3>3. [call[c] EXCEPT !.thread = t] \in Call
          /\ [call[c] EXCEPT !.thread = t].id = id
      BY <2>3, <3>2 DEF Call
    <3>4. pc' = [pc EXCEPT ![c] = "capturing"]
          /\ call' = [call EXCEPT ![c] = [call[c] EXCEPT !.thread = t]]
      BY <1>3, <2>5 DEF Persist
    <3> HIDE DEF id, t
    <3>5. /\ pc'[c] = "capturing" /\ call'[c] # None /\ call'[c].id = id
          /\ \A a \in Actors \ {c} : pc'[a] = pc[a] /\ call'[a] = call[a]
      BY <1>1, <3>3, <3>4 DEF TypeOK
    <3>6. QED
      BY <1>1, <2>1, <2>2, <2>4, <3>1, <3>5 DEF LockDiscipline
  <2>6. CASE ~CanCapture(id)
    <3>1. pc' = [pc EXCEPT ![c] = "holding"] /\ call' = call
      BY <1>3, <2>6 DEF Persist
    <3>2. /\ pc'[c] = "holding"
          /\ \A a \in Actors \ {c} : pc'[a] = pc[a]
      BY <1>1, <3>1 DEF TypeOK
    <3>3. QED
      BY <1>1, <2>1, <2>2, <2>3, <2>4, <3>1, <3>2 DEF LockDiscipline
  <2>7. QED
    BY <2>5, <2>6
<1>4. CASE Release(c)
  BY <1>4, ReturnKeepsDiscipline DEF Release, memory
<1>5. CASE CloneSession(c)
  <2> DEFINE s == live[call[c].id]
  <2>1. PICK id \in Ids, t \in Threads : Spawn(id, t, s, call[c].seen)
    BY <1>5 DEF CloneSession
  <2>2. call[c] \in Call
    BY <1>1, <1>5 DEF CloneSession, LockDiscipline, TypeOK
  <2>3. call[c].id \in Ids /\ call[c].seen \in 0..MaxLogin
    BY <2>2 DEF Call
  <2>4. s \in Session
    BY <1>5, <2>3 DEF CloneSession, TypeOK
  <2>5. /\ s.persistent \in BOOLEAN /\ s.keepalive \in BOOLEAN
        /\ s.account \in BOOLEAN
    BY <2>4 DEF Session
  <2> HIDE DEF s
  <2>6. \A i \in Ids : live[i] # None => live'[i] # None
    BY <2>1, <2>3, <2>5, SpawnTyped
  <2>7. QED
    BY <1>5, <2>6, ReturnKeepsDiscipline DEF CloneSession
<1>6. QED
  BY <1>2, <1>3, <1>4, <1>5 DEF Progress

\* A thread's end ends or settles what waited on it, and nothing else.
LEMMA DiesKeepsDiscipline ==
  ASSUME TypeOK, LockDiscipline, NEW t \in Threads, Dies(t)
  PROVE  LockDiscipline'
<1>1. Flusher \in Actors /\ "idle" # "holding"
  BY DEF Actors
<1>2. UNCHANGED <<phase, live, todo>>
  BY DEF Dies
<1>3. \A a \in Actors : pc'[a] = "idle" <=> call'[a] = None
  BY DiesTyped DEF LockDiscipline
<1>4. ASSUME NEW a \in Actors, pc'[a] = "capturing"
      PROVE  lock' = a /\ live'[call'[a].id] # None
  <2>1. pc[a] = "capturing" /\ call'[a] = call[a]
    BY <1>4, DiesTyped
  <2>2. lock = a /\ live[call[a].id] # None
    BY <2>1 DEF LockDiscipline
  <2>3. lock' = a
    BY <1>4, <2>2, DiesTyped
  <2>4. QED
    BY <1>2, <2>1, <2>2, <2>3
<1>5. pc'[Flusher] \in {"idle", "capturing"}
  BY <1>1, DiesTyped DEF LockDiscipline
<1>6. phase' = "flushing" =>
        lock' = Flusher /\ \A id \in todo' : live'[id] # None
  BY <1>2, DiesTyped DEF LockDiscipline
<1>7. phase' = "down" => /\ \A a \in Actors : pc'[a] = "idle"
                         /\ \A id \in Ids : live'[id] = None
  BY <1>2, DiesTyped DEF LockDiscipline
<1>8. QED
  BY <1>3, <1>4, <1>5, <1>6, <1>7 DEF LockDiscipline

LEMMA LockThread ==
  ASSUME TypeOK, LockDiscipline, NEW t \in Threads, Thread(t)
  PROVE  LockDiscipline'
<1>1. Flusher \in Actors /\ Flusher \notin Clients /\ NoOne \notin Actors
      /\ \A a \in Actors : a # Flusher => a \in Clients
  BY DEF Actors
<1>2. ASSUME queue[t] # <<>>
      PROVE  Head(queue[t]).from \in Actors \cup {NoOne}
  <2>1. Head(queue[t]) \in Command
    BY <1>2, TailTyped DEF TypeOK
  <2>2. QED
    BY <2>1 DEF Command
<1>3. CASE RunCommand(t)
  <2> DEFINE c == Head(queue[t]).from
  <2>1. c \in Actors \cup {NoOne} /\ UNCHANGED <<phase, live, todo>>
    BY <1>2, <1>3 DEF RunCommand
  <2>2. CASE c = NoOne /\ UNCHANGED <<lock, pc, call>>
    BY <2>1, <2>2 DEF LockDiscipline
  <2>3. CASE /\ c # NoOne /\ pc[c] = "awaiting"
             /\ pc'   = [pc EXCEPT ![c] = "replied"]
             /\ call' = [call EXCEPT ![c].seen = login[t]]
             /\ UNCHANGED lock
    <3>1. call[c] \in Call
      BY <2>1, <2>3 DEF LockDiscipline, TypeOK
    <3>2. [call[c] EXCEPT !.seen = login[t]] \in Call
      BY <3>1 DEF Call, TypeOK
    <3>3. call' = [call EXCEPT ![c] = [call[c] EXCEPT !.seen = login[t]]]
      BY <2>3
    <3>4. c \in Clients
      BY <1>1, <2>1, <2>3 DEF LockDiscipline
    <3> HIDE DEF c
    <3>5. /\ pc'[c] = "replied" /\ call'[c] # None
          /\ \A a \in Actors \ {c} : pc'[a] = pc[a] /\ call'[a] = call[a]
      BY <1>1, <2>1, <2>3, <3>2, <3>3 DEF TypeOK
    <3>6. QED
      BY <1>1, <2>1, <2>3, <3>4, <3>5 DEF LockDiscipline
  <2>4. CASE c # NoOne /\ pc[c] = "awaiting" /\ Return(c)
    <3>1. c \in Clients
      BY <1>1, <2>1, <2>4 DEF LockDiscipline
    <3> HIDE DEF c
    <3>2. QED
      BY <2>1, <2>4, <3>1, ReturnKeepsDiscipline
  <2>5. QED
    BY <1>3, <2>2, <2>3, <2>4 DEF RunCommand
<1>4. CASE RunRead(t)
  <2> DEFINE a == Head(queue[t]).from
  <2>1. a \in Actors \cup {NoOne} /\ UNCHANGED <<phase, lock, live, todo>>
    BY <1>2, <1>4 DEF RunRead
  <2>2. CASE a = NoOne /\ UNCHANGED <<snap, pc, call>>
    BY <2>1, <2>2 DEF LockDiscipline
  <2>3. CASE a # NoOne /\ pc[a] = "capturing"
    <3>1. /\ pc'   = [pc EXCEPT ![a] =
                       IF a = Flusher THEN "idle" ELSE "holding"]
          /\ call' = IF a = Flusher THEN [call EXCEPT ![a] = None] ELSE call
      BY <1>4, <2>3 DEF RunRead
    <3> HIDE DEF a
    <3>2. a \in Actors
      BY <2>1, <2>3
    <3>3. /\ IF a = Flusher THEN pc'[a] = "idle" /\ call'[a] = None
             ELSE pc'[a] = "holding" /\ call'[a] = call[a]
          /\ \A b \in Actors \ {a} : pc'[b] = pc[b] /\ call'[b] = call[b]
      BY <3>1, <3>2 DEF TypeOK
    <3>4. QED
      BY <1>1, <2>1, <2>3, <3>2, <3>3 DEF LockDiscipline
  <2>4. QED
    BY <1>4, <2>2, <2>3 DEF RunRead
<1>5. CASE Dies(t)
  BY <1>5, DiesKeepsDiscipline
<1>6. QED
  BY <1>3, <1>4, <1>5 DEF Thread, RunClose

LEMMA LockFlush ==
  ASSUME TypeOK, LockDiscipline, Flush
  PROVE  LockDiscipline'
<1>1. Flusher \in Actors /\ NoOne \notin Actors
  BY DEF Actors
<1>2. CASE FlushStart
  <2>1. /\ phase = "serving" /\ lock = NoOne /\ UNCHANGED <<pc, call>>
        /\ phase' = "flushing" /\ lock' = Flusher
    BY <1>2 DEF FlushStart
  <2>2. \A id \in todo' : live'[id] # None
    BY <1>2 DEF FlushStart, Fleet
  <2>3. \A a \in Actors : pc[a] # "capturing"
    BY <1>1, <2>1 DEF LockDiscipline
  <2>4. QED
    BY <2>1, <2>2, <2>3 DEF LockDiscipline
<1>3. ASSUME NEW id \in Ids, FlushNext(id)
      PROVE  LockDiscipline'
  <2> DEFINE t == live[id].thread
             r == [id |-> id, thread |-> t, renew |-> FALSE, locked |-> TRUE,
                   durable |-> FALSE, seen |-> 0]
  <2>1. /\ phase = "flushing" /\ id \in todo /\ todo' = todo \ {id}
        /\ UNCHANGED <<phase, lock, live>>
    BY <1>3 DEF FlushNext
  <2>2. lock = Flusher /\ live[id] # None
    BY <2>1 DEF LockDiscipline
  <2>3. CASE Listening(t)
    <3>1. t \in Threads /\ 0 \in 0..MaxLogin
      BY <2>3 DEF Listening, TypeOK
    <3>2. r \in Call /\ r.id = id
      BY <3>1 DEF Call
    <3>3. /\ pc'   = [pc EXCEPT ![Flusher] = "capturing"]
          /\ call' = [call EXCEPT ![Flusher] = r]
      BY <1>3, <2>3 DEF FlushNext
    <3> HIDE DEF r, t
    <3>4. /\ pc'[Flusher] = "capturing" /\ call'[Flusher] = r
          /\ \A a \in Actors \ {Flusher} :
               pc'[a] = pc[a] /\ call'[a] = call[a]
      BY <1>1, <3>3 DEF TypeOK
    <3>5. QED
      BY <1>1, <2>1, <2>2, <3>2, <3>4 DEF LockDiscipline
  <2>4. CASE ~Listening(t)
    <3>1. UNCHANGED <<pc, call>>
      BY <1>3, <2>4 DEF FlushNext
    <3>2. QED
      BY <2>1, <3>1 DEF LockDiscipline
  <2>5. QED
    BY <2>3, <2>4
<1>4. CASE FlushTimeout
  <2>1. /\ pc' = [pc EXCEPT ![Flusher] = "idle"]
        /\ call' = [call EXCEPT ![Flusher] = None]
        /\ todo' \subseteq todo /\ UNCHANGED <<phase, lock, live>>
    BY <1>4 DEF FlushTimeout
  <2>2. /\ pc'[Flusher] = "idle" /\ call'[Flusher] = None
        /\ \A a \in Actors \ {Flusher} :
             pc'[a] = pc[a] /\ call'[a] = call[a]
    BY <1>1, <2>1 DEF TypeOK
  <2>3. QED
    BY <1>1, <2>1, <2>2 DEF LockDiscipline
<1>5. CASE FlushEnd
  <2>1. /\ phase = "flushing" /\ pc[Flusher] = "idle" /\ phase' = "draining"
        /\ UNCHANGED <<pc, call, live>>
    BY <1>5 DEF FlushEnd, memory
  <2>2. \A a \in Actors : pc[a] # "capturing"
    BY <2>1 DEF LockDiscipline
  <2>3. QED
    BY <2>1, <2>2 DEF LockDiscipline
<1>6. QED
  BY <1>2, <1>3, <1>4, <1>5 DEF Flush

LEMMA LockEnvironment ==
  ASSUME TypeOK, LockDiscipline, Environment
  PROVE  LockDiscipline'
<1>1. Flusher \in Actors /\ Clients \subseteq Actors /\ Flusher \notin Clients
  BY DEF Actors
<1>2. ASSUME NEW t \in Threads, PageWrites(t)
      PROVE  LockDiscipline'
  BY <1>2 DEF PageWrites, LockDiscipline
<1>3. ASSUME NEW t \in Threads, ThreadDies(t)
      PROVE  LockDiscipline'
  BY <1>3, DiesKeepsDiscipline DEF ThreadDies
<1>4. ASSUME NEW id \in Ids, IdleTick(id)
      PROVE  LockDiscipline'
  <2>1. phase # "down" /\ UNCHANGED <<phase, lock, pc, todo>>
    BY <1>4 DEF IdleTick
  <2>2. \A i \in Ids : live[i] # None => live'[i] # None
    <3>1. CASE live' = live
      BY <3>1
    <3>2. CASE /\ live[id] # None /\ live[id].idle < TTL
               /\ live' = [live EXCEPT ![id].idle = @ + 1]
      <4>1. live[id] \in Session
        BY <3>2 DEF TypeOK
      <4>2. [live[id] EXCEPT !.idle = @ + 1] \in Session
        BY <3>2, <4>1 DEF Session
      <4>3. QED
        BY <3>2, <4>2 DEF TypeOK
    <3>3. QED
      BY <1>4, <3>1, <3>2 DEF IdleTick
  <2>3. ASSUME NEW a \in Actors, pc[a] = "capturing"
        PROVE  call[a].id \in Ids
    <3>1. call[a] \in Call
      BY <2>3 DEF LockDiscipline, TypeOK
    <3>2. QED
      BY <3>1 DEF Call
  <2>4. \A a \in Actors : /\ call'[a] = None <=> call[a] = None
                          /\ call[a] # None => call'[a].id = call[a].id
    BY <1>4, TickForgives, ForgiveTyped
  <2>5. ASSUME NEW a \in Actors, pc[a] = "capturing"
        PROVE  lock = a /\ live'[call'[a].id] # None
    <3>1. lock = a /\ live[call[a].id] # None /\ call[a] # None
      BY <2>5 DEF LockDiscipline
    <3>2. QED
      BY <2>2, <2>3, <2>4, <2>5, <3>1
  <2>6. QED
    BY <2>1, <2>2, <2>4, <2>5 DEF LockDiscipline, TypeOK
<1>5. ASSUME NEW id \in Ids, SnapshotAges(id)
      PROVE  LockDiscipline'
  <2>1. call' = Forgive(id) /\ UNCHANGED <<phase, lock, pc, live, todo>>
    BY <1>5 DEF SnapshotAges, memory
  <2>2. \A a \in Actors : /\ call'[a] = None <=> call[a] = None
                          /\ call[a] # None => call'[a].id = call[a].id
    BY <2>1, ForgiveTyped
  <2>3. ASSUME NEW a \in Actors, pc[a] = "capturing"
        PROVE  lock = a /\ live[call'[a].id] # None
    <3>1. lock = a /\ live[call[a].id] # None /\ call[a] # None
      BY <2>3 DEF LockDiscipline
    <3>2. QED
      BY <2>2, <3>1
  <2>4. QED
    BY <2>1, <2>2, <2>3 DEF LockDiscipline
<1>6. ASSUME NEW c \in Clients, GiveUp(c)
      PROVE  LockDiscipline'
  BY <1>6, ReturnKeepsDiscipline DEF GiveUp
<1>7. CASE Stop
  BY <1>1, <1>7 DEF Stop, LockDiscipline
<1>8. ASSUME NEW mode \in RestoreModes, Boot(mode)
      PROVE  LockDiscipline'
  <2>1. phase = "down" /\ phase' = "serving" /\ UNCHANGED <<pc, call>>
    BY <1>8 DEF Boot
  <2>2. QED
    BY <2>1 DEF LockDiscipline
<1>9. QED
  BY <1>2, <1>3, <1>4, <1>5, <1>6, <1>7, <1>8 DEF Environment

LEMMA LockStep == TypeOK /\ LockDiscipline /\ [Next]_vars => LockDiscipline'
<1>1. ASSUME LockDiscipline, UNCHANGED vars
      PROVE  LockDiscipline'
  BY <1>1 DEF LockDiscipline, vars, memory
<1>2. QED
  BY <1>1, LockRequest, LockProgress, LockThread, LockFlush,
     LockEnvironment DEF Next

\* Types and the lock discipline support each other: together they are the
\* inductive invariant the safety theorems stand on.
THEOREM Typing == Spec => [](TypeOK /\ LockDiscipline)
<1>1. Init => TypeOK /\ LockDiscipline
  BY TypeInit, LockInit
<1>2. TypeOK /\ LockDiscipline /\ [Next]_vars => (TypeOK /\ LockDiscipline)'
  BY TypeStep, LockStep
<1>3. QED
  BY <1>1, <1>2, PTL DEF Spec

\* Type correctness, for every value of the constants.
THEOREM TypeCorrect == Spec => []TypeOK
  BY Typing, PTL

\* Nobody but the holder of the mutex moves what the holder looked up.
THEOREM LockDisciplineHolds == Spec => []LockDiscipline
  BY Typing, PTL

--------------------------------------------------------------------------
(* One home per id, and done means done.  Every step does one of four      *)
(* things to an id; none of them gives it a second home or brings it back  *)
(* once it is over.                                                        *)

\* Nothing appears, except a snapshot of a session that is live.
Fades(id) ==
  /\ live[id] = None => live'[id] = None
  /\ dormant[id] = None => dormant'[id] = None
  /\ live[id] = None /\ snap[id] = None => snap'[id] = None
  /\ ended'[id] = "over" => ended[id] = "over"

\* The id is over and everything of it is gone.
Vanishes(id) ==
  live'[id] = None /\ dormant'[id] = None /\ snap'[id] = None

\* The id is handed out anew.
Starts(id) == ended'[id] # "over" /\ dormant'[id] = None

\* A snapshot is revived, or a shell is registered for it.
ComesBack(id) ==
  /\ snap[id] # None /\ ended'[id] = ended[id]
  /\ live'[id] = None \/ dormant'[id] = None

LEMMA SafeChange ==
  ASSUME OneHome, DoneMeansDone,
         \A id \in Ids :
           Fades(id) \/ Vanishes(id) \/ Starts(id) \/ ComesBack(id)
  PROVE  OneHome' /\ DoneMeansDone'
<1>1. ASSUME NEW id \in Ids
      PROVE  live'[id] = None \/ dormant'[id] = None
  BY DEF OneHome, Fades, Vanishes, Starts, ComesBack
<1>2. ASSUME NEW id \in Ids, ended'[id] = "over"
      PROVE  live'[id] = None /\ dormant'[id] = None /\ snap'[id] = None
  BY <1>2 DEF DoneMeansDone, Fades, Vanishes, Starts, ComesBack
<1>3. QED
  BY <1>1, <1>2 DEF OneHome, DoneMeansDone

\* A step that leaves maps, store and history alone.
LEMMA StillIsSafe ==
  ASSUME OneHome, DoneMeansDone, UNCHANGED <<live, dormant, snap, ended>>
  PROVE  OneHome' /\ DoneMeansDone'
  BY DEF OneHome, DoneMeansDone

\* Handing out a new id.
LEMMA NewIdIsSafe ==
  ASSUME TypeOK, OneHome, DoneMeansDone, NEW id \in Ids, NEW t \in Threads,
         NEW kind, NEW n, NextId(id), Spawn(id, t, kind, n),
         Drops(id, "no"), UNCHANGED <<dormant, snap>>
  PROVE  OneHome' /\ DoneMeansDone'
<1>1. Starts(id)
  BY DEF Starts, NextId, Fresh, Drops, TypeOK
<1>2. ASSUME NEW i \in Ids, i # id
      PROVE  Fades(i)
  BY <1>2 DEF Fades, Spawn, Drops, TypeOK
<1>3. QED
  BY <1>1, <1>2, SafeChange

\* Eviction.
LEMMA EvictIsSafe ==
  ASSUME TypeOK, OneHome, DoneMeansDone, EvictExpired
  PROVE  OneHome' /\ DoneMeansDone'
<1> DEFINE homes(id) == {live[id], dormant[id]} \ {None}
           out  == {id \in Ids : \E s \in homes(id) : Expired(s)}
           lost == {id \in out : \E s \in homes(id) : ~s.persistent}
<1>1. ASSUME NEW id \in Ids
      PROVE  Fades(id) \/ Vanishes(id)
  <2>1. /\ live'[id] = IF id \in out THEN None ELSE live[id]
        /\ dormant'[id] = IF id \in out THEN None ELSE dormant[id]
        /\ id \in lost => snap'[id] = None
        /\ snap'[id] \in {snap[id], None}
        /\ ended'[id] = IF id \in lost THEN "over" ELSE ended[id]
    BY DEF EvictExpired, Without
  <2>2. lost \subseteq out
    OBVIOUS
  <2> HIDE DEF out, lost
  <2>3. CASE id \in lost
    BY <2>1, <2>2, <2>3 DEF Vanishes
  <2>4. CASE id \notin lost
    BY <2>1, <2>4 DEF Fades
  <2>5. QED
    BY <2>3, <2>4
<1>2. QED
  BY <1>1, SafeChange

LEMMA SafeRequest ==
  ASSUME TypeOK, LockDiscipline, OneHome, DoneMeansDone, Request
  PROVE  OneHome' /\ DoneMeansDone'
<1>1. ASSUME NEW kind \in Kinds, CreateSession(kind)
      PROVE  OneHome' /\ DoneMeansDone'
  BY <1>1, NewIdIsSafe DEF CreateSession
<1>2. ASSUME NEW c \in Clients, NEW id \in Ids, NEW renew \in BOOLEAN,
             NEW locked \in BOOLEAN, BeginLive(c, id, renew, locked)
      PROVE  OneHome' /\ DoneMeansDone'
  <2>1. \A i \in Ids : Fades(i)
    BY <1>2 DEF BeginLive, Fades, TypeOK
  <2>2. QED
    BY <2>1, SafeChange
<1>3. ASSUME NEW c \in Clients, NEW id \in Ids, NEW renew \in BOOLEAN,
             NEW locked \in BOOLEAN, BeginRevive(c, id, renew, locked)
      PROVE  OneHome' /\ DoneMeansDone'
  <2>1. ComesBack(id)
    BY <1>3 DEF BeginRevive, ComesBack, Usable, Without
  <2>2. PICK t, kind, n : Spawn(id, t, kind, n)
    BY <1>3 DEF BeginRevive
  <2>3. ASSUME NEW i \in Ids, i # id
        PROVE  Fades(i)
    BY <1>3, <2>2, <2>3 DEF BeginRevive, Fades, Spawn, Without, TypeOK
  <2>4. QED
    BY <2>1, <2>3, SafeChange
<1>4. ASSUME NEW id \in Ids, NEW renew \in BOOLEAN, RefuseMissing(id, renew)
      PROVE  OneHome' /\ DoneMeansDone'
  <2>1. \A i \in Ids : Fades(i)
    BY <1>4 DEF RefuseMissing, Fades, Without
  <2>2. QED
    BY <2>1, SafeChange
<1>5. ASSUME NEW id \in Ids, RefuseExpired(id) \/ CloseSession(id)
      PROVE  OneHome' /\ DoneMeansDone'
  <2>1. /\ live' = Without(live, {id}) /\ dormant' = Without(dormant, {id})
        /\ snap' = Without(snap, {id}) /\ Drops(id, "over")
    BY <1>5 DEF RefuseExpired, CloseSession
  <2>2. Vanishes(id)
    BY <2>1 DEF Vanishes, Without
  <2>3. ASSUME NEW i \in Ids, i # id
        PROVE  Fades(i)
    BY <2>1, <2>3 DEF Fades, Without, Drops, TypeOK
  <2>4. QED
    BY <2>2, <2>3, SafeChange
<1>6. ASSUME NEW c \in Clients, NEW id \in Ids, CloseAndWait(c, id)
      PROVE  OneHome' /\ DoneMeansDone'
  <2>1. CASE live[id] # None \/ dormant[id] # None
    <3>1. /\ live'[id] = None /\ dormant'[id] = None
          /\ snap' = Without(snap, {id}) /\ Drops(id, "over")
          /\ live' \in {live, Without(live, {id})}
          /\ dormant' \in {dormant, Without(dormant, {id})}
      BY <1>6, <2>1 DEF CloseAndWait, OneHome, Without
    <3>2. Vanishes(id)
      BY <3>1 DEF Vanishes, Without
    <3>3. ASSUME NEW i \in Ids, i # id
          PROVE  Fades(i)
      BY <3>1, <3>3 DEF Fades, Without, Drops, TypeOK
    <3>4. QED
      BY <3>2, <3>3, SafeChange
  <2>2. CASE live[id] = None /\ dormant[id] = None
    <3>1. \A i \in Ids : Fades(i)
      BY <1>6, <2>2 DEF CloseAndWait, Fades, TypeOK
    <3>2. QED
      BY <3>1, SafeChange
  <2>3. QED
    BY <2>1, <2>2
<1>7. ASSUME Evict
      PROVE  OneHome' /\ DoneMeansDone'
  BY <1>7, EvictIsSafe DEF Evict
<1>8. QED
  BY <1>1, <1>2, <1>3, <1>4, <1>5, <1>6, <1>7 DEF Request

LEMMA SafeProgress ==
  ASSUME TypeOK, LockDiscipline, OneHome, DoneMeansDone, NEW c \in Clients,
         Progress(c) \/ CloneSession(c)
  PROVE  OneHome' /\ DoneMeansDone'
<1>1. CASE Progress(c)
  BY <1>1, StillIsSafe DEF Progress, Submit, Persist, Release, memory
<1>2. CASE CloneSession(c)
  BY <1>2, NewIdIsSafe DEF CloneSession
<1>3. QED
  BY <1>1, <1>2

\* The one late write there is: the answer to a capture.  Its session is
\* still registered, so the snapshot it saves belongs to an id in use.
LEMMA SafeThread ==
  ASSUME TypeOK, LockDiscipline, OneHome, DoneMeansDone,
         NEW t \in Threads, Thread(t)
  PROVE  OneHome' /\ DoneMeansDone'
<1>1. CASE RunCommand(t)
  BY <1>1, StillIsSafe DEF RunCommand
<1>2. CASE RunRead(t)
  <2> DEFINE a  == Head(queue[t]).from
             id == call[a].id
             s  == live[id]
  <2>1. UNCHANGED <<live, dormant, ended>>
    BY <1>2 DEF RunRead
  <2>2. CASE UNCHANGED snap
    BY <2>1, <2>2, StillIsSafe
  <2>3. CASE /\ a # NoOne /\ pc[a] = "capturing"
             /\ snap' = [snap EXCEPT ![id] = SavedState(s, login[t])]
    <3>1. Head(queue[t]) \in Command
      BY <1>2, TailTyped DEF RunRead, TypeOK
    <3>2. a \in Actors
      BY <2>3, <3>1 DEF Command
    <3>3. live[id] # None
      BY <2>3, <3>2 DEF LockDiscipline
    <3> HIDE DEF a, id, s
    <3>4. \A i \in Ids : Fades(i)
      BY <2>1, <2>3, <3>3 DEF Fades, TypeOK
    <3>5. QED
      BY <3>4, SafeChange
  <2>4. QED
    BY <1>2, <2>2, <2>3 DEF RunRead
<1>3. CASE Dies(t)
  BY <1>3, StillIsSafe DEF Dies
<1>4. QED
  BY <1>1, <1>2, <1>3 DEF Thread, RunClose

LEMMA SafeFlush ==
  ASSUME TypeOK, LockDiscipline, OneHome, DoneMeansDone, Flush
  PROVE  OneHome' /\ DoneMeansDone'
<1>1. CASE FlushStart
  BY <1>1, EvictIsSafe DEF FlushStart
<1>2. CASE (\E id \in Ids : FlushNext(id)) \/ FlushTimeout \/ FlushEnd
  BY <1>2, StillIsSafe DEF FlushNext, FlushTimeout, FlushEnd, memory
<1>3. QED
  BY <1>1, <1>2 DEF Flush

LEMMA SafeEnvironment ==
  ASSUME TypeOK, LockDiscipline, OneHome, DoneMeansDone, Environment
  PROVE  OneHome' /\ DoneMeansDone'
<1>1. ASSUME NEW t \in Threads, PageWrites(t) \/ ThreadDies(t)
      PROVE  OneHome' /\ DoneMeansDone'
  BY <1>1, StillIsSafe DEF PageWrites, ThreadDies, Dies
<1>2. ASSUME NEW id \in Ids, IdleTick(id)
      PROVE  OneHome' /\ DoneMeansDone'
  <2>1. \A i \in Ids : Fades(i)
    BY <1>2 DEF IdleTick, Fades, TypeOK
  <2>2. QED
    BY <2>1, SafeChange
<1>3. ASSUME NEW id \in Ids, SnapshotAges(id)
      PROVE  OneHome' /\ DoneMeansDone'
  <2>1. \A i \in Ids : Fades(i)
    BY <1>3 DEF SnapshotAges, Usable, Fades, TypeOK, memory
  <2>2. QED
    BY <2>1, SafeChange
<1>4. ASSUME NEW c \in Clients, GiveUp(c)
      PROVE  OneHome' /\ DoneMeansDone'
  BY <1>4, StillIsSafe DEF GiveUp
<1>5. CASE Stop
  <2>1. \A i \in Ids : Fades(i)
    BY <1>5 DEF Stop, Fades
  <2>2. QED
    BY <2>1, SafeChange
<1>6. ASSUME NEW mode \in RestoreModes, Boot(mode)
      PROVE  OneHome' /\ DoneMeansDone'
  <2>1. ASSUME NEW i \in Ids
        PROVE  Fades(i) \/ ComesBack(i)
    <3>1. /\ live[i] = None /\ live' = live /\ ended' = ended
          /\ snap'[i] \in {snap[i], None}
          /\ snap[i] = None => dormant'[i] = None
      BY <1>6 DEF Boot, LockDiscipline, Usable, Without
    <3>2. CASE snap[i] = None
      BY <3>1, <3>2 DEF Fades
    <3>3. CASE snap[i] # None
      BY <3>1, <3>3 DEF ComesBack
    <3>4. QED
      BY <3>2, <3>3
  <2>2. QED
    BY <2>1, SafeChange
<1>7. QED
  BY <1>1, <1>2, <1>3, <1>4, <1>5, <1>6 DEF Environment

LEMMA SafeInit == Init => OneHome /\ DoneMeansDone
  BY DEF Init, OneHome, DoneMeansDone

LEMMA SafeStep ==
  TypeOK /\ LockDiscipline /\ OneHome /\ DoneMeansDone /\ [Next]_vars
  => OneHome' /\ DoneMeansDone'
<1>1. ASSUME OneHome, DoneMeansDone, UNCHANGED vars
      PROVE  OneHome' /\ DoneMeansDone'
  BY <1>1, StillIsSafe DEF vars, memory
<1>2. QED
  BY <1>1, SafeRequest, SafeProgress, SafeThread, SafeFlush,
     SafeEnvironment DEF Next

\* An id never has two homes (OneHome), and what was closed or expired for
\* good never comes back by a late capture, a flush, an eviction, a revival
\* or a restart (DoneMeansDone), for every value of the constants.
THEOREM OneHomeHolds == Spec => []OneHome
<1>1. Init => OneHome /\ DoneMeansDone
  BY SafeInit
<1>2. TypeOK /\ LockDiscipline /\ OneHome /\ DoneMeansDone /\ [Next]_vars
      => OneHome' /\ DoneMeansDone'
  BY SafeStep
<1>3. QED
  BY <1>1, <1>2, Typing, PTL DEF Spec

\* The second half: an id that is over has no session, shell or snapshot, and
\* no late save, revival or restart gives it one.
THEOREM DoneMeansDoneHolds == Spec => []DoneMeansDone
<1>1. Init => OneHome /\ DoneMeansDone
  BY SafeInit
<1>2. TypeOK /\ LockDiscipline /\ OneHome /\ DoneMeansDone /\ [Next]_vars
      => OneHome' /\ DoneMeansDone'
  BY SafeStep
<1>3. QED
  BY <1>1, <1>2, Typing, PTL DEF Spec

--------------------------------------------------------------------------
(* A session comes back as what it was.  The flags of an id change in two  *)
(* ways only: an entry is copied from the snapshot, or a snapshot is       *)
(* written from the session, under the mutex that keeps it registered.     *)

\* What FlagsAgree says of one id.
Agree(id) ==
  snap[id] # None =>
    /\ live[id] # None =>
         /\ ~live[id].account
         /\ live[id].persistent = snap[id].persistent
         /\ live[id].keepalive = snap[id].keepalive
    /\ dormant[id] # None =>
         /\ dormant[id].persistent = snap[id].persistent
         /\ dormant[id].keepalive = snap[id].keepalive

\* What is left of the id has the flags it had.
KeepsFlags(id) ==
  /\ live'[id] # None =>
       /\ live[id] # None
       /\ live'[id].account = live[id].account
       /\ live'[id].persistent = live[id].persistent
       /\ live'[id].keepalive = live[id].keepalive
  /\ dormant'[id] # None =>
       /\ dormant[id] # None
       /\ dormant'[id].persistent = dormant[id].persistent
       /\ dormant'[id].keepalive = dormant[id].keepalive
  /\ snap'[id] # None =>
       /\ snap[id] # None
       /\ snap'[id].persistent = snap[id].persistent
       /\ snap'[id].keepalive = snap[id].keepalive

LEMMA FlagsChange ==
  ASSUME FlagsAgree, \A id \in Ids : KeepsFlags(id) \/ Agree(id)'
  PROVE  FlagsAgree'
<1>1. \A id \in Ids : Agree(id)
  BY DEF FlagsAgree, Agree
<1>2. ASSUME NEW id \in Ids, KeepsFlags(id)
      PROVE  Agree(id)'
  BY <1>1, <1>2 DEF Agree, KeepsFlags
<1>3. \A id \in Ids : Agree(id)'
  BY <1>2
<1>4. QED
  BY <1>3 DEF FlagsAgree, Agree

\* A step that leaves maps and store alone.
LEMMA StillFlags ==
  ASSUME FlagsAgree, UNCHANGED <<live, dormant, snap>>
  PROVE  FlagsAgree'
  BY DEF FlagsAgree

\* Entries that leave take no flags along.
LEMMA RemovalKeepsFlags ==
  ASSUME NEW id \in Ids, live'[id] \in {live[id], None},
         dormant'[id] \in {dormant[id], None}, snap'[id] \in {snap[id], None}
  PROVE  KeepsFlags(id)
  BY DEF KeepsFlags

\* A new session has an id without a snapshot.
LEMMA NewIdFlags ==
  ASSUME TypeOK, FlagsAgree, NEW id \in Ids, NEW t \in Threads,
         NEW kind, NEW n, NextId(id), Spawn(id, t, kind, n),
         UNCHANGED <<dormant, snap>>
  PROVE  FlagsAgree'
<1>1. Agree(id)'
  BY DEF Agree, NextId, Fresh
<1>2. ASSUME NEW i \in Ids, i # id
      PROVE  KeepsFlags(i)
  BY <1>2 DEF KeepsFlags, Spawn, TypeOK
<1>3. QED
  BY <1>1, <1>2, FlagsChange

LEMMA EvictFlags ==
  ASSUME TypeOK, FlagsAgree, EvictExpired
  PROVE  FlagsAgree'
<1>1. ASSUME NEW id \in Ids
      PROVE  /\ live'[id] \in {live[id], None}
             /\ dormant'[id] \in {dormant[id], None}
             /\ snap'[id] \in {snap[id], None}
  BY DEF EvictExpired, Without
<1>2. QED
  BY <1>1, RemovalKeepsFlags, FlagsChange

LEMMA FlagsRequest ==
  ASSUME TypeOK, FlagsAgree, OneHome, Request
  PROVE  FlagsAgree'
<1>1. ASSUME NEW kind \in Kinds, CreateSession(kind)
      PROVE  FlagsAgree'
  BY <1>1, NewIdFlags DEF CreateSession
<1>2. ASSUME NEW c \in Clients, NEW id \in Ids, NEW renew \in BOOLEAN,
             NEW locked \in BOOLEAN, BeginLive(c, id, renew, locked)
      PROVE  FlagsAgree'
  <2>1. /\ live' = [live EXCEPT ![id] = Touch(@, renew)]
        /\ live[id] # None /\ UNCHANGED <<dormant, snap>>
    BY <1>2 DEF BeginLive
  <2>2. live[id] \in Session
    BY <2>1 DEF TypeOK
  <2>3. /\ Touch(live[id], renew).account = live[id].account
        /\ Touch(live[id], renew).persistent = live[id].persistent
        /\ Touch(live[id], renew).keepalive = live[id].keepalive
    BY <2>2 DEF Touch, Session
  <2>4. \A i \in Ids : KeepsFlags(i)
    BY <2>1, <2>3 DEF KeepsFlags, TypeOK
  <2>5. QED
    BY <2>4, FlagsChange
<1>3. ASSUME NEW c \in Clients, NEW id \in Ids, NEW renew \in BOOLEAN,
             NEW locked \in BOOLEAN, BeginRevive(c, id, renew, locked)
      PROVE  FlagsAgree'
  <2> DEFINE kind == [persistent |-> snap[id].persistent,
                      keepalive |-> snap[id].keepalive, account |-> FALSE]
  <2>1. PICK t \in Threads : Spawn(id, t, kind, snap[id].login)
    BY <1>3 DEF BeginRevive
  <2>2. snap' = snap /\ dormant' = Without(dormant, {id})
    BY <1>3 DEF BeginRevive
  <2>3. /\ ~live'[id].account
        /\ live'[id].persistent = snap[id].persistent
        /\ live'[id].keepalive = snap[id].keepalive
        /\ \A i \in Ids : i # id => live'[i] = live[i]
    BY <2>1 DEF Spawn, TypeOK
  <2>4. dormant'[id] = None
    BY <2>2 DEF Without
  <2>5. Agree(id)'
    BY <2>2, <2>3, <2>4 DEF Agree
  <2>6. \A i \in Ids : i # id => KeepsFlags(i)
    BY <2>2, <2>3 DEF KeepsFlags, Without
  <2>7. QED
    BY <2>5, <2>6, FlagsChange
<1>4. ASSUME NEW id \in Ids, live' \in {live, Without(live, {id})},
             dormant' \in {dormant, Without(dormant, {id})},
             snap' \in {snap, Without(snap, {id})}
      PROVE  FlagsAgree'
  <2>1. \A i \in Ids : KeepsFlags(i)
    BY <1>4, RemovalKeepsFlags DEF Without
  <2>2. QED
    BY <2>1, FlagsChange
<1>5. ASSUME NEW id \in Ids, NEW renew \in BOOLEAN, RefuseMissing(id, renew)
      PROVE  FlagsAgree'
  BY <1>4, <1>5 DEF RefuseMissing
<1>6. ASSUME NEW id \in Ids, RefuseExpired(id) \/ CloseSession(id)
      PROVE  FlagsAgree'
  BY <1>4, <1>6 DEF RefuseExpired, CloseSession
<1>7. ASSUME NEW c \in Clients, NEW id \in Ids, CloseAndWait(c, id)
      PROVE  FlagsAgree'
  BY <1>4, <1>7 DEF CloseAndWait
<1>8. ASSUME Evict
      PROVE  FlagsAgree'
  BY <1>8, EvictFlags DEF Evict
<1>9. QED
  BY <1>1, <1>2, <1>3, <1>5, <1>6, <1>7, <1>8 DEF Request

LEMMA FlagsProgress ==
  ASSUME TypeOK, FlagsAgree, NEW c \in Clients,
         Progress(c) \/ CloneSession(c)
  PROVE  FlagsAgree'
<1>1. CASE Progress(c)
  BY <1>1, StillFlags DEF Progress, Submit, Persist, Release, memory
<1>2. CASE CloneSession(c)
  BY <1>2, NewIdFlags DEF CloneSession
<1>3. QED
  BY <1>1, <1>2

\* The answer to a capture is saved with the flags of the session its id
\* names now; an account session's goes elsewhere.
LEMMA FlagsThread ==
  ASSUME TypeOK, LockDiscipline, OneHome, FlagsAgree,
         NEW t \in Threads, Thread(t)
  PROVE  FlagsAgree'
<1>1. CASE RunCommand(t)
  BY <1>1, StillFlags DEF RunCommand
<1>2. CASE RunRead(t)
  <2> DEFINE a  == Head(queue[t]).from
             id == call[a].id
             s  == live[id]
  <2>1. UNCHANGED <<live, dormant>>
    BY <1>2 DEF RunRead
  <2>2. CASE UNCHANGED snap
    BY <2>1, <2>2, StillFlags
  <2>3. CASE /\ a # NoOne /\ pc[a] = "capturing"
             /\ ~(s # None /\ s.account)
             /\ snap' = [snap EXCEPT ![id] = SavedState(s, login[t])]
    <3>1. Head(queue[t]) \in Command
      BY <1>2, TailTyped DEF RunRead, TypeOK
    <3>2. a \in Actors
      BY <2>3, <3>1 DEF Command
    <3>3. s # None /\ call[a] # None
      BY <2>3, <3>2 DEF LockDiscipline
    <3>4. call[a] \in Call
      BY <3>2, <3>3 DEF TypeOK
    <3>5. id \in Ids
      BY <3>4 DEF Call
    <3>6. PICK j \in Ids : j = id
      BY <3>5
    <3> HIDE DEF a, id, s
    <3>7. s = live[j]
      BY <3>6 DEF s
    <3>8. dormant[j] = None
      BY <3>3, <3>7 DEF OneHome
    <3>9. /\ snap'[j] = SavedState(s, login[t])
          /\ \A i \in Ids : i # j => snap'[i] = snap[i]
      BY <2>3, <3>6 DEF TypeOK
    <3>10. /\ SavedState(s, login[t]).persistent = s.persistent
           /\ SavedState(s, login[t]).keepalive = s.keepalive
      BY <3>3 DEF SavedState
    <3>11. live'[j] = s /\ dormant'[j] = None
      BY <2>1, <3>7, <3>8
    <3>12. ~live'[j].account
      BY <2>3, <3>3, <3>11, Zenon
    <3>13. /\ live'[j].persistent = snap'[j].persistent
           /\ live'[j].keepalive = snap'[j].keepalive
      BY <3>9, <3>10, <3>11
    <3>14. Agree(j)'
      BY <3>11, <3>12, <3>13, Zenon DEF Agree
    <3>15. \A i \in Ids : i # j => KeepsFlags(i)
      BY <2>1, <3>9 DEF KeepsFlags
    <3>16. QED
      BY <3>14, <3>15, FlagsChange
  <2>4. \/ a = NoOne /\ UNCHANGED <<snap, pc, call>>
        \/ /\ a # NoOne /\ pc[a] = "capturing"
           /\ snap' \in (IF s # None /\ s.account THEN {snap}
                        ELSE {[snap EXCEPT ![id] = SavedState(s, login[t])]})
                       \cup (IF Faults THEN {snap} ELSE {})
    BY <1>2 DEF RunRead
  <2> DEFINE new == [snap EXCEPT ![id] = SavedState(s, login[t])]
  <2> HIDE DEF a, id, s, new
  <2>5. CASE snap' = snap
    BY <2>2, <2>5
  <2>6. CASE snap' # snap
    <3>1. /\ a # NoOne /\ pc[a] = "capturing"
          /\ ~(s # None /\ s.account) /\ snap' = new
      BY <2>4, <2>6, Zenon DEF new
    <3>2. QED
      BY <2>3, <3>1 DEF new
  <2>7. QED
    BY <2>5, <2>6
<1>3. CASE Dies(t)
  BY <1>3, StillFlags DEF Dies
<1>4. QED
  BY <1>1, <1>2, <1>3 DEF Thread, RunClose

LEMMA FlagsFlush ==
  ASSUME TypeOK, FlagsAgree, Flush
  PROVE  FlagsAgree'
<1>1. CASE FlushStart
  BY <1>1, EvictFlags DEF FlushStart
<1>2. CASE (\E id \in Ids : FlushNext(id)) \/ FlushTimeout \/ FlushEnd
  BY <1>2, StillFlags DEF FlushNext, FlushTimeout, FlushEnd, memory
<1>3. QED
  BY <1>1, <1>2 DEF Flush

LEMMA FlagsEnvironment ==
  ASSUME TypeOK, LockDiscipline, FlagsAgree, Environment
  PROVE  FlagsAgree'
<1>1. ASSUME NEW t \in Threads, PageWrites(t) \/ ThreadDies(t)
      PROVE  FlagsAgree'
  BY <1>1, StillFlags DEF PageWrites, ThreadDies, Dies
<1>2. ASSUME NEW id \in Ids, IdleTick(id)
      PROVE  FlagsAgree'
  <2>1. CASE /\ live[id] # None /\ live' = [live EXCEPT ![id].idle = @ + 1]
             /\ UNCHANGED <<dormant, snap>>
    <3>1. live[id] \in Session
      BY <2>1 DEF TypeOK
    <3>2. /\ live'[id].account = live[id].account
          /\ live'[id].persistent = live[id].persistent
          /\ live'[id].keepalive = live[id].keepalive
          /\ \A i \in Ids : i # id => live'[i] = live[i]
      BY <2>1, <3>1 DEF TypeOK, Session
    <3>3. \A i \in Ids : KeepsFlags(i)
      BY <2>1, <3>2 DEF KeepsFlags
    <3>4. QED
      BY <3>3, FlagsChange
  <2>2. CASE /\ dormant[id] # None
             /\ dormant' = [dormant EXCEPT ![id].idle = @ + 1]
             /\ UNCHANGED <<live, snap>>
    <3>1. dormant[id] \in Shell
      BY <2>2 DEF TypeOK
    <3>2. /\ dormant'[id].persistent = dormant[id].persistent
          /\ dormant'[id].keepalive = dormant[id].keepalive
          /\ \A i \in Ids : i # id => dormant'[i] = dormant[i]
      BY <2>2, <3>1 DEF TypeOK, Shell
    <3>3. \A i \in Ids : KeepsFlags(i)
      BY <2>2, <3>2 DEF KeepsFlags
    <3>4. QED
      BY <3>3, FlagsChange
  <2>3. QED
    BY <1>2, <2>1, <2>2 DEF IdleTick
<1>3. ASSUME NEW id \in Ids, SnapshotAges(id)
      PROVE  FlagsAgree'
  <2>1. /\ snap[id] # None /\ snap' = [snap EXCEPT ![id].stale = TRUE]
        /\ UNCHANGED <<live, dormant>>
    BY <1>3 DEF SnapshotAges, Usable, memory
  <2>2. snap[id] \in Snapshot
    BY <2>1 DEF TypeOK
  <2>3. /\ snap'[id].persistent = snap[id].persistent
        /\ snap'[id].keepalive = snap[id].keepalive
        /\ \A i \in Ids : i # id => snap'[i] = snap[i]
    BY <2>1, <2>2 DEF TypeOK, Snapshot
  <2>4. \A i \in Ids : KeepsFlags(i)
    BY <2>1, <2>3 DEF KeepsFlags
  <2>5. QED
    BY <2>4, FlagsChange
<1>4. ASSUME NEW c \in Clients, GiveUp(c)
      PROVE  FlagsAgree'
  BY <1>4, StillFlags DEF GiveUp
<1>5. CASE Stop
  <2>1. \A i \in Ids : KeepsFlags(i)
    BY <1>5 DEF Stop, KeepsFlags
  <2>2. QED
    BY <2>1, FlagsChange
<1>6. ASSUME NEW mode \in RestoreModes, Boot(mode)
      PROVE  FlagsAgree'
  <2>1. ASSUME NEW i \in Ids
        PROVE  Agree(i)'
    <3>1. /\ live'[i] = None /\ snap'[i] \in {snap[i], None}
          /\ dormant'[i] # None =>
               /\ dormant'[i].persistent = snap[i].persistent
               /\ dormant'[i].keepalive = snap[i].keepalive
      BY <1>6 DEF Boot, LockDiscipline, Without
    <3>2. QED
      BY <3>1 DEF Agree
  <2>2. QED
    BY <2>1, FlagsChange
<1>7. QED
  BY <1>1, <1>2, <1>3, <1>4, <1>5, <1>6 DEF Environment

LEMMA FlagsStep ==
  TypeOK /\ LockDiscipline /\ OneHome /\ FlagsAgree /\ [Next]_vars
  => FlagsAgree'
<1>1. ASSUME FlagsAgree, UNCHANGED vars
      PROVE  FlagsAgree'
  BY <1>1, StillFlags DEF vars, memory
<1>2. QED
  BY <1>1, FlagsRequest, FlagsProgress, FlagsThread, FlagsFlush,
     FlagsEnvironment DEF Next

\* The snapshot of an id carries the flags of its session or shell, and an
\* account session has none (FlagsAgree), for every value of the constants.
THEOREM FlagsAgreeHolds == Spec => []FlagsAgree
<1>1. Init => FlagsAgree
  BY DEF Init, FlagsAgree
<1>2. TypeOK /\ LockDiscipline /\ OneHome /\ FlagsAgree /\ [Next]_vars
      => FlagsAgree'
  BY FlagsStep
<1>3. QED
  BY <1>1, <1>2, Typing, OneHomeHolds, PTL DEF Spec

--------------------------------------------------------------------------
(* The mail.  A command in a channel whose sender still waits is the only  *)
(* one of that sender, lies in the channel the sender's call names, and is *)
(* of the kind the sender waits for; the channel of a dead thread is       *)
(* empty.  So an answer is never taken for the answer to another question. *)

\* Where a handler is that waits for the answer to such a command.
Stage(what) ==
  IF what = "cmd" THEN "awaiting"
  ELSE IF what = "read" THEN "capturing" ELSE "closing"

\* Nothing in channel q is from c.
Silent(q, c) == \A i \in DOMAIN q : q[i].from # c

\* Channel q of thread t fits the handlers' places p and their calls k.
Sound(q, t, p, k) ==
  /\ \A i \in DOMAIN q : q[i].from # NoOne =>
       p[q[i].from] = Stage(q[i].what) /\ k[q[i].from].thread = t
  /\ \A i, j \in DOMAIN q :
       q[i].from = q[j].from /\ q[i].from # NoOne => i = j

Mail ==
  /\ \A t \in Threads : Sound(queue[t], t, pc, call)
  /\ \A t \in Threads \ alive : queue[t] = <<>>

\* Who waits for nothing, or on another thread, has nothing in the channel.
LEMMA NotWaitingIsSilent ==
  ASSUME NEW q, NEW t, NEW p, NEW k, NEW c, c # NoOne, Sound(q, t, p, k),
         \/ p[c] \notin {"awaiting", "capturing", "closing"}
         \/ k[c].thread # t
  PROVE  Silent(q, c)
  BY DEF Silent, Sound, Stage

\* A channel without a word from c does not care where c goes.
LEMMA SoundElsewhere ==
  ASSUME NEW q \in Seq(Command), NEW t, NEW p, NEW k, NEW p2, NEW k2, NEW c,
         Sound(q, t, p, k), Silent(q, c),
         \A a \in Actors \ {c} : p2[a] = p[a] /\ k2[a].thread = k[a].thread
  PROVE  Sound(q, t, p2, k2)
<1>1. \A i \in DOMAIN q : q[i] \in Command
  BY ElementOfSeq, LenProperties
<1>2. \A i \in DOMAIN q : q[i].from \in Actors \cup {NoOne}
  BY <1>1 DEF Command
<1>3. QED
  BY <1>2 DEF Sound, Silent

\* One more command, from nobody or from the one who now waits for it.
LEMMA SoundAppend ==
  ASSUME NEW q \in Seq(Command), NEW t, NEW p, NEW k, NEW m \in Command,
         Sound(q, t, p, k),
         \/ m.from = NoOne
         \/ /\ Silent(q, m.from) /\ p[m.from] = Stage(m.what)
            /\ k[m.from].thread = t
  PROVE  Sound(Append(q, m), t, p, k)
<1> DEFINE r == Append(q, m)
<1>1. /\ Len(q) \in Nat /\ DOMAIN q = 1..Len(q)
      /\ DOMAIN r = 1..(Len(q) + 1)
      /\ \A i \in 1..Len(q) : r[i] = q[i]
      /\ r[Len(q) + 1] = m
  BY AppendProperties, LenProperties
<1> HIDE DEF r
<1>2. \A i \in DOMAIN r : \/ i \in DOMAIN q /\ r[i] = q[i]
                          \/ i = Len(q) + 1 /\ r[i] = m
  BY <1>1
<1>3. QED
  BY <1>2 DEF Sound, Silent, r

\* The first command taken off: whoever sent it has no other.
LEMMA SoundTail ==
  ASSUME NEW q \in Seq(Command), q # <<>>, NEW t, NEW p, NEW k,
         Sound(q, t, p, k)
  PROVE  /\ Sound(Tail(q), t, p, k)
         /\ Head(q).from # NoOne =>
              /\ Silent(Tail(q), Head(q).from)
              /\ p[Head(q).from] = Stage(Head(q).what)
              /\ k[Head(q).from].thread = t
<1> DEFINE r == Tail(q)
<1>1. /\ Len(q) \in Nat \ {0} /\ DOMAIN q = 1..Len(q)
      /\ Head(q) = q[1]
      /\ DOMAIN r = 1..(Len(q) - 1)
      /\ \A i \in 1..(Len(q) - 1) : r[i] = q[i + 1]
  BY HeadTailProperties, LenProperties, EmptySeq
<1> HIDE DEF r
<1>2. \A i \in DOMAIN r : /\ i + 1 \in DOMAIN q /\ r[i] = q[i + 1]
                          /\ i + 1 # 1 /\ i \in Int
  BY <1>1
<1>3. 1 \in DOMAIN q
  BY <1>1
<1>4. Sound(r, t, p, k)
  <2>1. \A i \in DOMAIN r : r[i].from # NoOne =>
          p[r[i].from] = Stage(r[i].what) /\ k[r[i].from].thread = t
    BY <1>2 DEF Sound
  <2>2. \A i, j \in DOMAIN r :
          r[i].from = r[j].from /\ r[i].from # NoOne => i = j
    <3>1. SUFFICES ASSUME NEW i \in DOMAIN r, NEW j \in DOMAIN r,
                          r[i].from = r[j].from, r[i].from # NoOne
                   PROVE  i = j
      OBVIOUS
    <3>2. i + 1 = j + 1
      BY <1>2, <3>1 DEF Sound
    <3>3. QED
      BY <1>2, <3>2
  <2>3. QED
    BY <2>1, <2>2 DEF Sound
<1>5. Head(q).from # NoOne => Silent(r, Head(q).from)
  BY <1>1, <1>2, <1>3 DEF Sound, Silent
<1>6. QED
  BY <1>1, <1>3, <1>4, <1>5 DEF Sound, r

\* Hanging up adds words from nobody, and none to the dead.
LEMMA HangUpSound ==
  ASSUME TypeOK, Mail, NEW S
  PROVE  /\ \A t \in Threads : Sound(HangUp(S)[t], t, pc, call)
         /\ \A t \in Threads \ alive : HangUp(S)[t] = <<>>
         /\ \A t \in Threads :
              HangUp(S)[t] \in {queue[t], Append(queue[t], CloseCmd)}
<1>1. CloseCmd \in Command /\ CloseCmd.from = NoOne
  BY DEF CloseCmd, Command
<1>2. ASSUME NEW t \in Threads
      PROVE  HangUp(S)[t] \in {queue[t], Append(queue[t], CloseCmd)}
  BY DEF HangUp
<1>3. ASSUME NEW t \in Threads
      PROVE  Sound(HangUp(S)[t], t, pc, call)
  <2>1. queue[t] \in Seq(Command) /\ Sound(queue[t], t, pc, call)
    BY DEF TypeOK, Mail
  <2>2. Sound(Append(queue[t], CloseCmd), t, pc, call)
    BY <1>1, <2>1, SoundAppend
  <2>3. QED
    BY <1>2, <2>1, <2>2
<1>4. ASSUME NEW t \in Threads \ alive
      PROVE  HangUp(S)[t] = <<>>
  BY DEF HangUp, Mail
<1>5. QED
  BY <1>2, <1>3, <1>4

\* A handler that dropped its receivers has no word left anywhere.
LEMMA UnheardSound ==
  ASSUME TypeOK, Mail, NEW a \in Actors
  PROVE  /\ \A t \in Threads : Sound(Unheard(a)[t], t, pc, call)
         /\ \A t \in Threads : Silent(Unheard(a)[t], a)
         /\ \A t \in Threads \ alive : Unheard(a)[t] = <<>>
         /\ \A t \in Threads :
              /\ DOMAIN Unheard(a)[t] = DOMAIN queue[t]
              /\ \A i \in DOMAIN queue[t] :
                   /\ Unheard(a)[t][i].what = queue[t][i].what
                   /\ Unheard(a)[t][i].from =
                        IF queue[t][i].from = a THEN NoOne
                                                ELSE queue[t][i].from
<1>1. a # NoOne
  OBVIOUS
<1>2. ASSUME NEW t \in Threads
      PROVE  /\ DOMAIN Unheard(a)[t] = DOMAIN queue[t]
             /\ \A i \in DOMAIN queue[t] :
                  /\ Unheard(a)[t][i].what = queue[t][i].what
                  /\ Unheard(a)[t][i].from =
                       IF queue[t][i].from = a THEN NoOne
                                               ELSE queue[t][i].from
  <2>1. queue[t] \in Seq(Command)
    BY DEF TypeOK
  <2>2. \A i \in DOMAIN queue[t] : queue[t][i] \in Command
    BY <2>1, ElementOfSeq, LenProperties
  <2>3. Unheard(a)[t] =
          [i \in DOMAIN queue[t] |->
             IF queue[t][i].from = a
             THEN [queue[t][i] EXCEPT !.from = NoOne] ELSE queue[t][i]]
    BY DEF Unheard
  <2>4. ASSUME NEW m \in Command
        PROVE  /\ [m EXCEPT !.from = NoOne].what = m.what
               /\ [m EXCEPT !.from = NoOne].from = NoOne
    BY DEF Command
  <2>5. QED
    BY <2>2, <2>3, <2>4
<1>3. ASSUME NEW t \in Threads
      PROVE  Sound(Unheard(a)[t], t, pc, call) /\ Silent(Unheard(a)[t], a)
  <2>1. Sound(queue[t], t, pc, call)
    BY DEF Mail
  <2>2. QED
    BY <1>1, <1>2, <2>1 DEF Sound, Silent
<1>4. ASSUME NEW t \in Threads \ alive
      PROVE  Unheard(a)[t] = <<>>
  <2>1. queue[t] = <<>>
    BY DEF Mail
  <2>2. Unheard(a)[t] \in Seq(Command)
    BY UnheardTyped
  <2>3. DOMAIN Unheard(a)[t] = DOMAIN queue[t]
    BY <1>2
  <2> DEFINE q == Unheard(a)[t]
  <2> HIDE DEF q
  <2>4. /\ q \in Seq(Command) /\ queue[t] \in Seq(Command)
        /\ DOMAIN q = DOMAIN queue[t] /\ Len(queue[t]) = 0
    BY <2>1, <2>2, <2>3, EmptySeq DEF q, TypeOK
  <2>5. Len(q) = 0
    BY <2>4, LenProperties
  <2>6. q = <<>>
    BY <2>4, <2>5, EmptySeq
  <2>7. QED
    BY <2>6 DEF q
<1>5. QED
  BY <1>2, <1>3, <1>4

\* One handler moves on, and nothing from it is in any channel by then.
LEMMA OneMoves ==
  ASSUME NEW c \in Actors,
         \A t \in Threads : /\ queue'[t] \in Seq(Command)
                            /\ Sound(queue'[t], t, pc, call)
                            /\ Silent(queue'[t], c),
         \A a \in Actors \ {c} :
           pc'[a] = pc[a] /\ call'[a].thread = call[a].thread
  PROVE  \A t \in Threads : Sound(queue'[t], t, pc', call')
<1>1. ASSUME NEW t \in Threads
      PROVE  Sound(queue'[t], t, pc', call')
  BY SoundElsewhere
<1>2. QED
  BY <1>1

\* No handler moves at all, though one may be forgiven.
LEMMA NoneMoves ==
  ASSUME \A t \in Threads : /\ queue'[t] \in Seq(Command)
                            /\ Sound(queue'[t], t, pc, call),
         \A a \in Actors : pc'[a] = pc[a] /\ call'[a].thread = call[a].thread
  PROVE  \A t \in Threads : Sound(queue'[t], t, pc', call')
<1>1. ASSUME NEW t \in Threads
      PROVE  Sound(queue'[t], t, pc', call')
  <2> DEFINE q == queue'[t]
  <2>1. q \in Seq(Command) /\ Sound(q, t, pc, call)
    OBVIOUS
  <2> HIDE DEF q
  <2>2. \A i \in DOMAIN q : q[i] \in Command
    BY <2>1, ElementOfSeq, LenProperties
  <2>3. \A i \in DOMAIN q : q[i].from \in Actors \cup {NoOne}
    BY <2>2 DEF Command
  <2>4. Sound(q, t, pc', call')
    BY <2>1, <2>3 DEF Sound
  <2>5. QED
    BY <2>4 DEF q
<1>2. QED
  BY <1>1

\* A handler moves on to wait for an answer: one command more, its own.
LEMMA OneAsks ==
  ASSUME TypeOK, Mail, NEW c \in Actors, NEW t \in Threads,
         NEW what \in {"cmd", "read", "close"},
         pc[c] \notin {"awaiting", "capturing", "closing"},
         queue' = [queue EXCEPT ![t] =
                     Append(@, [from |-> c, what |-> what])],
         pc'[c] = Stage(what), call'[c].thread = t,
         \A a \in Actors \ {c} :
           pc'[a] = pc[a] /\ call'[a].thread = call[a].thread
  PROVE  \A u \in Threads : Sound(queue'[u], u, pc', call')
<1> DEFINE m == [from |-> c, what |-> what]
<1>1. m \in Command /\ m.from = c /\ m.what = what /\ c # NoOne
  BY DEF Command
<1>2. ASSUME NEW u \in Threads
      PROVE  /\ queue[u] \in Seq(Command)
             /\ Silent(queue[u], c) /\ Sound(queue[u], u, pc', call')
  <2>1. queue[u] \in Seq(Command) /\ Sound(queue[u], u, pc, call)
    BY DEF TypeOK, Mail
  <2>2. Silent(queue[u], c)
    BY <1>1, <2>1, NotWaitingIsSilent
  <2>3. Sound(queue[u], u, pc', call')
    BY <2>1, <2>2, SoundElsewhere
  <2>4. QED
    BY <2>1, <2>2, <2>3
<1>3. queue'[t] = Append(queue[t], m)
      /\ \A u \in Threads : u # t => queue'[u] = queue[u]
  BY DEF TypeOK
<1> HIDE DEF m
<1>4. Sound(Append(queue[t], m), t, pc', call')
  BY <1>1, <1>2, SoundAppend
<1>5. QED
  BY <1>2, <1>3, <1>4

\* Forgiving changes no thread.
LEMMA ForgiveThreads ==
  ASSUME TypeOK, NEW id \in Ids
  PROVE  \A a \in Actors : Forgive(id)[a].thread = call[a].thread
<1>1. ASSUME NEW a \in Actors
      PROVE  Forgive(id)[a].thread = call[a].thread
  <2>1. CASE call[a] \in Call
    <3>1. [call[a] EXCEPT !.durable = FALSE].thread = call[a].thread
      BY <2>1 DEF Call
    <3>2. QED
      BY <3>1 DEF Forgive
  <2>2. CASE call[a] = None
    BY <2>2 DEF Forgive
  <2>3. QED
    BY <2>1, <2>2 DEF TypeOK
<1>2. QED
  BY <1>1

\* Hanging up without any handler moving.
LEMMA MailHangUp ==
  ASSUME TypeOK, Mail, NEW S, queue' = HangUp(S), alive \subseteq alive',
         \A a \in Actors : pc'[a] = pc[a] /\ call'[a].thread = call[a].thread
  PROVE  Mail'
<1>1. \A t \in Threads : /\ queue'[t] \in Seq(Command)
                         /\ Sound(queue'[t], t, pc, call)
  BY HangUpSound, HangUpTyped
<1>2. \A t \in Threads : Sound(queue'[t], t, pc', call')
  BY <1>1, NoneMoves
<1>3. \A t \in Threads \ alive' : queue'[t] = <<>>
  BY HangUpSound
<1>4. QED
  BY <1>2, <1>3 DEF Mail

\* Hanging up while a handler that waited for nothing moves on to a place
\* where it waits for nothing either.
LEMMA MailHangUpMove ==
  ASSUME TypeOK, Mail, NEW S, queue' = HangUp(S), alive \subseteq alive',
         NEW c \in Actors,
         pc[c] \notin {"awaiting", "capturing", "closing"},
         \A a \in Actors \ {c} :
           pc'[a] = pc[a] /\ call'[a].thread = call[a].thread
  PROVE  Mail'
<1>1. ASSUME NEW t \in Threads
      PROVE  /\ queue'[t] \in Seq(Command)
             /\ Sound(queue'[t], t, pc, call)
             /\ Silent(queue'[t], c)
  <2>1. queue'[t] \in Seq(Command) /\ Sound(queue'[t], t, pc, call)
    BY HangUpSound, HangUpTyped
  <2>2. QED
    BY <2>1, NotWaitingIsSilent
<1>2. \A t \in Threads : Sound(queue'[t], t, pc', call')
  BY <1>1, OneMoves
<1>3. \A t \in Threads \ alive' : queue'[t] = <<>>
  BY HangUpSound
<1>4. QED
  BY <1>2, <1>3 DEF Mail

\* The same with the channels left alone.
LEMMA MailMove ==
  ASSUME TypeOK, Mail, UNCHANGED <<queue, alive>>, NEW c \in Actors,
         pc[c] \notin {"awaiting", "capturing", "closing"},
         \A a \in Actors \ {c} :
           pc'[a] = pc[a] /\ call'[a].thread = call[a].thread
  PROVE  Mail'
<1>1. ASSUME NEW t \in Threads
      PROVE  /\ queue'[t] \in Seq(Command)
             /\ Sound(queue'[t], t, pc, call)
             /\ Silent(queue'[t], c)
  <2>1. queue'[t] \in Seq(Command) /\ Sound(queue'[t], t, pc, call)
    BY DEF Mail, TypeOK
  <2>2. QED
    BY <2>1, NotWaitingIsSilent
<1>2. \A t \in Threads : Sound(queue'[t], t, pc', call')
  BY <1>1, OneMoves
<1>3. QED
  BY <1>2 DEF Mail

LEMMA MailStill ==
  ASSUME TypeOK, Mail, UNCHANGED <<queue, alive>>,
         \A a \in Actors : pc'[a] = pc[a] /\ call'[a].thread = call[a].thread
  PROVE  Mail'
<1>1. \A t \in Threads : /\ queue'[t] \in Seq(Command)
                         /\ Sound(queue'[t], t, pc, call)
  BY DEF Mail, TypeOK
<1>2. \A t \in Threads : Sound(queue'[t], t, pc', call')
  BY <1>1, NoneMoves
<1>3. QED
  BY <1>2 DEF Mail

\* Entering the pipeline, or answering the caller, moves one handler.
LEMMA EnterMoves ==
  ASSUME TypeOK, NEW c \in Clients, NEW id, NEW t, NEW renew, NEW locked,
         NEW s, Enter(c, id, t, renew, locked, s)
  PROVE  \A a \in Actors \ {c} : pc'[a] = pc[a] /\ call'[a] = call[a]
  BY DEF Enter, TypeOK

LEMMA ReturnMoves ==
  ASSUME TypeOK, NEW c \in Actors, Return(c)
  PROVE  /\ pc'[c] = "idle" /\ call'[c] = None
         /\ \A a \in Actors \ {c} : pc'[a] = pc[a] /\ call'[a] = call[a]
<1>1. /\ pc'   = [pc EXCEPT ![c] = "idle"]
      /\ call' = [call EXCEPT ![c] = None]
  BY DEF Return
<1>2. QED
  BY <1>1 DEF TypeOK

\* What persist_after_success does to its handler: it asks the thread that
\* serves the id now, or there is nothing to ask.
LEMMA PersistMoves ==
  ASSUME TypeOK, LockDiscipline, NEW c \in Clients, Persist(c)
  PROVE  /\ pc[c] = "replied" /\ call[c] \in Call /\ alive' = alive
         /\ \A a \in Actors \ {c} : pc'[a] = pc[a] /\ call'[a] = call[a]
         /\ \/ /\ ~CanCapture(call[c].id) /\ pc'[c] = "holding"
               /\ UNCHANGED <<queue, call>>
            \/ /\ CanCapture(call[c].id) /\ pc'[c] = "capturing"
               /\ live[call[c].id].thread \in Threads \cap alive
               /\ call'[c] = [call[c] EXCEPT
                                !.thread = live[call[c].id].thread]
               /\ queue' = [queue EXCEPT ![live[call[c].id].thread] =
                              Append(@, [from |-> c, what |-> "read"])]
<1> DEFINE id == call[c].id
           t  == live[id].thread
<1>1. c \in Actors
  BY DEF Actors
<1>2. pc[c] = "replied" /\ alive' = alive
  BY Zenon DEF Persist
<1>3. call[c] \in Call
  BY <1>1, <1>2 DEF LockDiscipline, TypeOK
<1>4. CASE CanCapture(id)
  <2>1. /\ queue' = [queue EXCEPT ![t] =
                       Append(@, [from |-> c, what |-> "read"])]
        /\ pc'   = [pc EXCEPT ![c] = "capturing"]
        /\ call' = [call EXCEPT ![c].thread = t]
    BY <1>4, Zenon DEF Persist
  <2>2. t \in Threads \cap alive
    BY <1>4 DEF CanCapture, Listening, TypeOK
  <2>3. call' = [call EXCEPT ![c] = [call[c] EXCEPT !.thread = t]]
    BY <2>1
  <2> HIDE DEF t, id
  <2>4. /\ pc'[c] = "capturing"
        /\ call'[c] = [call[c] EXCEPT !.thread = t]
        /\ \A a \in Actors \ {c} : pc'[a] = pc[a] /\ call'[a] = call[a]
    BY <1>1, <2>1, <2>3 DEF TypeOK
  <2>5. QED
    BY <1>2, <1>3, <1>4, <2>1, <2>2, <2>4 DEF t, id
<1>5. CASE ~CanCapture(id)
  <2>1. /\ pc' = [pc EXCEPT ![c] = "holding"]
        /\ UNCHANGED <<queue, call>>
    BY <1>5, Zenon DEF Persist
  <2>2. /\ pc'[c] = "holding"
        /\ \A a \in Actors \ {c} : pc'[a] = pc[a] /\ call'[a] = call[a]
    BY <1>1, <2>1 DEF TypeOK
  <2>3. QED
    BY <1>2, <1>3, <1>5, <2>1, <2>2
<1>6. QED
  BY <1>4, <1>5

LEMMA MailRequest ==
  ASSUME TypeOK, LockDiscipline, Mail, Request
  PROVE  Mail'
<1>1. Clients \subseteq Actors
  BY DEF Actors
<1>2. ASSUME NEW kind \in Kinds, CreateSession(kind)
      PROVE  Mail'
  <2>1. PICK id \in Ids, t \in Threads : Spawn(id, t, kind, 0)
    BY <1>2 DEF CreateSession
  <2>2. queue' = HangUp({id}) /\ alive \subseteq alive'
    BY <2>1 DEF Spawn
  <2>3. UNCHANGED <<pc, call>>
    BY <1>2 DEF CreateSession
  <2>4. QED
    BY <2>2, <2>3, MailHangUp
<1>3. ASSUME NEW c \in Clients, NEW id \in Ids, NEW renew \in BOOLEAN,
             NEW locked \in BOOLEAN, BeginLive(c, id, renew, locked)
      PROVE  Mail'
  <2>1. /\ pc[c] = "idle" /\ UNCHANGED <<queue, alive>>
        /\ Enter(c, id, live[id].thread, renew, locked, live[id])
    BY <1>3 DEF BeginLive
  <2>2. QED
    BY <1>1, <2>1, EnterMoves, MailMove
<1>4. ASSUME NEW c \in Clients, NEW id \in Ids, NEW renew \in BOOLEAN,
             NEW locked \in BOOLEAN, BeginRevive(c, id, renew, locked)
      PROVE  Mail'
  <2> DEFINE kind == [persistent |-> snap[id].persistent,
                      keepalive |-> snap[id].keepalive, account |-> FALSE]
  <2>1. PICK t \in Threads : /\ Spawn(id, t, kind, snap[id].login)
                             /\ Enter(c, id, t, renew, locked, kind)
    BY <1>4 DEF BeginRevive
  <2> HIDE DEF kind
  <2>2. queue' = HangUp({id}) /\ alive \subseteq alive'
    BY <2>1 DEF Spawn
  <2>3. pc[c] = "idle"
    BY <1>4 DEF BeginRevive
  <2>4. \A a \in Actors \ {c} : pc'[a] = pc[a] /\ call'[a] = call[a]
    BY <2>1, EnterMoves
  <2>5. QED
    BY <1>1, <2>2, <2>3, <2>4, MailHangUpMove
<1>5. ASSUME NEW id \in Ids, NEW renew \in BOOLEAN, RefuseMissing(id, renew)
      PROVE  Mail'
  BY <1>5, MailHangUp DEF RefuseMissing
<1>6. ASSUME NEW id \in Ids, RefuseExpired(id)
      PROVE  Mail'
  BY <1>6, MailHangUp DEF RefuseExpired
<1>7. ASSUME NEW id \in Ids, CloseSession(id)
      PROVE  Mail'
  <2>1. /\ queue' = HangUp({id}) /\ call' = Forgive(id)
        /\ UNCHANGED <<pc, alive>>
    BY <1>7 DEF CloseSession
  <2>2. QED
    BY <2>1, MailHangUp, ForgiveThreads
<1>8. ASSUME NEW c \in Clients, NEW id \in Ids, CloseAndWait(c, id)
      PROVE  Mail'
  <2> DEFINE t == live[id].thread
             r == [id |-> id, thread |-> t, renew |-> FALSE, locked |-> TRUE,
                   durable |-> FALSE, seen |-> 0]
  <2>1. pc[c] = "idle" /\ alive' = alive
    BY <1>8 DEF CloseAndWait
  <2>2. CASE UNCHANGED <<queue, pc>> /\ call' \in {call, Forgive(id)}
    <3>1. \A a \in Actors : call'[a].thread = call[a].thread
      BY <2>2, ForgiveThreads
    <3>2. QED
      BY <2>1, <2>2, <3>1, MailStill
  <2>3. CASE /\ live[id] # None /\ t \in alive
             /\ queue' = [queue EXCEPT ![t] =
                            Append(@, [from |-> c, what |-> "close"])]
             /\ pc'    = [pc EXCEPT ![c] = "closing"]
             /\ call'  = [Forgive(id) EXCEPT ![c] = r]
    <3>1. t \in Threads
      BY <2>3 DEF TypeOK
    <3>2. Forgive(id) \in [Actors -> Call \cup {None}]
      BY ForgiveTyped
    <3>3. \A a \in Actors \ {c} :
            pc'[a] = pc[a] /\ call'[a].thread = call[a].thread
      BY <2>3, <3>2, ForgiveThreads DEF TypeOK
    <3>4. pc'[c] = Stage("close") /\ call'[c].thread = t
      BY <1>1, <2>3, <3>2 DEF TypeOK, Stage
    <3>5. \A u \in Threads : Sound(queue'[u], u, pc', call')
      BY <1>1, <2>1, <2>3, <3>1, <3>3, <3>4, OneAsks
    <3>6. \A u \in Threads \ alive : queue'[u] = queue[u]
      BY <2>3 DEF TypeOK
    <3>7. QED
      BY <2>1, <3>5, <3>6 DEF Mail
  <2>4. QED
    BY <1>8, <2>2, <2>3 DEF CloseAndWait
<1>9. ASSUME Evict
      PROVE  Mail'
  BY <1>9, MailHangUp DEF Evict, EvictExpired
<1>10. QED
  BY <1>2, <1>3, <1>4, <1>5, <1>6, <1>7, <1>8, <1>9 DEF Request

LEMMA MailProgress ==
  ASSUME TypeOK, LockDiscipline, Mail, NEW c \in Clients,
         Progress(c) \/ CloneSession(c)
  PROVE  Mail'
<1>1. c \in Actors
  BY DEF Actors
<1>2. CASE Submit(c)
  <2> DEFINE t == call[c].thread
  <2>1. pc[c] = "prepared" /\ alive' = alive
    BY <1>2 DEF Submit
  <2>2. CASE Return(c) /\ UNCHANGED queue
    BY <1>1, <2>1, <2>2, ReturnMoves, MailMove
  <2>3. CASE /\ t \in alive /\ UNCHANGED call
             /\ queue' = [queue EXCEPT ![t] =
                            Append(@, [from |-> c, what |-> "cmd"])]
             /\ pc' = [pc EXCEPT ![c] = "awaiting"]
    <3>1. t \in Threads
      BY <2>3 DEF TypeOK
    <3>2. pc'[c] = Stage("cmd") /\ \A a \in Actors \ {c} : pc'[a] = pc[a]
      BY <1>1, <2>3 DEF TypeOK, Stage
    <3>3. call'[c].thread = t
      BY <2>3
    <3>4. \A u \in Threads : Sound(queue'[u], u, pc', call')
      BY <1>1, <2>1, <2>3, <3>1, <3>2, <3>3, OneAsks
    <3>5. \A u \in Threads \ alive : queue'[u] = queue[u]
      BY <2>3 DEF TypeOK
    <3>6. QED
      BY <2>1, <3>4, <3>5 DEF Mail
  <2>4. QED
    BY <1>2, <2>2, <2>3 DEF Submit
<1>3. CASE Persist(c)
  <2> DEFINE t == live[call[c].id].thread
  <2>1. /\ pc[c] = "replied" /\ alive' = alive
        /\ call[c] \in Call
        /\ \A a \in Actors \ {c} : pc'[a] = pc[a] /\ call'[a] = call[a]
    BY <1>3, PersistMoves
  <2>2. CASE UNCHANGED <<queue, call>>
    BY <1>1, <2>1, <2>2, MailMove
  <2>3. CASE /\ pc'[c] = "capturing" /\ t \in Threads \cap alive
             /\ call'[c] = [call[c] EXCEPT !.thread = t]
             /\ queue' = [queue EXCEPT ![t] =
                            Append(@, [from |-> c, what |-> "read"])]
    <3> HIDE DEF t
    <3>1. pc'[c] = Stage("read") /\ call'[c].thread = t
      BY <2>1, <2>3 DEF Stage, Call
    <3>2. \A u \in Threads : Sound(queue'[u], u, pc', call')
      BY <1>1, <2>1, <2>3, <3>1, OneAsks
    <3>3. \A u \in Threads \ alive : queue'[u] = queue[u]
      BY <2>3 DEF TypeOK
    <3>4. QED
      BY <2>1, <3>2, <3>3 DEF Mail
  <2>4. QED
    BY <1>3, <2>2, <2>3, PersistMoves
<1>4. CASE Release(c)
  <2>1. pc[c] = "holding" /\ Return(c) /\ UNCHANGED <<queue, alive>>
    BY <1>4 DEF Release, memory
  <2>2. QED
    BY <1>1, <2>1, ReturnMoves, MailMove
<1>5. CASE CloneSession(c)
  <2>1. PICK id \in Ids, t \in Threads :
          Spawn(id, t, live[call[c].id], call[c].seen)
    BY <1>5 DEF CloneSession
  <2>2. queue' = HangUp({id}) /\ alive \subseteq alive'
    BY <2>1 DEF Spawn
  <2>3. pc[c] = "holding" /\ Return(c)
    BY <1>5 DEF CloneSession
  <2>4. \A a \in Actors \ {c} :
          pc'[a] = pc[a] /\ call'[a].thread = call[a].thread
    BY <1>1, <2>3, ReturnMoves
  <2>5. QED
    BY <1>1, <2>2, <2>3, <2>4, MailHangUpMove
<1>6. QED
  BY <1>2, <1>3, <1>4, <1>5 DEF Progress

\* A dead thread's channel is emptied; who waited on it waits no more.
LEMMA DiesMail ==
  ASSUME TypeOK, Mail, NEW t \in Threads, Dies(t)
  PROVE  Mail'
<1> DEFINE over(a) == Pending(a, t) /\ (pc[a] # "capturing" \/ a = Flusher)
<1>1. /\ alive' = alive \ {t}
      /\ queue' = [queue EXCEPT ![t] = <<>>]
      /\ pc'    = [a \in Actors |-> IF over(a) THEN "idle"
                                    ELSE IF Pending(a, t) THEN "holding"
                                    ELSE pc[a]]
      /\ call'  = [a \in Actors |-> IF over(a) THEN None ELSE call[a]]
  BY DEF Dies
<1>2. queue'[t] = <<>> /\ \A u \in Threads : u # t => queue'[u] = queue[u]
  BY <1>1 DEF TypeOK
<1>3. ASSUME NEW u \in Threads, u # t
      PROVE  Sound(queue'[u], u, pc', call')
  <2>1. queue'[u] = queue[u] /\ queue[u] \in Seq(Command)
    BY <1>2, <1>3 DEF TypeOK
  <2>2. ASSUME NEW i \in DOMAIN queue[u], queue[u][i].from # NoOne
        PROVE  /\ queue[u][i].from \in Actors
               /\ pc'[queue[u][i].from] = pc[queue[u][i].from]
               /\ call'[queue[u][i].from] = call[queue[u][i].from]
    <3> DEFINE a == queue[u][i].from
    <3>1. queue[u][i] \in Command
      BY <2>1, ElementOfSeq, LenProperties
    <3>2. a \in Actors
      BY <2>2, <3>1 DEF Command
    <3>3. call[a].thread = u
      BY <2>2 DEF Mail, Sound
    <3>4. ~Pending(a, t)
      BY <1>3, <2>2, <3>3 DEF Mail, Sound, Pending
    <3> HIDE DEF a
    <3>5. pc'[a] = pc[a] /\ call'[a] = call[a]
      BY <1>1, <3>2, <3>4 DEF TypeOK
    <3>6. QED
      BY <3>2, <3>5 DEF a
  <2>3. Sound(queue[u], u, pc, call)
    BY DEF Mail
  <2> DEFINE q == queue[u]
  <2> HIDE DEF q
  <2>4. \A i \in DOMAIN q : q[i].from # NoOne =>
          /\ pc'[q[i].from] = pc[q[i].from]
          /\ call'[q[i].from] = call[q[i].from]
    BY <2>2 DEF q
  <2>5. Sound(q, u, pc', call')
    BY <2>3, <2>4 DEF Sound, q
  <2>6. QED
    BY <2>1, <2>5 DEF q
<1>4. Sound(queue'[t], t, pc', call')
  <2>1. DOMAIN <<>> = {}
    OBVIOUS
  <2>2. QED
    BY <1>2, <2>1 DEF Sound
<1>5. \A u \in Threads \ alive' : queue'[u] = <<>>
  BY <1>1, <1>2 DEF Mail
<1>6. QED
  BY <1>3, <1>4, <1>5 DEF Mail

\* What the answer to a command or to a read does: its sender is the one the
\* handler is, its channel the one the call names, and it had no other.
LEMMA Answered ==
  ASSUME TypeOK, Mail, NEW t \in Threads, queue[t] # <<>>
  PROVE  /\ Head(queue[t]) \in Command
         /\ Head(queue[t]).from # NoOne =>
              /\ Head(queue[t]).from \in Actors
              /\ pc[Head(queue[t]).from] = Stage(Head(queue[t]).what)
              /\ call[Head(queue[t]).from].thread = t
<1>1. queue[t] \in Seq(Command) /\ Sound(queue[t], t, pc, call)
  BY DEF TypeOK, Mail
<1>2. Head(queue[t]) \in Command
  BY <1>1, HeadTailProperties
<1>3. Head(queue[t]).from # NoOne => Head(queue[t]).from \in Actors
  BY <1>2 DEF Command
<1>4. QED
  BY <1>1, <1>2, <1>3, SoundTail

LEMMA AnswerMail ==
  ASSUME TypeOK, Mail, NEW t \in Threads, queue[t] # <<>>,
         queue' = [queue EXCEPT ![t] = Tail(@)], alive' = alive,
         NEW c, c = Head(queue[t]).from,
         \A a \in Actors : a # c =>
           pc'[a] = pc[a] /\ call'[a].thread = call[a].thread,
         c = NoOne => UNCHANGED <<pc, call>>
  PROVE  Mail'
<1>1. /\ queue'[t] = Tail(queue[t])
      /\ \A u \in Threads : u # t => queue'[u] = queue[u]
  BY DEF TypeOK
<1>2. ASSUME NEW u \in Threads
      PROVE  /\ queue'[u] \in Seq(Command)
             /\ Sound(queue'[u], u, pc, call)
             /\ c # NoOne => c \in Actors /\ Silent(queue'[u], c)
  <2>1. queue[u] \in Seq(Command) /\ Sound(queue[u], u, pc, call)
    BY DEF TypeOK, Mail
  <2>2. CASE u = t
    BY <1>1, <2>1, <2>2, SoundTail, Answered, HeadTailProperties
  <2>3. CASE u # t
    <3>1. c # NoOne => c \in Actors /\ call[c].thread = t
      BY Answered
    <3>2. c # NoOne => Silent(queue[u], c)
      BY <2>1, <2>3, <3>1, NotWaitingIsSilent
    <3>3. QED
      BY <1>1, <2>1, <2>3, <3>1, <3>2
  <2>4. QED
    BY <2>2, <2>3
<1>3. \A u \in Threads : Sound(queue'[u], u, pc', call')
  <2>1. CASE c = NoOne
    BY <1>2, <2>1, NoneMoves
  <2>2. CASE c # NoOne
    <3>1. c \in Actors
      BY <2>2, Answered
    <3>2. QED
      BY <1>2, <2>2, <3>1, OneMoves
  <2>3. QED
    BY <2>1, <2>2
<1>4. \A u \in Threads \ alive' : queue'[u] = <<>>
  BY <1>1 DEF Mail
<1>5. QED
  BY <1>3, <1>4 DEF Mail

LEMMA MailThread ==
  ASSUME TypeOK, LockDiscipline, Mail, NEW t \in Threads, Thread(t)
  PROVE  Mail'
<1> DEFINE c == Head(queue[t]).from
<1>1. CASE RunCommand(t)
  <2>1. /\ queue[t] # <<>> /\ queue' = [queue EXCEPT ![t] = Tail(@)]
        /\ alive' = alive
    BY <1>1 DEF RunCommand
  <2>2. \/ c = NoOne /\ UNCHANGED <<pc, call>>
        \/ /\ c # NoOne /\ pc' = [pc EXCEPT ![c] = "replied"]
           /\ call' = [call EXCEPT ![c].seen = login[t]]
        \/ c # NoOne /\ Return(c)
    BY <1>1 DEF RunCommand
  <2>3. c # NoOne => c \in Actors
    BY <2>1, Answered
  <2> HIDE DEF c
  <2>4. /\ \A a \in Actors : a # c =>
             pc'[a] = pc[a] /\ call'[a].thread = call[a].thread
        /\ c = NoOne => UNCHANGED <<pc, call>>
    <3>1. CASE c = NoOne
      BY <2>2, <3>1
    <3>2. CASE c # NoOne /\ Return(c)
      BY <2>3, <3>2, ReturnMoves
    <3>3. CASE /\ c # NoOne /\ pc' = [pc EXCEPT ![c] = "replied"]
               /\ call' = [call EXCEPT ![c].seen = login[t]]
      <4>1. \A a \in Actors : a # c => pc'[a] = pc[a] /\ call'[a] = call[a]
        BY <2>3, <3>3 DEF TypeOK
      <4>2. QED
        BY <3>3, <4>1
    <3>4. QED
      BY <2>2, <3>1, <3>2, <3>3
  <2>5. QED
    BY <2>1, <2>4, AnswerMail DEF c
<1>2. CASE RunRead(t)
  <2>1. /\ queue[t] # <<>> /\ queue' = [queue EXCEPT ![t] = Tail(@)]
        /\ alive' = alive
    BY <1>2, Zenon DEF RunRead
  <2>2. \/ c = NoOne /\ UNCHANGED <<pc, call>>
        \/ /\ c # NoOne
           /\ pc' = [pc EXCEPT ![c] =
                       IF c = Flusher THEN "idle" ELSE "holding"]
           /\ call' = IF c = Flusher THEN [call EXCEPT ![c] = None] ELSE call
    BY <1>2 DEF RunRead
  <2>3. c # NoOne => c \in Actors
    BY <2>1, Answered
  <2> HIDE DEF c
  <2>4. /\ \A a \in Actors : a # c =>
             pc'[a] = pc[a] /\ call'[a].thread = call[a].thread
        /\ c = NoOne => UNCHANGED <<pc, call>>
    BY <2>2, <2>3 DEF TypeOK
  <2>5. QED
    BY <2>1, <2>4, AnswerMail DEF c
<1>3. CASE Dies(t)
  BY <1>3, DiesMail
<1>4. QED
  BY <1>1, <1>2, <1>3 DEF Thread, RunClose

LEMMA MailFlush ==
  ASSUME TypeOK, LockDiscipline, Mail, Flush
  PROVE  Mail'
<1>1. Flusher \in Actors
  BY DEF Actors
<1>2. CASE FlushStart
  BY <1>2, MailHangUp DEF FlushStart, EvictExpired
<1>3. ASSUME NEW id \in Ids, FlushNext(id)
      PROVE  Mail'
  <2> DEFINE t == live[id].thread
             r == [id |-> id, thread |-> t, renew |-> FALSE, locked |-> TRUE,
                   durable |-> FALSE, seen |-> 0]
  <2>1. pc[Flusher] = "idle" /\ alive' = alive
    BY <1>3 DEF FlushNext
  <2>2. CASE ~Listening(t)
    BY <1>3, <2>2, MailStill DEF FlushNext
  <2>3. CASE Listening(t)
    <3>1. /\ queue' = [queue EXCEPT ![t] =
                         Append(@, [from |-> Flusher, what |-> "read"])]
          /\ pc'   = [pc EXCEPT ![Flusher] = "capturing"]
          /\ call' = [call EXCEPT ![Flusher] = r]
      BY <1>3, <2>3 DEF FlushNext
    <3>2. t \in Threads /\ r.thread = t
      BY <2>3 DEF Listening, TypeOK
    <3> HIDE DEF r, t
    <3>3. /\ pc'[Flusher] = Stage("read") /\ call'[Flusher].thread = t
          /\ \A a \in Actors \ {Flusher} :
               pc'[a] = pc[a] /\ call'[a].thread = call[a].thread
      BY <1>1, <3>1, <3>2 DEF TypeOK, Stage
    <3>4. \A u \in Threads : Sound(queue'[u], u, pc', call')
      BY <1>1, <2>1, <3>1, <3>2, <3>3, OneAsks
    <3>5. \A u \in Threads \ alive : queue'[u] = queue[u]
      BY <2>3, <3>1, <3>2 DEF TypeOK, Listening
    <3>6. QED
      BY <2>1, <3>4, <3>5 DEF Mail
  <2>4. QED
    BY <2>2, <2>3
<1>4. CASE FlushTimeout
  <2>1. /\ queue' = Unheard(Flusher) /\ alive' = alive
        /\ pc'    = [pc EXCEPT ![Flusher] = "idle"]
        /\ call'  = [call EXCEPT ![Flusher] = None]
    BY <1>4 DEF FlushTimeout
  <2>2. \A a \in Actors \ {Flusher} :
          pc'[a] = pc[a] /\ call'[a].thread = call[a].thread
    BY <1>1, <2>1 DEF TypeOK
  <2>3. \A t \in Threads : /\ queue'[t] \in Seq(Command)
                           /\ Sound(queue'[t], t, pc, call)
                           /\ Silent(queue'[t], Flusher)
    BY <1>1, <2>1, UnheardSound, UnheardTyped
  <2>4. \A t \in Threads : Sound(queue'[t], t, pc', call')
    BY <1>1, <2>2, <2>3, OneMoves
  <2>5. QED
    BY <1>1, <2>1, <2>4, UnheardSound DEF Mail
<1>5. CASE FlushEnd
  BY <1>5, MailStill DEF FlushEnd, memory
<1>6. QED
  BY <1>2, <1>3, <1>4, <1>5 DEF Flush

LEMMA MailEnvironment ==
  ASSUME TypeOK, LockDiscipline, Mail, Environment
  PROVE  Mail'
<1>1. ASSUME NEW t \in Threads, PageWrites(t) \/ ThreadDies(t)
      PROVE  Mail'
  BY <1>1, MailStill, DiesMail DEF PageWrites, ThreadDies
<1>2. ASSUME NEW id \in Ids, IdleTick(id)
      PROVE  Mail'
  <2>1. UNCHANGED <<queue, alive, pc>>
    BY <1>2 DEF IdleTick
  <2>2. QED
    BY <1>2, <2>1, TickForgives, MailStill, ForgiveThreads
<1>3. ASSUME NEW id \in Ids, SnapshotAges(id)
      PROVE  Mail'
  <2>1. call' = Forgive(id) /\ UNCHANGED <<queue, alive, pc>>
    BY <1>3 DEF SnapshotAges, memory
  <2>2. QED
    BY <2>1, MailStill, ForgiveThreads
<1>4. ASSUME NEW c \in Clients, GiveUp(c)
      PROVE  Mail'
  <2>1. c \in Actors
    BY DEF Actors
  <2>2. queue' = Unheard(c) /\ alive' = alive /\ Return(c)
    BY <1>4 DEF GiveUp
  <2>3. \A a \in Actors \ {c} :
          pc'[a] = pc[a] /\ call'[a].thread = call[a].thread
    BY <2>1, <2>2, ReturnMoves
  <2>4. \A t \in Threads : /\ queue'[t] \in Seq(Command)
                           /\ Sound(queue'[t], t, pc, call)
                           /\ Silent(queue'[t], c)
    BY <2>1, <2>2, UnheardSound, UnheardTyped
  <2>5. \A t \in Threads : Sound(queue'[t], t, pc', call')
    BY <2>1, <2>3, <2>4, OneMoves
  <2>6. QED
    BY <2>1, <2>2, <2>5, UnheardSound DEF Mail
<1>5. CASE Stop
  <2>1. DOMAIN <<>> = {} /\ \A t \in Threads : queue'[t] = <<>>
    BY <1>5 DEF Stop
  <2>2. QED
    BY <2>1 DEF Mail, Sound
<1>6. ASSUME NEW mode \in RestoreModes, Boot(mode)
      PROVE  Mail'
  BY <1>6, MailStill DEF Boot
<1>7. QED
  BY <1>1, <1>2, <1>3, <1>4, <1>5, <1>6 DEF Environment

LEMMA MailStep == TypeOK /\ LockDiscipline /\ Mail /\ [Next]_vars => Mail'
<1>1. ASSUME TypeOK, Mail, UNCHANGED vars
      PROVE  Mail'
  BY <1>1, MailStill DEF vars, memory
<1>2. QED
  BY <1>1, MailRequest, MailProgress, MailThread, MailFlush,
     MailEnvironment DEF Next

LEMMA MailHolds == Spec => []Mail
<1>1. Init => Mail
  <2>1. DOMAIN <<>> = {}
    OBVIOUS
  <2>2. QED
    BY <2>1 DEF Init, Mail, Sound
<1>2. TypeOK /\ LockDiscipline /\ Mail /\ [Next]_vars => Mail'
  BY MailStep
<1>3. QED
  BY <1>1, <1>2, Typing, PTL DEF Spec

--------------------------------------------------------------------------
(* Nothing is from the future: the clock is not behind any login state.    *)

Clocked ==
  /\ \A t \in Threads : login[t] <= clock
  /\ \A id \in Ids : snap[id] # None => snap[id].login <= clock
  /\ \A a \in Actors : call[a] # None => call[a].seen <= clock

\* The three parts, for a step that does not move the clock.
LoginsDated == \A t \in Threads : login'[t] \in {login[t], 0}
                                  \/ login'[t] <= clock
SnapsDated == \A id \in Ids : snap'[id] # None =>
                \/ snap'[id].login <= clock
                \/ snap[id] # None /\ snap'[id].login = snap[id].login
CallsDated == \A a \in Actors : call'[a] # None =>
                \/ call'[a].seen <= clock
                \/ call[a] # None /\ call'[a].seen = call[a].seen

LEMMA ClockedChange ==
  ASSUME TypeOK, Clocked, clock' = clock, LoginsDated, SnapsDated, CallsDated
  PROVE  Clocked'
<1>1. clock \in Nat /\ 0 <= clock
  BY DEF TypeOK
<1>2. QED
  BY <1>1 DEF Clocked, LoginsDated, SnapsDated, CallsDated

LEMMA ClockedStill ==
  /\ UNCHANGED login => LoginsDated
  /\ UNCHANGED snap => SnapsDated
  /\ UNCHANGED call => CallsDated
  BY DEF LoginsDated, SnapsDated, CallsDated

\* Removing snapshots, starting a thread, entering, returning, forgiving.
LEMMA ClockedRemoval ==
  ASSUME \A id \in Ids : snap'[id] \in {snap[id], None}
  PROVE  SnapsDated
  BY DEF SnapsDated

LEMMA ClockedSpawn ==
  ASSUME TypeOK, NEW id, NEW t \in Threads, NEW kind, NEW n,
         Spawn(id, t, kind, n), n <= clock
  PROVE  LoginsDated
<1>1. login' = [login EXCEPT ![t] = n]
  BY DEF Spawn
<1>2. QED
  BY <1>1 DEF LoginsDated, TypeOK

LEMMA ClockedOneCall ==
  ASSUME TypeOK, NEW c \in Actors,
         \A a \in Actors \ {c} : call'[a] = call[a],
         \/ call'[c] = None
         \/ call'[c].seen <= clock
         \/ call[c] # None /\ call'[c].seen = call[c].seen
  PROVE  CallsDated
<1>1. ASSUME NEW a \in Actors, call'[a] # None
      PROVE  \/ call'[a].seen <= clock
             \/ call[a] # None /\ call'[a].seen = call[a].seen
  <2>1. CASE a = c
    BY <1>1, <2>1
  <2>2. CASE a # c
    BY <1>1, <2>2
  <2>3. QED
    BY <2>1, <2>2
<1>2. QED
  BY <1>1 DEF CallsDated

LEMMA ClockedForgive ==
  ASSUME TypeOK, NEW id \in Ids
  PROVE  \A a \in Actors :
           /\ Forgive(id)[a] = None <=> call[a] = None
           /\ call[a] # None => Forgive(id)[a].seen = call[a].seen
<1>1. ASSUME NEW a \in Actors, call[a] # None
      PROVE  [call[a] EXCEPT !.durable = FALSE].seen = call[a].seen
  <2>1. call[a] \in Call
    BY <1>1 DEF TypeOK
  <2>2. QED
    BY <2>1 DEF Call
<1>2. QED
  BY <1>1, ForgiveTyped DEF Forgive

LEMMA ClockedRequest ==
  ASSUME TypeOK, LockDiscipline, Clocked, Request
  PROVE  Clocked'
<1>1. Clients \subseteq Actors /\ clock \in Nat /\ 0 <= clock
  BY DEF Actors, TypeOK
<1>2. ASSUME NEW kind \in Kinds, CreateSession(kind)
      PROVE  Clocked'
  <2>1. PICK id \in Ids, t \in Threads : Spawn(id, t, kind, 0)
    BY <1>2 DEF CreateSession
  <2>2. UNCHANGED <<clock, snap, call>>
    BY <1>2 DEF CreateSession
  <2>3. QED
    BY <1>1, <2>1, <2>2, ClockedSpawn, ClockedStill, ClockedChange
<1>3. ASSUME NEW c \in Clients, NEW id, NEW t, NEW renew, NEW locked, NEW s,
             Enter(c, id, t, renew, locked, s)
      PROVE  CallsDated
  <2>1. /\ call'[c].seen = 0
        /\ \A a \in Actors \ {c} : call'[a] = call[a]
    BY <1>1, <1>3 DEF Enter, TypeOK
  <2>2. QED
    BY <1>1, <2>1, ClockedOneCall
<1>4. ASSUME NEW c \in Clients, NEW id \in Ids, NEW renew \in BOOLEAN,
             NEW locked \in BOOLEAN, BeginLive(c, id, renew, locked)
      PROVE  Clocked'
  BY <1>3, <1>4, ClockedStill, ClockedChange DEF BeginLive
<1>5. ASSUME NEW c \in Clients, NEW id \in Ids, NEW renew \in BOOLEAN,
             NEW locked \in BOOLEAN, BeginRevive(c, id, renew, locked)
      PROVE  Clocked'
  <2> DEFINE kind == [persistent |-> snap[id].persistent,
                      keepalive |-> snap[id].keepalive, account |-> FALSE]
  <2>1. PICK t \in Threads : /\ Spawn(id, t, kind, snap[id].login)
                             /\ Enter(c, id, t, renew, locked, kind)
    BY <1>5 DEF BeginRevive
  <2> HIDE DEF kind
  <2>2. UNCHANGED <<clock, snap>> /\ snap[id] # None
    BY <1>5 DEF BeginRevive, Usable
  <2>3. snap[id].login <= clock
    BY <2>2 DEF Clocked
  <2>4. LoginsDated
    BY <2>1, <2>3, ClockedSpawn
  <2>5. CallsDated
    BY <1>3, <2>1
  <2>6. QED
    BY <2>2, <2>4, <2>5, ClockedStill, ClockedChange
<1>6. ASSUME NEW S, snap' \in {snap, Without(snap, S)}
      PROVE  SnapsDated
  BY <1>6, ClockedRemoval DEF Without
<1>7. ASSUME NEW id \in Ids, NEW renew \in BOOLEAN, RefuseMissing(id, renew)
      PROVE  Clocked'
  BY <1>6, <1>7, ClockedStill, ClockedChange DEF RefuseMissing
<1>8. ASSUME NEW id \in Ids, RefuseExpired(id)
      PROVE  Clocked'
  BY <1>6, <1>8, ClockedStill, ClockedChange DEF RefuseExpired
<1>9. ASSUME NEW id \in Ids, CloseSession(id)
      PROVE  Clocked'
  <2>1. /\ snap' = Without(snap, {id}) /\ call' = Forgive(id)
        /\ UNCHANGED <<clock, login>>
    BY <1>9 DEF CloseSession
  <2>2. CallsDated
    BY <2>1, ClockedForgive DEF CallsDated
  <2>3. QED
    BY <1>6, <2>1, <2>2, ClockedStill, ClockedChange
<1>10. ASSUME NEW c \in Clients, NEW id \in Ids, CloseAndWait(c, id)
       PROVE  Clocked'
  <2> DEFINE r == [id |-> id, thread |-> live[id].thread, renew |-> FALSE,
                   locked |-> TRUE, durable |-> FALSE, seen |-> 0]
  <2>1. /\ snap' \in {snap, Without(snap, {id})}
        /\ call' \in {call, Forgive(id), [Forgive(id) EXCEPT ![c] = r]}
        /\ UNCHANGED <<clock, login>>
    BY <1>10 DEF CloseAndWait
  <2>2. r.seen = 0
    OBVIOUS
  <2> HIDE DEF r
  <2>3. ASSUME call' \in {call, Forgive(id)}
        PROVE  CallsDated
    BY <2>3, ClockedForgive DEF CallsDated
  <2>4. ASSUME call' = [Forgive(id) EXCEPT ![c] = r]
        PROVE  CallsDated
    <3>1. Forgive(id) \in [Actors -> Call \cup {None}]
      BY ForgiveTyped
    <3>2. /\ call'[c].seen = 0
          /\ \A a \in Actors \ {c} : call'[a] = Forgive(id)[a]
      BY <1>1, <2>2, <2>4, <3>1
    <3>3. QED
      BY <1>1, <3>2, ClockedForgive DEF CallsDated
  <2>5. CallsDated
    BY <2>1, <2>3, <2>4
  <2>6. QED
    BY <1>6, <2>1, <2>5, ClockedStill, ClockedChange
<1>11. ASSUME Evict
       PROVE  Clocked'
  BY <1>6, <1>11, ClockedStill, ClockedChange DEF Evict, EvictExpired
<1>12. QED
  BY <1>2, <1>4, <1>5, <1>7, <1>8, <1>9, <1>10, <1>11 DEF Request

LEMMA ClockedProgress ==
  ASSUME TypeOK, LockDiscipline, Clocked, NEW c \in Clients,
         Progress(c) \/ CloneSession(c)
  PROVE  Clocked'
<1>1. c \in Actors
  BY DEF Actors
<1>2. ASSUME Return(c)
      PROVE  CallsDated
  BY <1>1, <1>2, ReturnMoves, ClockedOneCall
<1>3. CASE Submit(c)
  BY <1>2, <1>3, ClockedStill, ClockedChange DEF Submit
<1>4. CASE Persist(c)
  <2>1. UNCHANGED <<clock, login, snap>>
    BY <1>4, Zenon DEF Persist
  <2>2. CallsDated
    <3>1. call'[c] = call[c] \/ call'[c] = [call[c] EXCEPT
                                 !.thread = live[call[c].id].thread]
      BY <1>4, PersistMoves
    <3>2. call[c] \in Call /\ \A a \in Actors \ {c} : call'[a] = call[a]
      BY <1>4, PersistMoves
    <3>3. call[c] # None /\ call'[c].seen = call[c].seen
      BY <3>1, <3>2 DEF Call
    <3>4. QED
      BY <1>1, <3>2, <3>3, ClockedOneCall
  <2>3. QED
    BY <2>1, <2>2, ClockedStill, ClockedChange
<1>5. CASE Release(c)
  BY <1>2, <1>5, ClockedStill, ClockedChange DEF Release, memory
<1>6. CASE CloneSession(c)
  <2>1. PICK id \in Ids, t \in Threads :
          Spawn(id, t, live[call[c].id], call[c].seen)
    BY <1>6 DEF CloneSession
  <2>2. UNCHANGED <<clock, snap>> /\ Return(c) /\ pc[c] = "holding"
    BY <1>6 DEF CloneSession
  <2>3. call[c].seen <= clock
    BY <1>1, <2>2 DEF Clocked, LockDiscipline
  <2>4. LoginsDated
    BY <2>1, <2>3, ClockedSpawn
  <2>5. QED
    BY <1>2, <2>2, <2>4, ClockedStill, ClockedChange
<1>7. QED
  BY <1>3, <1>4, <1>5, <1>6 DEF Progress

\* What a read does, apart from the failure that saves nothing.
LEMMA ReadMoves ==
  ASSUME NEW t \in Threads, RunRead(t)
  PROVE  LET c   == Head(queue[t]).from
             s   == live[call[c].id]
             new == [snap EXCEPT ![call[c].id] = SavedState(s, login[t])]
         IN
         /\ queue[t] # <<>> /\ Head(queue[t]).what = "read"
         /\ queue' = [queue EXCEPT ![t] = Tail(@)]
         /\ UNCHANGED <<phase, lock, live, dormant, alive, login, clock, todo,
                        ended, acked>>
         /\ \/ c = NoOne /\ UNCHANGED <<snap, pc, call>>
            \/ /\ c # NoOne /\ pc[c] = "capturing"
               /\ pc' = [pc EXCEPT ![c] = IF c = Flusher THEN "idle"
                                                       ELSE "holding"]
               /\ \/ c # Flusher /\ UNCHANGED call
                  \/ c = Flusher /\ call' = [call EXCEPT ![c] = None]
               /\ \/ UNCHANGED snap /\ (Faults \/ s.account)
                  \/ ~(s # None /\ s.account) /\ snap' = new
<1> DEFINE c   == Head(queue[t]).from
           s   == live[call[c].id]
           new == [snap EXCEPT ![call[c].id] = SavedState(s, login[t])]
<1>1. /\ queue[t] # <<>> /\ Head(queue[t]).what = "read"
      /\ queue' = [queue EXCEPT ![t] = Tail(@)]
      /\ UNCHANGED <<phase, lock, counter, live, dormant, alive, login, clock,
                     todo, ended, acked>>
  BY Zenon DEF RunRead
<1>2. \/ c = NoOne /\ UNCHANGED <<snap, pc, call>>
      \/ /\ c # NoOne /\ pc[c] = "capturing"
         /\ snap' \in (IF s # None /\ s.account THEN {snap} ELSE {new})
                      \cup (IF Faults THEN {snap} ELSE {})
         /\ pc'   = [pc EXCEPT ![c] =
                       IF c = Flusher THEN "idle" ELSE "holding"]
         /\ call' = IF c = Flusher THEN [call EXCEPT ![c] = None] ELSE call
  BY Zenon DEF RunRead
<1> HIDE DEF c, s, new
<1>3. CASE c = NoOne /\ UNCHANGED <<snap, pc, call>>
  BY <1>1, <1>3, Zenon DEF c
<1>4. CASE /\ c # NoOne /\ pc[c] = "capturing"
           /\ snap' \in (IF s # None /\ s.account THEN {snap} ELSE {new})
                        \cup (IF Faults THEN {snap} ELSE {})
           /\ pc'   = [pc EXCEPT ![c] =
                         IF c = Flusher THEN "idle" ELSE "holding"]
           /\ call' = IF c = Flusher THEN [call EXCEPT ![c] = None] ELSE call
  <2>1. \/ c # Flusher /\ UNCHANGED call
        \/ c = Flusher /\ call' = [call EXCEPT ![c] = None]
    BY <1>4
  <2>2. \/ UNCHANGED snap /\ (Faults \/ s.account)
        \/ ~(s # None /\ s.account) /\ snap' = new
    BY <1>4, Zenon
  <2>3. QED
    BY <1>1, <1>4, <2>1, <2>2, Zenon DEF c, s, new
<1>5. QED
  BY <1>2, <1>3, <1>4, Zenon

LEMMA ClockedThread ==
  ASSUME TypeOK, LockDiscipline, Mail, Clocked, NEW t \in Threads, Thread(t)
  PROVE  Clocked'
<1> DEFINE c == Head(queue[t]).from
<1>1. login[t] <= clock
  BY DEF Clocked
<1>2. CASE RunCommand(t)
  <2>1. queue[t] # <<>> /\ UNCHANGED <<clock, login, snap>>
    BY <1>2, Zenon DEF RunCommand
  <2>2. \/ UNCHANGED call
        \/ c # NoOne /\ call' = [call EXCEPT ![c].seen = login[t]]
        \/ c # NoOne /\ Return(c)
    BY <1>2, Zenon DEF RunCommand
  <2>3. c # NoOne => c \in Actors /\ call[c] # None
    BY <2>1, Answered DEF LockDiscipline, Stage
  <2> HIDE DEF c
  <2>4. CASE UNCHANGED call
    BY <2>1, <2>4, ClockedStill, ClockedChange
  <2>5. CASE c # NoOne /\ Return(c)
    <3>1. CallsDated
      BY <2>3, <2>5, ReturnMoves, ClockedOneCall
    <3>2. QED
      BY <2>1, <3>1, ClockedStill, ClockedChange
  <2>6. CASE c # NoOne /\ call' = [call EXCEPT ![c].seen = login[t]]
    <3>1. call[c] \in Call
      BY <2>3, <2>6 DEF TypeOK
    <3>2. call'[c].seen = login[t]
      BY <2>3, <2>6, <3>1 DEF TypeOK, Call
    <3>3. \A a \in Actors \ {c} : call'[a] = call[a]
      BY <2>3, <2>6 DEF TypeOK
    <3>4. CallsDated
      BY <1>1, <2>3, <2>6, <3>2, <3>3, ClockedOneCall
    <3>5. QED
      BY <2>1, <3>4, ClockedStill, ClockedChange
  <2>7. QED
    BY <2>2, <2>4, <2>5, <2>6
<1>3. CASE RunRead(t)
  <2>1. queue[t] # <<>> /\ UNCHANGED <<clock, login>>
    BY <1>3, ReadMoves
  <2>2. \/ UNCHANGED call
        \/ c # NoOne /\ call' = [call EXCEPT ![c] = None]
    BY <1>3, ReadMoves
  <2>3. \/ UNCHANGED snap
        \/ /\ c # NoOne
           /\ snap' = [snap EXCEPT ![call[c].id] =
                         SavedState(live[call[c].id], login[t])]
    BY <1>3, ReadMoves
  <2>9. c # NoOne => c \in Actors /\ call[c] # None
    BY <2>1, Answered DEF LockDiscipline, Stage
  <2>4. c # NoOne => c \in Actors /\ call[c] \in Call
    BY <2>9 DEF TypeOK
  <2> HIDE DEF c
  <2>5. CallsDated
    BY <2>2, <2>4, ClockedStill, ClockedOneCall DEF TypeOK
  <2>6. SnapsDated
    <3>1. CASE UNCHANGED snap
      BY <3>1, ClockedStill
    <3>2. CASE /\ c # NoOne
               /\ snap' = [snap EXCEPT ![call[c].id] =
                             SavedState(live[call[c].id], login[t])]
      <4>1. PICK id \in Ids : id = call[c].id
        BY <2>4, <3>2 DEF Call
      <4>2. /\ snap'[id] = SavedState(live[id], login[t])
            /\ \A i \in Ids : i # id => snap'[i] = snap[i]
        BY <3>2, <4>1 DEF TypeOK
      <4>3. snap'[id].login = login[t]
        BY <4>2 DEF SavedState
      <4>4. QED
        BY <1>1, <4>2, <4>3 DEF SnapsDated
    <3>3. QED
      BY <2>3, <3>1, <3>2
  <2>7. QED
    BY <2>1, <2>5, <2>6, ClockedStill, ClockedChange
<1>4. CASE Dies(t)
  <2>1. LoginsDated
    BY <1>4 DEF Dies, LoginsDated, TypeOK
  <2>2. CallsDated
    BY <1>4 DEF Dies, CallsDated, TypeOK
  <2>3. UNCHANGED <<clock, snap>>
    BY <1>4 DEF Dies
  <2>4. QED
    BY <2>1, <2>2, <2>3, ClockedStill, ClockedChange
<1>5. QED
  BY <1>2, <1>3, <1>4 DEF Thread, RunClose

LEMMA ClockedFlush ==
  ASSUME TypeOK, LockDiscipline, Clocked, Flush
  PROVE  Clocked'
<1>1. Flusher \in Actors /\ clock \in Nat /\ 0 <= clock
  BY DEF Actors, TypeOK
<1>2. CASE FlushStart
  <2>1. UNCHANGED <<clock, login, call>>
    BY <1>2 DEF FlushStart
  <2>2. SnapsDated
    BY <1>2, ClockedRemoval DEF FlushStart, EvictExpired, Without
  <2>3. QED
    BY <2>1, <2>2, ClockedStill, ClockedChange
<1>3. ASSUME NEW id \in Ids, FlushNext(id)
      PROVE  Clocked'
  <2> DEFINE r == [id |-> id, thread |-> live[id].thread, renew |-> FALSE,
                   locked |-> TRUE, durable |-> FALSE, seen |-> 0]
  <2>1. /\ UNCHANGED <<clock, login, snap>>
        /\ UNCHANGED call \/ call' = [call EXCEPT ![Flusher] = r]
    BY <1>3 DEF FlushNext
  <2>2. r.seen = 0
    OBVIOUS
  <2> HIDE DEF r
  <2>3. CallsDated
    BY <1>1, <2>1, <2>2, ClockedStill, ClockedOneCall DEF TypeOK
  <2>4. QED
    BY <2>1, <2>3, ClockedStill, ClockedChange
<1>4. CASE FlushTimeout
  <2>1. /\ UNCHANGED <<clock, login, snap>>
        /\ call' = [call EXCEPT ![Flusher] = None]
    BY <1>4 DEF FlushTimeout
  <2>2. CallsDated
    BY <1>1, <2>1, ClockedOneCall DEF TypeOK
  <2>3. QED
    BY <2>1, <2>2, ClockedStill, ClockedChange
<1>5. CASE FlushEnd
  BY <1>5, ClockedStill, ClockedChange DEF FlushEnd, memory
<1>6. QED
  BY <1>2, <1>3, <1>4, <1>5 DEF Flush

LEMMA ClockedEnvironment ==
  ASSUME TypeOK, LockDiscipline, Mail, Clocked, Environment
  PROVE  Clocked'
<1>1. clock \in Nat /\ 0 <= clock
  BY DEF TypeOK
<1>2. ASSUME NEW t \in Threads, PageWrites(t)
      PROVE  Clocked'
  <2>1. /\ clock' = clock + 1 /\ login' = [login EXCEPT ![t] = clock + 1]
        /\ UNCHANGED <<snap, call>>
    BY <1>2 DEF PageWrites
  <2>2. \A u \in Threads : login[u] \in Nat /\ login'[u] \in {login[u], clock'}
    BY <2>1 DEF TypeOK
  <2>3. \A id \in Ids : snap[id] # None => snap[id].login \in Nat
    BY DEF TypeOK, Snapshot
  <2>4. \A a \in Actors : call[a] # None => call[a].seen \in Nat
    BY DEF TypeOK, Call
  <2>5. QED
    BY <1>1, <2>1, <2>2, <2>3, <2>4 DEF Clocked
<1>3. ASSUME NEW t \in Threads, ThreadDies(t)
      PROVE  Clocked'
  <2>1. LoginsDated
    BY <1>3 DEF ThreadDies, Dies, LoginsDated, TypeOK
  <2>2. CallsDated
    BY <1>3 DEF ThreadDies, Dies, CallsDated, TypeOK
  <2>3. UNCHANGED <<clock, snap>>
    BY <1>3 DEF ThreadDies, Dies
  <2>4. QED
    BY <2>1, <2>2, <2>3, ClockedStill, ClockedChange
<1>4. ASSUME NEW id \in Ids, IdleTick(id)
      PROVE  Clocked'
  <2>1. UNCHANGED <<clock, login, snap>>
    BY <1>4 DEF IdleTick
  <2>2. CallsDated
    BY <1>4, TickForgives, ClockedForgive DEF CallsDated
  <2>3. QED
    BY <2>1, <2>2, ClockedStill, ClockedChange
<1>5. ASSUME NEW id \in Ids, SnapshotAges(id)
      PROVE  Clocked'
  <2>1. /\ snap[id] # None /\ snap' = [snap EXCEPT ![id].stale = TRUE]
        /\ call' = Forgive(id) /\ UNCHANGED <<clock, login>>
    BY <1>5 DEF SnapshotAges, Usable, memory
  <2>2. snap[id] \in Snapshot
    BY <2>1 DEF TypeOK
  <2>3. SnapsDated
    BY <2>1, <2>2 DEF SnapsDated, TypeOK, Snapshot
  <2>4. CallsDated
    BY <2>1, ClockedForgive DEF CallsDated
  <2>5. QED
    BY <2>1, <2>3, <2>4, ClockedStill, ClockedChange
<1>6. ASSUME NEW c \in Clients, GiveUp(c)
      PROVE  Clocked'
  <2>1. c \in Actors /\ Return(c) /\ UNCHANGED <<clock, login, snap>>
    BY <1>6 DEF GiveUp, Actors
  <2>2. CallsDated
    BY <2>1, ReturnMoves, ClockedOneCall
  <2>3. QED
    BY <2>1, <2>2, ClockedStill, ClockedChange
<1>7. CASE Stop
  <2>1. LoginsDated /\ CallsDated /\ UNCHANGED <<clock, snap>>
    BY <1>7 DEF Stop, LoginsDated, CallsDated
  <2>2. QED
    BY <2>1, ClockedStill, ClockedChange
<1>8. ASSUME NEW mode \in RestoreModes, Boot(mode)
      PROVE  Clocked'
  <2>1. SnapsDated
    BY <1>8, ClockedRemoval DEF Boot, Without
  <2>2. QED
    BY <1>8, <2>1, ClockedStill, ClockedChange DEF Boot
<1>9. QED
  BY <1>2, <1>3, <1>4, <1>5, <1>6, <1>7, <1>8 DEF Environment

LEMMA ClockedHolds == Spec => []Clocked
<1>1. Init => Clocked
  BY DEF Init, Clocked
<1>2. ASSUME TypeOK, Clocked, UNCHANGED vars
      PROVE  Clocked'
  BY <1>2, ClockedStill, ClockedChange DEF vars, memory
<1>3. TypeOK /\ LockDiscipline /\ Mail /\ Clocked /\ [Next]_vars => Clocked'
  BY <1>2, ClockedRequest, ClockedProgress, ClockedThread, ClockedFlush,
     ClockedEnvironment DEF Next
<1>4. QED
  BY <1>1, <1>3, Typing, MailHolds, PTL DEF Spec

--------------------------------------------------------------------------
(* The thread that is asked.  A capture reads the thread that serves its   *)
(* session at that moment, and it still serves it when the answer comes:   *)
(* whoever moves a session to another thread needs the mutex.              *)

Held ==
  \A a \in Actors : pc[a] = "capturing" =>
    call[a].thread = live[call[a].id].thread

\* A capture goes on, on the same thread of the same session, or starts.
Goes(a) ==
  /\ pc[a] = "capturing"
  /\ call'[a].id = call[a].id /\ call'[a].thread = call[a].thread
  /\ live'[call[a].id].thread = live[call[a].id].thread
Asks(a, id) ==
  /\ call'[a].id = id /\ call'[a].thread = live[id].thread
  /\ live' = live

LEMMA HeldChange ==
  ASSUME Held,
         \A a \in Actors : pc'[a] = "capturing" =>
           Goes(a) \/ \E id \in Ids : Asks(a, id)
  PROVE  Held'
<1>1. ASSUME NEW a \in Actors, pc'[a] = "capturing"
      PROVE  call'[a].thread = live'[call'[a].id].thread
  <2>1. CASE Goes(a)
    BY <2>1 DEF Goes, Held
  <2>2. CASE \E id \in Ids : Asks(a, id)
    BY <2>2 DEF Asks
  <2>3. QED
    BY <1>1, <2>1, <2>2
<1>2. QED
  BY <1>1 DEF Held

\* Nobody captures before the step, and nobody starts to.
LEMMA HeldIdle ==
  ASSUME Held, \A a \in Actors : pc[a] # "capturing",
         \A a \in Actors : \/ pc'[a] = pc[a]
                           \/ pc'[a] \in {"idle", "prepared", "closing"}
  PROVE  Held'
<1>1. \A a \in Actors : pc'[a] # "capturing"
  OBVIOUS
<1>2. QED
  BY <1>1, HeldChange

\* Sessions stay where they are and nobody starts to capture.
LEMMA HeldStill ==
  ASSUME Held, live' = live,
         \A a \in Actors : pc'[a] = "capturing" =>
           /\ pc[a] = "capturing" /\ call'[a].id = call[a].id
           /\ call'[a].thread = call[a].thread
  PROVE  Held'
<1>1. \A a \in Actors : pc'[a] = "capturing" => Goes(a)
  BY DEF Goes
<1>2. QED
  BY <1>1, HeldChange

LEMMA HeldRequest ==
  ASSUME TypeOK, LockDiscipline, Held, Request
  PROVE  Held'
<1>1. Clients \subseteq Actors
  BY DEF Actors
<1>2. ASSUME CanLock, \A a \in Actors : \/ pc'[a] = pc[a]
                                        \/ pc'[a] \in {"prepared", "closing"}
      PROVE  Held'
  BY <1>2, FreeLockIsQuiet, HeldIdle
<1>3. ASSUME NEW kind \in Kinds, CreateSession(kind)
      PROVE  Held'
  BY <1>2, <1>3 DEF CreateSession
<1>4. ASSUME NEW c \in Clients, NEW id \in Ids, NEW renew \in BOOLEAN,
             NEW locked \in BOOLEAN,
             BeginLive(c, id, renew, locked) \/ BeginRevive(c, id, renew, locked)
      PROVE  Held'
  <2>1. CanLock /\ pc' = [pc EXCEPT ![c] = "prepared"]
    BY <1>4 DEF BeginLive, BeginRevive, Enter
  <2>2. QED
    BY <1>2, <2>1 DEF TypeOK
<1>5. ASSUME NEW id \in Ids, NEW renew \in BOOLEAN, RefuseMissing(id, renew)
      PROVE  Held'
  BY <1>2, <1>5 DEF RefuseMissing
<1>6. ASSUME NEW id \in Ids, RefuseExpired(id) \/ CloseSession(id)
      PROVE  Held'
  BY <1>2, <1>6 DEF RefuseExpired, CloseSession
<1>7. ASSUME NEW c \in Clients, NEW id \in Ids, CloseAndWait(c, id)
      PROVE  Held'
  <2>1. CanLock /\ pc' \in {pc, [pc EXCEPT ![c] = "closing"]}
    BY <1>7 DEF CloseAndWait
  <2>2. QED
    BY <1>2, <2>1 DEF TypeOK
<1>8. ASSUME Evict
      PROVE  Held'
  BY <1>2, <1>8 DEF Evict
<1>9. QED
  BY <1>3, <1>4, <1>5, <1>6, <1>7, <1>8 DEF Request

LEMMA HeldProgress ==
  ASSUME TypeOK, LockDiscipline, Held, NEW c \in Clients,
         Progress(c) \/ CloneSession(c)
  PROVE  Held'
<1>1. c \in Actors
  BY DEF Actors
<1>2. CASE Submit(c)
  <2>1. live' = live
    BY <1>2 DEF Submit
  <2>2. \/ Return(c)
        \/ pc' = [pc EXCEPT ![c] = "awaiting"] /\ UNCHANGED call
    BY <1>2 DEF Submit
  <2>3. \A a \in Actors : pc'[a] = "capturing" =>
          pc[a] = "capturing" /\ call'[a] = call[a]
    BY <1>1, <2>2, ReturnMoves DEF TypeOK
  <2>4. QED
    BY <2>1, <2>3, HeldStill
<1>3. CASE Persist(c)
  <2>1. live' = live
    BY <1>3, Zenon DEF Persist
  <2>2. /\ call[c] \in Call
        /\ \A a \in Actors \ {c} : pc'[a] = pc[a] /\ call'[a] = call[a]
        /\ pc'[c] = "capturing" =>
             call'[c] = [call[c] EXCEPT !.thread = live[call[c].id].thread]
    BY <1>3, PersistMoves
  <2>3. pc'[c] = "capturing" => Asks(c, call[c].id) /\ call[c].id \in Ids
    BY <2>1, <2>2 DEF Asks, Call
  <2>4. \A a \in Actors \ {c} : pc'[a] = "capturing" => Goes(a)
    BY <2>1, <2>2 DEF Goes
  <2>5. QED
    BY <2>3, <2>4, HeldChange
<1>4. CASE Release(c)
  <2>1. Return(c) /\ live' = live
    BY <1>4 DEF Release, memory
  <2>2. QED
    BY <1>1, <2>1, ReturnMoves, HeldStill
<1>5. CASE CloneSession(c)
  <2>1. PICK id \in Ids, t \in Threads :
          NextId(id) /\ Spawn(id, t, live[call[c].id], call[c].seen)
    BY <1>5 DEF CloneSession
  <2>2. \A i \in Ids : i # id => live'[i] = live[i]
    BY <2>1 DEF Spawn, TypeOK
  <2>3. pc'[c] = "idle" /\ \A a \in Actors \ {c} :
                             pc'[a] = pc[a] /\ call'[a] = call[a]
    BY <1>1, <1>5, ReturnMoves DEF CloneSession
  <2>4. ASSUME NEW a \in Actors, pc'[a] = "capturing"
        PROVE  Goes(a)
    <3>1. /\ pc[a] = "capturing" /\ call'[a] = call[a]
          /\ call[a] \in Call /\ live[call[a].id] # None
      BY <2>3, <2>4 DEF LockDiscipline, TypeOK
    <3>2. call[a].id \in Ids /\ call[a].id # id
      BY <2>1, <3>1 DEF Call, NextId, Fresh
    <3>3. QED
      BY <2>2, <3>1, <3>2 DEF Goes
  <2>5. QED
    BY <2>4, HeldChange
<1>6. QED
  BY <1>2, <1>3, <1>4, <1>5 DEF Progress

LEMMA HeldThread ==
  ASSUME TypeOK, LockDiscipline, Mail, Held, NEW t \in Threads, Thread(t)
  PROVE  Held'
<1> DEFINE c == Head(queue[t]).from
<1>1. CASE RunCommand(t)
  <2>1. queue[t] # <<>> /\ live' = live
    BY <1>1, Zenon DEF RunCommand
  <2>2. \/ UNCHANGED <<pc, call>>
        \/ /\ c # NoOne /\ pc' = [pc EXCEPT ![c] = "replied"]
           /\ call' = [call EXCEPT ![c].seen = login[t]]
        \/ c # NoOne /\ Return(c)
    BY <1>1, Zenon DEF RunCommand
  <2>3. c # NoOne => c \in Actors
    BY <2>1, Answered
  <2> HIDE DEF c
  <2>4. CASE UNCHANGED <<pc, call>>
    BY <2>1, <2>4, HeldStill
  <2>5. CASE c # NoOne /\ Return(c)
    BY <2>1, <2>3, <2>5, ReturnMoves, HeldStill
  <2>6. CASE /\ c # NoOne /\ pc' = [pc EXCEPT ![c] = "replied"]
             /\ call' = [call EXCEPT ![c].seen = login[t]]
    <3>1. /\ pc'[c] = "replied"
          /\ \A a \in Actors : a # c => pc'[a] = pc[a] /\ call'[a] = call[a]
      BY <2>3, <2>6 DEF TypeOK
    <3>2. QED
      BY <2>1, <3>1, HeldStill
  <2>7. QED
    BY <2>2, <2>4, <2>5, <2>6
<1>2. CASE RunRead(t)
  <2>1. queue[t] # <<>> /\ live' = live
    BY <1>2, ReadMoves
  <2>2. \/ UNCHANGED <<pc, call>>
        \/ /\ c # NoOne
           /\ pc' = [pc EXCEPT ![c] = IF c = Flusher THEN "idle"
                                                     ELSE "holding"]
           /\ call' \in {call, [call EXCEPT ![c] = None]}
    BY <1>2, ReadMoves
  <2>3. c # NoOne => c \in Actors
    BY <2>1, Answered
  <2> HIDE DEF c
  <2>4. \A a \in Actors : pc'[a] = "capturing" =>
          pc[a] = "capturing" /\ call'[a] = call[a]
    BY <2>2, <2>3 DEF TypeOK
  <2>5. QED
    BY <2>1, <2>4, HeldStill
<1>3. ASSUME Dies(t)
      PROVE  Held'
  <2>1. live' = live
    BY <1>3 DEF Dies
  <2>2. \A a \in Actors : pc'[a] = "capturing" =>
          pc[a] = "capturing" /\ call'[a] = call[a]
    BY <1>3, DiesTyped
  <2>3. QED
    BY <2>1, <2>2, HeldStill
<1>4. QED
  BY <1>1, <1>2, <1>3 DEF Thread, RunClose

LEMMA HeldFlush ==
  ASSUME TypeOK, LockDiscipline, Held, Flush
  PROVE  Held'
<1>1. Flusher \in Actors /\ NoOne \notin Actors
  BY DEF Actors
<1>2. CASE FlushStart
  <2>1. lock = NoOne /\ UNCHANGED <<pc, call>>
    BY <1>2 DEF FlushStart
  <2>2. QED
    BY <1>1, <2>1, HeldIdle DEF LockDiscipline
<1>3. ASSUME NEW id \in Ids, FlushNext(id)
      PROVE  Held'
  <2> DEFINE r == [id |-> id, thread |-> live[id].thread, renew |-> FALSE,
                   locked |-> TRUE, durable |-> FALSE, seen |-> 0]
  <2>1. /\ live' = live
        /\ \/ UNCHANGED <<pc, call>>
           \/ /\ pc' = [pc EXCEPT ![Flusher] = "capturing"]
              /\ call' = [call EXCEPT ![Flusher] = r]
    BY <1>3 DEF FlushNext
  <2>2. r.id = id /\ r.thread = live[id].thread
    OBVIOUS
  <2> HIDE DEF r
  <2>3. CASE UNCHANGED <<pc, call>>
    BY <2>1, <2>3, HeldStill
  <2>4. CASE /\ pc' = [pc EXCEPT ![Flusher] = "capturing"]
             /\ call' = [call EXCEPT ![Flusher] = r]
    <3>1. Asks(Flusher, id)
      BY <1>1, <2>1, <2>2, <2>4 DEF Asks, TypeOK
    <3>2. \A a \in Actors \ {Flusher} : pc'[a] = "capturing" => Goes(a)
      BY <2>1, <2>4 DEF Goes, TypeOK
    <3>3. QED
      BY <3>1, <3>2, HeldChange
  <2>5. QED
    BY <2>1, <2>3, <2>4
<1>4. CASE FlushTimeout
  <2>1. /\ live' = live /\ pc' = [pc EXCEPT ![Flusher] = "idle"]
        /\ call' = [call EXCEPT ![Flusher] = None]
    BY <1>4 DEF FlushTimeout
  <2>2. \A a \in Actors : pc'[a] = "capturing" =>
          pc[a] = "capturing" /\ call'[a] = call[a]
    BY <1>1, <2>1 DEF TypeOK
  <2>3. QED
    BY <2>1, <2>2, HeldStill
<1>5. CASE FlushEnd
  BY <1>5, HeldStill DEF FlushEnd, memory
<1>6. QED
  BY <1>2, <1>3, <1>4, <1>5 DEF Flush

LEMMA HeldEnvironment ==
  ASSUME TypeOK, LockDiscipline, Mail, Held, Environment
  PROVE  Held'
<1>1. ASSUME NEW t \in Threads, PageWrites(t)
      PROVE  Held'
  BY <1>1, HeldStill DEF PageWrites
<1>2. ASSUME NEW t \in Threads, ThreadDies(t)
      PROVE  Held'
  <2>1. live' = live
    BY <1>2 DEF ThreadDies, Dies
  <2>2. \A a \in Actors : pc'[a] = "capturing" =>
          pc[a] = "capturing" /\ call'[a] = call[a]
    BY <1>2, DiesTyped DEF ThreadDies
  <2>3. QED
    BY <2>1, <2>2, HeldStill
<1>3. ASSUME NEW id \in Ids, IdleTick(id)
      PROVE  Held'
  <2>1. UNCHANGED pc /\ call' \in {call, Forgive(id)}
    BY <1>3, TickForgives
  <2>2. \A i \in Ids : live'[i].thread = live[i].thread
    <3>1. CASE live' = live
      BY <3>1
    <3>2. CASE live[id] # None /\ live' = [live EXCEPT ![id].idle = @ + 1]
      <4>1. live[id] \in Session
        BY <3>2 DEF TypeOK
      <4>2. QED
        BY <3>2, <4>1 DEF TypeOK, Session
    <3>3. QED
      BY <1>3, <3>1, <3>2 DEF IdleTick
  <2>3. ASSUME NEW a \in Actors, pc'[a] = "capturing"
        PROVE  Goes(a)
    <3>1. pc[a] = "capturing" /\ call[a] \in Call
      BY <2>1, <2>3 DEF LockDiscipline, TypeOK
    <3>2. call[a].id \in Ids /\ call[a] # None
      BY <2>1, <2>3, <3>1 DEF LockDiscipline, Call
    <3>3. call'[a].id = call[a].id /\ call'[a].thread = call[a].thread
      BY <2>1, <3>2, ForgiveTyped, ForgiveThreads
    <3>4. QED
      BY <2>2, <3>1, <3>2, <3>3 DEF Goes
  <2>4. QED
    BY <2>3, HeldChange
<1>4. ASSUME NEW id \in Ids, SnapshotAges(id)
      PROVE  Held'
  <2>1. call' = Forgive(id) /\ UNCHANGED <<pc, live>>
    BY <1>4 DEF SnapshotAges, memory
  <2>2. ASSUME NEW a \in Actors, pc'[a] = "capturing"
        PROVE  /\ pc[a] = "capturing" /\ call'[a].id = call[a].id
               /\ call'[a].thread = call[a].thread
    <3>1. pc[a] = "capturing" /\ call[a] # None
      BY <2>1, <2>2 DEF LockDiscipline
    <3>2. QED
      BY <2>1, <3>1, ForgiveTyped, ForgiveThreads
  <2>3. QED
    BY <2>1, <2>2, HeldStill
<1>5. ASSUME NEW c \in Clients, GiveUp(c)
      PROVE  Held'
  <2>1. c \in Actors /\ Return(c) /\ live' = live
    BY <1>5 DEF GiveUp, Actors
  <2>2. QED
    BY <2>1, ReturnMoves, HeldStill
<1>6. CASE Stop
  BY <1>6 DEF Stop, Held
<1>7. ASSUME NEW mode \in RestoreModes, Boot(mode)
      PROVE  Held'
  BY <1>7, HeldStill DEF Boot
<1>8. QED
  BY <1>1, <1>2, <1>3, <1>4, <1>5, <1>6, <1>7 DEF Environment

LEMMA HeldHolds == Spec => []Held
<1>1. Init => Held
  BY DEF Init, Held
<1>2. ASSUME Held, UNCHANGED vars
      PROVE  Held'
  BY <1>2 DEF vars, memory, Held
<1>3. TypeOK /\ LockDiscipline /\ Mail /\ Held /\ [Next]_vars => Held'
  BY <1>2, HeldRequest, HeldProgress, HeldThread, HeldFlush,
     HeldEnvironment DEF Next
<1>4. QED
  BY <1>1, <1>3, Typing, MailHolds, PTL DEF Spec

--------------------------------------------------------------------------
(* The page is ahead of the disk.  While its thread runs, a session's page *)
(* holds a login state at least as new as the snapshot of its id, so the   *)
(* capture that answers for it never takes the disk back.                  *)

\* No two sessions on one thread.
Own ==
  \A i, j \in Ids : live[i] # None /\ live[j] # None
                    /\ live[i].thread = live[j].thread => i = j

\* What Ahead says of one id.
Leads(id) ==
  live[id] # None /\ snap[id] # None /\ live[id].thread \in alive =>
    snap[id].login <= login[live[id].thread]
Ahead == \A id \in Ids : Leads(id)

\* A step takes one of three courses.  It starts no thread and saves nothing:
Steady ==
  /\ \A id \in Ids : live'[id] # None =>
       live[id] # None /\ live'[id].thread = live[id].thread
  /\ alive' \subseteq alive
  /\ \A t \in alive' : login[t] <= login'[t]
  /\ \A id \in Ids : snap'[id] # None =>
       snap[id] # None /\ snap'[id].login = snap[id].login

\* it starts one on an unused slot, its page no older than the snapshot:
Spawned(id, t) ==
  /\ \A i \in Ids : live[i] # None => live[i].thread # t
  /\ live'[id] # None /\ live'[id].thread = t
  /\ \A i \in Ids : i # id => live'[i] = live[i]
  /\ alive' = alive \cup {t}
  /\ \A u \in Threads : u # t => login'[u] = login[u]
  /\ snap' = snap
  /\ snap[id] # None => snap[id].login <= login'[t]

\* or it saves what the running thread of a session answered.
Saved(id) ==
  /\ live[id] # None /\ live[id].thread \in alive
  /\ UNCHANGED <<live, alive, login>>
  /\ snap'[id] # None /\ snap'[id].login = login[live[id].thread]
  /\ \A i \in Ids : i # id => snap'[i] = snap[i]

Course ==
  \/ Steady
  \/ \E id \in Ids, t \in Threads : Spawned(id, t)
  \/ \E id \in Ids : Saved(id)

LEMMA OwnStep ==
  ASSUME TypeOK, Own, Course
  PROVE  Own'
<1>1. CASE Steady
  BY <1>1 DEF Steady, Own
<1>2. ASSUME NEW id \in Ids, NEW t \in Threads, Spawned(id, t)
      PROVE  Own'
  BY <1>2 DEF Spawned, Own
<1>3. ASSUME NEW id \in Ids, Saved(id)
      PROVE  Own'
  BY <1>3 DEF Saved, Own
<1>4. QED
  BY <1>1, <1>2, <1>3 DEF Course

LEMMA AheadStep ==
  ASSUME TypeOK, TypeOK', Ahead, Course
  PROVE  Ahead'
<1>1. /\ \A t \in Threads : login[t] \in Nat /\ login'[t] \in Nat
      /\ alive \subseteq Threads /\ alive' \subseteq Threads
      /\ \A id \in Ids : snap[id] # None => snap[id].login \in Nat
      /\ \A id \in Ids : live[id] # None => live[id].thread \in Threads
  BY DEF TypeOK, Session, Snapshot
<1>2. CASE Steady
  <2>1. ASSUME NEW id \in Ids, live'[id] # None, snap'[id] # None,
               live'[id].thread \in alive'
        PROVE  snap'[id].login <= login'[live'[id].thread]
    <3>1. /\ live[id] # None /\ live'[id].thread = live[id].thread
          /\ snap[id] # None /\ snap'[id].login = snap[id].login
          /\ live[id].thread \in alive
          /\ login[live[id].thread] <= login'[live[id].thread]
      BY <1>2, <2>1 DEF Steady
    <3>2. snap[id].login <= login[live[id].thread]
      BY <3>1 DEF Ahead, Leads
    <3>3. QED
      BY <1>1, <3>1, <3>2
  <2>2. QED
    BY <2>1 DEF Ahead, Leads
<1>3. ASSUME NEW id \in Ids, NEW t \in Threads, Spawned(id, t)
      PROVE  Ahead'
  <2>1. ASSUME NEW i \in Ids, i # id
        PROVE  Leads(i)'
    <3>1. live[i] # None => live[i].thread \in Threads /\ live[i].thread # t
      BY <1>1, <1>3 DEF Spawned
    <3>2. live'[i] = live[i] /\ snap'[i] = snap[i]
      BY <1>3, <2>1 DEF Spawned
    <3>3. live[i] # None => /\ login'[live[i].thread] = login[live[i].thread]
                            /\ live[i].thread \in alive' =>
                                 live[i].thread \in alive
      BY <1>3, <3>1 DEF Spawned
    <3>4. QED
      BY <3>2, <3>3 DEF Ahead, Leads
  <2>2. Leads(id)'
    BY <1>3 DEF Spawned, Leads
  <2>3. QED
    BY <2>1, <2>2 DEF Ahead
<1>4. ASSUME NEW id \in Ids, Saved(id)
      PROVE  Ahead'
  <2>1. ASSUME NEW i \in Ids
        PROVE  Leads(i)'
    <3>1. CASE i = id
      BY <1>1, <1>4, <3>1 DEF Saved, Leads
    <3>2. CASE i # id
      BY <1>4, <3>2 DEF Saved, Ahead, Leads
    <3>3. QED
      BY <3>1, <3>2
  <2>2. QED
    BY <2>1 DEF Ahead
<1>5. QED
  BY <1>2, <1>3, <1>4 DEF Course

\* On each of the three courses the disk stays or goes forward.
LEMMA NoRollBack ==
  ASSUME TypeOK, Ahead, Course, NEW id \in Ids, snap[id] # None,
         snap'[id] # None
  PROVE  snap[id].login <= snap'[id].login
<1>1. snap[id].login \in Nat
  BY DEF TypeOK, Snapshot
<1>2. CASE Steady
  BY <1>1, <1>2 DEF Steady
<1>3. ASSUME NEW i \in Ids, NEW t \in Threads, Spawned(i, t)
      PROVE  snap[id].login <= snap'[id].login
  BY <1>1, <1>3 DEF Spawned
<1>4. ASSUME NEW i \in Ids, Saved(i)
      PROVE  snap[id].login <= snap'[id].login
  <2>1. CASE i = id
    BY <1>4, <2>1 DEF Saved, Ahead, Leads
  <2>2. CASE i # id
    BY <1>1, <1>4, <2>2 DEF Saved
  <2>3. QED
    BY <2>1, <2>2
<1>5. QED
  BY <1>2, <1>3, <1>4 DEF Course

\* Steps that only take entries away, or touch none, are steady.
LEMMA RemovalIsSteady ==
  ASSUME TypeOK, UNCHANGED <<alive, login>>,
         \A id \in Ids : live'[id] # None =>
           live[id] # None /\ live'[id].thread = live[id].thread,
         \A id \in Ids : snap'[id] # None =>
           snap[id] # None /\ snap'[id].login = snap[id].login
  PROVE  Course
<1>1. \A t \in alive' : login[t] <= login'[t]
  BY DEF TypeOK
<1>2. QED
  BY <1>1 DEF Course, Steady

LEMMA StillIsSteady ==
  ASSUME TypeOK, UNCHANGED <<live, alive, login, snap>>
  PROVE  Course
  BY RemovalIsSteady

LEMMA DiesIsSteady ==
  ASSUME TypeOK, NEW t \in Threads, Dies(t)
  PROVE  Course
<1>1. /\ alive' = alive \ {t} /\ login' = [login EXCEPT ![t] = 0]
      /\ UNCHANGED <<live, snap>>
  BY DEF Dies
<1>2. \A u \in alive' : login[u] <= login'[u]
  BY <1>1 DEF TypeOK
<1>3. QED
  BY <1>1, <1>2 DEF Course, Steady

LEMMA SpawnIsSpawned ==
  ASSUME TypeOK, NEW id \in Ids, NEW t \in Threads, NEW kind,
         kind.persistent \in BOOLEAN, kind.keepalive \in BOOLEAN,
         kind.account \in BOOLEAN, NEW n \in 0..MaxLogin, Spawn(id, t, kind, n), snap' = snap,
         snap[id] # None => snap[id].login <= n
  PROVE  Course
<1> DEFINE r == [thread |-> t, persistent |-> kind.persistent,
                 keepalive |-> kind.keepalive, account |-> kind.account,
                 idle |-> 0]
<1>1. /\ FreeThread(t) /\ live' = [live EXCEPT ![id] = r]
      /\ alive' = alive \cup {t} /\ login' = [login EXCEPT ![t] = n]
  BY DEF Spawn
<1>2. live'[id] = r /\ \A i \in Ids : i # id => live'[i] = live[i]
  BY <1>1 DEF TypeOK
<1>3. login'[t] = n /\ \A u \in Threads : u # t => login'[u] = login[u]
  BY <1>1 DEF TypeOK
<1>4. live'[id] # None /\ live'[id].thread = t
  <2>1. r.thread = t
    OBVIOUS
  <2>2. live'[id].thread = t
    BY <1>2, <2>1
  <2>3. live'[id] # None
    BY SpawnTyped
  <2>4. QED
    BY <2>2, <2>3
<1>5. Spawned(id, t)
  BY <1>1, <1>2, <1>3, <1>4 DEF Spawned, FreeThread
<1>6. QED
  BY <1>5 DEF Course

LEMMA CourseRequest ==
  ASSUME TypeOK, LockDiscipline, Request
  PROVE  Course
<1>1. Clients \subseteq Actors /\ 0 \in 0..MaxLogin
  BY DEF Actors
<1>2. ASSUME NEW kind \in Kinds, CreateSession(kind)
      PROVE  Course
  <2>1. PICK id \in Ids, t \in Threads : NextId(id) /\ Spawn(id, t, kind, 0)
    BY <1>2 DEF CreateSession
  <2>2. kind \in Kind
    OBVIOUS
  <2>3. /\ kind.persistent \in BOOLEAN /\ kind.keepalive \in BOOLEAN
        /\ kind.account \in BOOLEAN
    BY <2>2 DEF Kind
  <2>4. snap' = snap /\ snap[id] = None
    BY <1>2, <2>1 DEF CreateSession, NextId, Fresh
  <2>5. QED
    BY <1>1, <2>1, <2>3, <2>4, SpawnIsSpawned
<1>3. ASSUME NEW c \in Clients, NEW id \in Ids, NEW renew \in BOOLEAN,
             NEW locked \in BOOLEAN, BeginLive(c, id, renew, locked)
      PROVE  Course
  <2>1. /\ live' = [live EXCEPT ![id] = Touch(@, renew)] /\ live[id] # None
        /\ UNCHANGED <<alive, login, snap>>
    BY <1>3 DEF BeginLive
  <2>2. live[id] \in Session
    BY <2>1 DEF TypeOK
  <2>3. Touch(live[id], renew).thread = live[id].thread
    BY <2>2 DEF Touch, Session
  <2>4. \A i \in Ids : live'[i] # None =>
          live[i] # None /\ live'[i].thread = live[i].thread
    BY <2>1, <2>3 DEF TypeOK
  <2>5. QED
    BY <2>1, <2>4, RemovalIsSteady
<1>4. ASSUME NEW c \in Clients, NEW id \in Ids, NEW renew \in BOOLEAN,
             NEW locked \in BOOLEAN, BeginRevive(c, id, renew, locked)
      PROVE  Course
  <2> DEFINE kind == [persistent |-> snap[id].persistent,
                      keepalive |-> snap[id].keepalive, account |-> FALSE]
  <2>1. snap[id] \in Snapshot
    BY <1>4 DEF BeginRevive, Usable, TypeOK
  <2>2. /\ snap[id].login \in 0..MaxLogin
        /\ kind.persistent \in BOOLEAN /\ kind.keepalive \in BOOLEAN
        /\ kind.account \in BOOLEAN
    BY <2>1 DEF Snapshot
  <2>3. PICK t \in Threads : Spawn(id, t, kind, snap[id].login)
    BY <1>4 DEF BeginRevive
  <2> HIDE DEF kind
  <2>4. snap' = snap
    BY <1>4 DEF BeginRevive
  <2>5. QED
    BY <2>2, <2>3, <2>4, SpawnIsSpawned
<1>5. ASSUME NEW S, NEW R, UNCHANGED <<alive, login>>,
             live' \in {live, Without(live, S)},
             snap' \in {snap, Without(snap, R)}
      PROVE  Course
  <2>1. \A i \in Ids : live'[i] \in {live[i], None} /\ snap'[i] \in {snap[i], None}
    BY <1>5 DEF Without
  <2>2. QED
    BY <1>5, <2>1, RemovalIsSteady
<1>6. ASSUME NEW id \in Ids, NEW renew \in BOOLEAN, RefuseMissing(id, renew)
      PROVE  Course
  BY <1>5, <1>6 DEF RefuseMissing
<1>7. ASSUME NEW id \in Ids, RefuseExpired(id) \/ CloseSession(id)
      PROVE  Course
  BY <1>5, <1>7 DEF RefuseExpired, CloseSession
<1>8. ASSUME NEW c \in Clients, NEW id \in Ids, CloseAndWait(c, id)
      PROVE  Course
  <2>1. /\ live' \in {live, Without(live, {id})}
        /\ snap' \in {snap, Without(snap, {id})}
        /\ UNCHANGED <<alive, login>>
    BY <1>8 DEF CloseAndWait
  <2>2. QED
    BY <1>5, <2>1
<1>9. ASSUME Evict
      PROVE  Course
  BY <1>5, <1>9 DEF Evict, EvictExpired
<1>10. QED
  BY <1>2, <1>3, <1>4, <1>6, <1>7, <1>8, <1>9 DEF Request

LEMMA CourseProgress ==
  ASSUME TypeOK, LockDiscipline, NEW c \in Clients,
         Progress(c) \/ CloneSession(c)
  PROVE  Course
<1>1. c \in Actors
  BY DEF Actors
<1>2. CASE Submit(c)
  BY <1>2, StillIsSteady DEF Submit
<1>3. CASE Persist(c)
  <2>1. UNCHANGED <<live, alive, login, snap>>
    BY <1>3, Zenon DEF Persist
  <2>2. QED
    BY <2>1, StillIsSteady
<1>4. CASE Release(c)
  BY <1>4, StillIsSteady DEF Release, memory
<1>5. CASE CloneSession(c)
  <2> DEFINE s == live[call[c].id]
  <2>1. PICK id \in Ids, t \in Threads :
          NextId(id) /\ Spawn(id, t, s, call[c].seen)
    BY <1>5 DEF CloneSession
  <2>2. call[c] \in Call
    BY <1>1, <1>5 DEF CloneSession, LockDiscipline, TypeOK
  <2>3. call[c].id \in Ids /\ call[c].seen \in 0..MaxLogin
    BY <2>2 DEF Call
  <2>4. s \in Session
    BY <1>5, <2>3 DEF CloneSession, TypeOK
  <2>5. /\ s.persistent \in BOOLEAN /\ s.keepalive \in BOOLEAN
        /\ s.account \in BOOLEAN
    BY <2>4 DEF Session
  <2> HIDE DEF s
  <2>6. snap' = snap /\ snap[id] = None
    BY <1>5, <2>1 DEF CloneSession, NextId, Fresh
  <2>7. QED
    BY <2>1, <2>3, <2>5, <2>6, SpawnIsSpawned
<1>6. QED
  BY <1>2, <1>3, <1>4, <1>5 DEF Progress

\* The one course that saves: the thread that answers is the one that serves
\* the session now.
LEMMA CourseThread ==
  ASSUME TypeOK, LockDiscipline, Mail, Held, NEW t \in Threads, Thread(t)
  PROVE  Course
<1>1. t \in alive
  BY DEF Thread
<1>2. CASE RunCommand(t)
  <2>1. UNCHANGED <<live, alive, login, snap>>
    BY <1>2, Zenon DEF RunCommand
  <2>2. QED
    BY <2>1, StillIsSteady
<1>3. CASE RunRead(t)
  <2> DEFINE a  == Head(queue[t]).from
             id == call[a].id
             s  == live[id]
  <2>1. queue[t] # <<>> /\ UNCHANGED <<live, alive, login>>
    BY <1>3, ReadMoves
  <2>2. \/ UNCHANGED snap
        \/ /\ a # NoOne /\ pc[a] = "capturing"
           /\ snap' = [snap EXCEPT ![id] = SavedState(s, login[t])]
    BY <1>3, ReadMoves
  <2>3. CASE UNCHANGED snap
    BY <2>1, <2>3, StillIsSteady
  <2>4. CASE /\ a # NoOne /\ pc[a] = "capturing"
             /\ snap' = [snap EXCEPT ![id] = SavedState(s, login[t])]
    <3>1. a \in Actors /\ call[a].thread = t
      BY <2>1, <2>4, Answered
    <3>2. s # None /\ s.thread = t /\ call[a] # None
      BY <2>4, <3>1 DEF LockDiscipline, Held
    <3>3. call[a] \in Call
      BY <3>1, <3>2 DEF TypeOK
    <3>4. PICK j \in Ids : j = id
      BY <3>3 DEF Call
    <3> HIDE DEF a, id
    <3>5. snap' = [snap EXCEPT ![j] = SavedState(s, login[t])]
      BY <2>4, <3>4
    <3>6. SavedState(s, login[t]).login = login[t]
      BY DEF SavedState
    <3>7. SavedState(s, login[t]) \in Snapshot
      <4>1. s \in Session /\ login[t] \in 0..MaxLogin
        BY <3>2, <3>4 DEF TypeOK
      <4>2. QED
        BY <3>2, <4>1 DEF SavedState, Session, Snapshot
    <3>8. /\ snap'[j] # None /\ snap'[j].login = login[t]
          /\ \A i \in Ids : i # j => snap'[i] = snap[i]
      BY <3>5, <3>6, <3>7 DEF TypeOK
    <3>9. Saved(j)
      BY <1>1, <2>1, <3>2, <3>4, <3>8 DEF Saved
    <3>10. QED
      BY <3>9 DEF Course
  <2>5. QED
    BY <2>2, <2>3, <2>4
<1>4. CASE Dies(t)
  BY <1>4, DiesIsSteady
<1>5. QED
  BY <1>2, <1>3, <1>4 DEF Thread, RunClose

LEMMA CourseFlush ==
  ASSUME TypeOK, LockDiscipline, Flush
  PROVE  Course
<1>1. CASE FlushStart
  <2>1. /\ \A i \in Ids : live'[i] \in {live[i], None} /\ snap'[i] \in {snap[i], None}
        /\ UNCHANGED <<alive, login>>
    BY <1>1 DEF FlushStart, EvictExpired, Without
  <2>2. QED
    BY <2>1, RemovalIsSteady
<1>2. CASE (\E id \in Ids : FlushNext(id)) \/ FlushTimeout \/ FlushEnd
  BY <1>2, StillIsSteady DEF FlushNext, FlushTimeout, FlushEnd, memory
<1>3. QED
  BY <1>1, <1>2 DEF Flush

LEMMA CourseEnvironment ==
  ASSUME TypeOK, LockDiscipline, Clocked, Environment
  PROVE  Course
<1>1. ASSUME NEW t \in Threads, PageWrites(t)
      PROVE  Course
  <2>1. /\ login' = [login EXCEPT ![t] = clock + 1]
        /\ UNCHANGED <<live, alive, snap>>
    BY <1>1 DEF PageWrites
  <2>2. /\ clock \in Nat /\ alive \subseteq Threads
        /\ \A u \in Threads : login[u] \in Nat /\ login[u] <= clock
    BY DEF TypeOK, Clocked
  <2>3. \A u \in alive' : login[u] <= login'[u]
    BY <2>1, <2>2 DEF TypeOK
  <2>4. QED
    BY <2>1, <2>3 DEF Course, Steady
<1>2. ASSUME NEW t \in Threads, ThreadDies(t)
      PROVE  Course
  BY <1>2, DiesIsSteady DEF ThreadDies
<1>3. ASSUME NEW id \in Ids, IdleTick(id)
      PROVE  Course
  <2>1. UNCHANGED <<alive, login, snap>>
    BY <1>3 DEF IdleTick
  <2>2. CASE live' = live
    BY <2>1, <2>2, StillIsSteady
  <2>3. CASE live[id] # None /\ live' = [live EXCEPT ![id].idle = @ + 1]
    <3>1. live[id] \in Session
      BY <2>3 DEF TypeOK
    <3>2. \A i \in Ids : live'[i] # None =>
            live[i] # None /\ live'[i].thread = live[i].thread
      BY <2>3, <3>1 DEF TypeOK, Session
    <3>3. QED
      BY <2>1, <3>2, RemovalIsSteady
  <2>4. QED
    BY <1>3, <2>2, <2>3 DEF IdleTick
<1>4. ASSUME NEW id \in Ids, SnapshotAges(id)
      PROVE  Course
  <2>1. /\ snap[id] # None /\ snap' = [snap EXCEPT ![id].stale = TRUE]
        /\ UNCHANGED <<live, alive, login>>
    BY <1>4 DEF SnapshotAges, Usable, memory
  <2>2. snap[id] \in Snapshot
    BY <2>1 DEF TypeOK
  <2>3. \A i \in Ids : snap'[i] # None =>
          snap[i] # None /\ snap'[i].login = snap[i].login
    BY <2>1, <2>2 DEF TypeOK, Snapshot
  <2>4. QED
    BY <2>1, <2>3, RemovalIsSteady
<1>5. ASSUME NEW c \in Clients, GiveUp(c)
      PROVE  Course
  BY <1>5, StillIsSteady DEF GiveUp
<1>6. CASE Stop
  BY <1>6 DEF Stop, Course, Steady
<1>7. ASSUME NEW mode \in RestoreModes, Boot(mode)
      PROVE  Course
  <2>1. /\ \A i \in Ids : snap'[i] \in {snap[i], None}
        /\ UNCHANGED <<live, alive, login>>
    BY <1>7 DEF Boot, Without
  <2>2. QED
    BY <2>1, RemovalIsSteady
<1>8. QED
  BY <1>1, <1>2, <1>3, <1>4, <1>5, <1>6, <1>7 DEF Environment

LEMMA CourseStep ==
  TypeOK /\ LockDiscipline /\ Mail /\ Held /\ Clocked /\ [Next]_vars => Course
<1>1. ASSUME TypeOK, UNCHANGED vars
      PROVE  Course
  BY <1>1, StillIsSteady DEF vars, memory
<1>2. QED
  BY <1>1, CourseRequest, CourseProgress, CourseThread, CourseFlush,
     CourseEnvironment DEF Next

LEMMA AheadHolds == Spec => [](Own /\ Ahead)
<1>1. Init => Own /\ Ahead
  BY DEF Init, Own, Ahead, Leads
<1>2. TypeOK /\ LockDiscipline /\ Mail /\ Held /\ Clocked /\ Own /\ Ahead
      /\ TypeOK' /\ [Next]_vars => (Own /\ Ahead)'
  BY CourseStep, OwnStep, AheadStep
<1>3. QED
  BY <1>1, <1>2, Typing, MailHolds, HeldHolds, ClockedHolds, PTL DEF Spec

\* The saved login state of an id never goes backwards while it exists: not
\* by a capture whose answer comes late, a flush, or the old thread of an
\* evicted session that still runs beside its revived successor.
THEOREM NeverRollsBack == Spec => SnapshotNeverRollsBack
<1>1. TypeOK /\ LockDiscipline /\ Mail /\ Held /\ Clocked /\ Ahead
      /\ [Next]_vars =>
        [\A id \in Ids : snap[id] # None /\ snap'[id] # None =>
                         snap[id].login <= snap'[id].login]_vars
  BY CourseStep, NoRollBack
<1>2. QED
  BY <1>1, Typing, MailHolds, HeldHolds, ClockedHolds, AheadHolds, PTL
     DEF Spec, SnapshotNeverRollsBack

--------------------------------------------------------------------------
(* Without faults the thread of a registered session runs, and no Close    *)
(* waits in its channel: only a session that left the map is hung up on.   *)

NoClose(q) == \A i \in DOMAIN q : q[i].what # "close"

Open(id) ==
  live[id].thread \in alive /\ NoClose(queue[live[id].thread])
Served == \A id \in Ids : live[id] # None => Open(id)

LEMMA AppendNoClose ==
  ASSUME NEW q \in Seq(Command), NEW m \in Command, NoClose(q),
         m.what # "close"
  PROVE  NoClose(Append(q, m))
<1> DEFINE r == Append(q, m)
<1>1. /\ Len(q) \in Nat /\ DOMAIN q = 1..Len(q)
      /\ DOMAIN r = 1..(Len(q) + 1)
      /\ \A i \in 1..Len(q) : r[i] = q[i]
      /\ r[Len(q) + 1] = m
  BY AppendProperties, LenProperties
<1> HIDE DEF r
<1>2. \A i \in DOMAIN r : \/ i \in DOMAIN q /\ r[i] = q[i]
                          \/ r[i] = m
  BY <1>1
<1>3. QED
  BY <1>2 DEF NoClose, r

LEMMA TailNoClose ==
  ASSUME NEW q \in Seq(Command), q # <<>>, NoClose(q)
  PROVE  NoClose(Tail(q)) /\ Head(q).what # "close"
<1> DEFINE r == Tail(q)
<1>1. /\ Len(q) \in Nat \ {0} /\ DOMAIN q = 1..Len(q)
      /\ Head(q) = q[1]
      /\ DOMAIN r = 1..(Len(q) - 1)
      /\ \A i \in 1..(Len(q) - 1) : r[i] = q[i + 1]
  BY HeadTailProperties, LenProperties, EmptySeq
<1> HIDE DEF r
<1>2. /\ \A i \in DOMAIN r : i + 1 \in DOMAIN q /\ r[i] = q[i + 1]
      /\ 1 \in DOMAIN q
  BY <1>1
<1>3. QED
  BY <1>1, <1>2 DEF NoClose, r

\* Hanging up on S leaves the channels of all other sessions alone.
LEMMA HangUpSpares ==
  ASSUME TypeOK, Own, NEW S, S \subseteq Ids, NEW id \in Ids, id \notin S,
         live[id] # None
  PROVE  HangUp(S)[live[id].thread] = queue[live[id].thread]
<1>1. live[id].thread \in Threads
  BY DEF TypeOK, Session
<1>2. ~\E i \in S : live[i] # None /\ live[i].thread = live[id].thread
  BY DEF Own
<1>3. QED
  BY <1>1, <1>2 DEF HangUp

\* Sessions stay on their threads, no thread ends, and no Close is sent.
LEMMA ServedStill ==
  ASSUME TypeOK, Served, alive' = alive,
         \A id \in Ids : live'[id] # None =>
           live[id] # None /\ live'[id].thread = live[id].thread,
         \A t \in Threads : NoClose(queue[t]) => NoClose(queue'[t])
  PROVE  Served'
<1>1. ASSUME NEW id \in Ids, live'[id] # None
      PROVE  live'[id].thread \in alive' /\ NoClose(queue'[live'[id].thread])
  <2>1. /\ live[id] # None /\ live'[id].thread = live[id].thread
        /\ live[id].thread \in alive /\ NoClose(queue[live[id].thread])
    BY <1>1 DEF Served, Open
  <2>2. live[id].thread \in Threads
    BY <2>1 DEF TypeOK, Session
  <2>3. QED
    BY <2>1, <2>2
<1>2. QED
  BY <1>1 DEF Served, Open

\* Sessions leave the map and are hung up on.
LEMMA ServedHangUp ==
  ASSUME TypeOK, Own, Served, NEW S, S \subseteq Ids, alive' = alive,
         live' = Without(live, S), queue' = HangUp(S)
  PROVE  Served'
<1>1. ASSUME NEW id \in Ids, live'[id] # None
      PROVE  live'[id].thread \in alive' /\ NoClose(queue'[live'[id].thread])
  <2>1. id \notin S /\ live'[id] = live[id]
    BY <1>1 DEF Without
  <2>2. live[id].thread \in alive /\ NoClose(queue[live[id].thread])
    BY <1>1, <2>1 DEF Served, Open
  <2>3. queue'[live[id].thread] = queue[live[id].thread]
    BY <1>1, <2>1, HangUpSpares
  <2>4. QED
    BY <2>1, <2>2, <2>3
<1>2. QED
  BY <1>1 DEF Served, Open

\* A session starts on an unused slot, whose channel is empty.
LEMMA ServedSpawn ==
  ASSUME TypeOK, Mail, Own, Served, NEW id \in Ids, NEW t \in Threads,
         NEW kind, NEW n, Spawn(id, t, kind, n)
  PROVE  Served'
<1>1. /\ FreeThread(t) /\ alive' = alive \cup {t} /\ queue' = HangUp({id})
      /\ live'[id].thread = t /\ \A i \in Ids : i # id => live'[i] = live[i]
  BY DEF Spawn, TypeOK
<1>2. queue'[t] = <<>>
  BY <1>1, HangUpSound DEF FreeThread
<1>3. NoClose(<<>>)
  BY DEF NoClose
<1>4. ASSUME NEW i \in Ids, i # id, live[i] # None
      PROVE  live'[i].thread \in alive' /\ NoClose(queue'[live'[i].thread])
  <2>1. live[i].thread \in alive /\ NoClose(queue[live[i].thread])
    BY <1>4 DEF Served, Open
  <2>2. queue'[live[i].thread] = queue[live[i].thread]
    BY <1>1, <1>4, HangUpSpares
  <2>3. QED
    BY <1>1, <1>4, <2>1, <2>2
<1>5. QED
  BY <1>1, <1>2, <1>3, <1>4 DEF Served, Open

LEMMA UnheardNoClose ==
  ASSUME TypeOK, Mail, NEW a \in Actors, NEW t \in Threads, NoClose(queue[t])
  PROVE  NoClose(Unheard(a)[t])
  BY UnheardSound DEF NoClose

\* One command that is no Close.
LEMMA AskNoClose ==
  ASSUME TypeOK, NEW c \in Actors, NEW t \in Threads,
         NEW what \in {"cmd", "read"},
         queue' = [queue EXCEPT ![t] =
                     Append(@, [from |-> c, what |-> what])]
  PROVE  \A u \in Threads : NoClose(queue[u]) => NoClose(queue'[u])
<1> DEFINE m == [from |-> c, what |-> what]
<1>1. m \in Command /\ m.what # "close"
  BY DEF Command
<1>2. /\ queue'[t] = Append(queue[t], m) /\ queue[t] \in Seq(Command)
      /\ \A u \in Threads : u # t => queue'[u] = queue[u]
  BY DEF TypeOK
<1> HIDE DEF m
<1>3. QED
  BY <1>1, <1>2, AppendNoClose

LEMMA ServedRequest ==
  ASSUME TypeOK, LockDiscipline, Mail, Own, Served, Request
  PROVE  Served'
<1>1. ASSUME NEW kind \in Kinds, CreateSession(kind)
      PROVE  Served'
  BY <1>1, ServedSpawn DEF CreateSession
<1>2. ASSUME NEW c \in Clients, NEW id \in Ids, NEW renew \in BOOLEAN,
             NEW locked \in BOOLEAN, BeginLive(c, id, renew, locked)
      PROVE  Served'
  <2>1. /\ live' = [live EXCEPT ![id] = Touch(@, renew)] /\ live[id] # None
        /\ UNCHANGED <<alive, queue>>
    BY <1>2 DEF BeginLive
  <2>2. live[id] \in Session
    BY <2>1 DEF TypeOK
  <2>3. Touch(live[id], renew).thread = live[id].thread
    BY <2>2 DEF Touch, Session
  <2>4. \A i \in Ids : live'[i] # None =>
          live[i] # None /\ live'[i].thread = live[i].thread
    BY <2>1, <2>3 DEF TypeOK
  <2>5. QED
    BY <2>1, <2>4, ServedStill
<1>3. ASSUME NEW c \in Clients, NEW id \in Ids, NEW renew \in BOOLEAN,
             NEW locked \in BOOLEAN, BeginRevive(c, id, renew, locked)
      PROVE  Served'
  BY <1>3, ServedSpawn DEF BeginRevive
<1>4. ASSUME NEW id \in Ids, NEW renew \in BOOLEAN, RefuseMissing(id, renew)
      PROVE  Served'
  BY <1>4, ServedHangUp DEF RefuseMissing
<1>5. ASSUME NEW id \in Ids, RefuseExpired(id) \/ CloseSession(id)
      PROVE  Served'
  BY <1>5, ServedHangUp DEF RefuseExpired, CloseSession
<1>6. ASSUME NEW c \in Clients, NEW id \in Ids, CloseAndWait(c, id)
      PROVE  Served'
  <2> DEFINE t == live[id].thread
  <2>1. /\ alive' = alive
        /\ \/ UNCHANGED <<live, queue>>
           \/ /\ live[id] # None /\ live' = Without(live, {id})
              /\ \/ UNCHANGED queue
                 \/ queue' = [queue EXCEPT ![t] =
                                Append(@, [from |-> c, what |-> "close"])]
    BY <1>6 DEF CloseAndWait
  <2>2. ASSUME NEW i \in Ids, live'[i] # None
        PROVE  /\ live'[i] = live[i] /\ live[i].thread \in Threads
               /\ queue'[live[i].thread] = queue[live[i].thread]
    <3>1. /\ live'[i] = live[i]
          /\ UNCHANGED queue \/ i # id
      BY <2>1, <2>2 DEF Without
    <3>2. live[i].thread \in Threads
      BY <2>2, <3>1 DEF TypeOK, Session
    <3>3. CASE UNCHANGED queue
      BY <3>1, <3>2, <3>3
    <3>4. CASE i # id /\ live[id] # None
      <4>1. live[i].thread # t
        BY <2>2, <3>1, <3>4 DEF Own
      <4> HIDE DEF t
      <4>2. QED
        BY <2>1, <3>1, <3>2, <4>1 DEF TypeOK
    <3>5. QED
      BY <2>1, <3>1, <3>3, <3>4
  <2>3. QED
    BY <2>1, <2>2 DEF Served, Open
<1>7. ASSUME Evict
      PROVE  Served'
  BY <1>7, ServedHangUp DEF Evict, EvictExpired
<1>8. QED
  BY <1>1, <1>2, <1>3, <1>4, <1>5, <1>6, <1>7 DEF Request

LEMMA ServedProgress ==
  ASSUME TypeOK, LockDiscipline, Mail, Own, Served, NEW c \in Clients,
         Progress(c) \/ CloneSession(c)
  PROVE  Served'
<1>1. c \in Actors
  BY DEF Actors
<1>2. CASE Submit(c)
  <2> DEFINE t == call[c].thread
  <2>1. UNCHANGED <<alive, live>>
    BY <1>2 DEF Submit
  <2>2. \/ UNCHANGED queue
        \/ /\ t \in alive
           /\ queue' = [queue EXCEPT ![t] =
                          Append(@, [from |-> c, what |-> "cmd"])]
    BY <1>2 DEF Submit
  <2>3. \A u \in Threads : NoClose(queue[u]) => NoClose(queue'[u])
    BY <1>1, <2>2, AskNoClose DEF TypeOK
  <2>4. QED
    BY <2>1, <2>3, ServedStill
<1>3. CASE Persist(c)
  <2> DEFINE t == live[call[c].id].thread
  <2>1. UNCHANGED <<alive, live>>
    BY <1>3, Zenon DEF Persist
  <2>2. \/ UNCHANGED queue
        \/ /\ t \in Threads
           /\ queue' = [queue EXCEPT ![t] =
                          Append(@, [from |-> c, what |-> "read"])]
    BY <1>3, PersistMoves
  <2> HIDE DEF t
  <2>3. \A u \in Threads : NoClose(queue[u]) => NoClose(queue'[u])
    BY <1>1, <2>2, AskNoClose
  <2>4. QED
    BY <2>1, <2>3, ServedStill
<1>4. CASE Release(c)
  BY <1>4, ServedStill DEF Release, memory
<1>5. CASE CloneSession(c)
  BY <1>5, ServedSpawn DEF CloneSession
<1>6. QED
  BY <1>2, <1>3, <1>4, <1>5 DEF Progress

LEMMA ServedThread ==
  ASSUME TypeOK, Mail, Served, NEW t \in Threads, Thread(t)
  PROVE  Served'
<1>1. ASSUME queue[t] # <<>>, queue' = [queue EXCEPT ![t] = Tail(@)],
             UNCHANGED <<live, alive>>
      PROVE  Served'
  <2>1. /\ queue'[t] = Tail(queue[t]) /\ queue[t] \in Seq(Command)
        /\ \A u \in Threads : u # t => queue'[u] = queue[u]
    BY <1>1 DEF TypeOK
  <2>2. \A u \in Threads : NoClose(queue[u]) => NoClose(queue'[u])
    BY <1>1, <2>1, TailNoClose
  <2>3. QED
    BY <1>1, <2>2, ServedStill
<1>2. CASE RunCommand(t)
  <2>1. /\ queue[t] # <<>> /\ queue' = [queue EXCEPT ![t] = Tail(@)]
        /\ UNCHANGED <<live, alive>>
    BY <1>2, Zenon DEF RunCommand
  <2>2. QED
    BY <1>1, <2>1
<1>3. CASE RunRead(t)
  <2>1. /\ queue[t] # <<>> /\ queue' = [queue EXCEPT ![t] = Tail(@)]
        /\ UNCHANGED <<live, alive>>
    BY <1>3, ReadMoves
  <2>2. QED
    BY <1>1, <2>1
<1>4. CASE RunClose(t)
  <2>1. /\ queue[t] # <<>> /\ Head(queue[t]).what = "close"
        /\ alive' = alive \ {t} /\ queue' = [queue EXCEPT ![t] = <<>>]
        /\ live' = live
    BY <1>4 DEF RunClose, Dies
  <2>2. ~NoClose(queue[t])
    BY <2>1, TailNoClose DEF TypeOK
  <2>3. ASSUME NEW id \in Ids, live[id] # None
        PROVE  live[id].thread \in alive' /\ NoClose(queue'[live[id].thread])
    <3>1. /\ live[id].thread \in Threads \ {t} /\ live[id].thread \in alive
          /\ NoClose(queue[live[id].thread])
      BY <2>2, <2>3 DEF Served, Open, TypeOK, Session
    <3>2. QED
      BY <2>1, <3>1 DEF TypeOK
  <2>4. QED
    BY <2>1, <2>3 DEF Served, Open
<1>5. QED
  BY <1>2, <1>3, <1>4 DEF Thread

LEMMA ServedFlush ==
  ASSUME TypeOK, LockDiscipline, Mail, Own, Served, Flush
  PROVE  Served'
<1>1. Flusher \in Actors
  BY DEF Actors
<1>2. CASE FlushStart
  BY <1>2, ServedHangUp DEF FlushStart, EvictExpired
<1>3. ASSUME NEW id \in Ids, FlushNext(id)
      PROVE  Served'
  <2> DEFINE t == live[id].thread
  <2>1. UNCHANGED <<alive, live>>
    BY <1>3 DEF FlushNext
  <2>2. \/ UNCHANGED queue
        \/ /\ t \in alive
           /\ queue' = [queue EXCEPT ![t] =
                          Append(@, [from |-> Flusher, what |-> "read"])]
    BY <1>3 DEF FlushNext, Listening
  <2> HIDE DEF t
  <2>3. \A u \in Threads : NoClose(queue[u]) => NoClose(queue'[u])
    BY <1>1, <2>2, AskNoClose DEF TypeOK
  <2>4. QED
    BY <2>1, <2>3, ServedStill
<1>4. CASE FlushTimeout
  <2>1. queue' = Unheard(Flusher) /\ UNCHANGED <<alive, live>>
    BY <1>4 DEF FlushTimeout
  <2>2. QED
    BY <1>1, <2>1, UnheardNoClose, ServedStill
<1>5. CASE FlushEnd
  BY <1>5, ServedStill DEF FlushEnd, memory
<1>6. QED
  BY <1>2, <1>3, <1>4, <1>5 DEF Flush

LEMMA ServedEnvironment ==
  ASSUME ~Faults, TypeOK, LockDiscipline, Mail, Own, Served, Environment
  PROVE  Served'
<1>1. ASSUME NEW t \in Threads, PageWrites(t)
      PROVE  Served'
  BY <1>1, ServedStill DEF PageWrites
<1>2. ASSUME NEW t \in Threads, ThreadDies(t)
      PROVE  Served'
  BY <1>2 DEF ThreadDies
<1>3. ASSUME NEW id \in Ids, IdleTick(id)
      PROVE  Served'
  <2>1. UNCHANGED <<alive, queue>>
    BY <1>3 DEF IdleTick
  <2>2. CASE live' = live
    BY <2>1, <2>2, ServedStill
  <2>3. CASE live[id] # None /\ live' = [live EXCEPT ![id].idle = @ + 1]
    <3>1. live[id] \in Session
      BY <2>3 DEF TypeOK
    <3>2. \A i \in Ids : live'[i] # None =>
            live[i] # None /\ live'[i].thread = live[i].thread
      BY <2>3, <3>1 DEF TypeOK, Session
    <3>3. QED
      BY <2>1, <3>2, ServedStill
  <2>4. QED
    BY <1>3, <2>2, <2>3 DEF IdleTick
<1>4. ASSUME NEW id \in Ids, SnapshotAges(id)
      PROVE  Served'
  BY <1>4, ServedStill DEF SnapshotAges, memory
<1>5. ASSUME NEW c \in Clients, GiveUp(c)
      PROVE  Served'
  <2>1. c \in Actors /\ queue' = Unheard(c) /\ UNCHANGED <<alive, live>>
    BY <1>5 DEF GiveUp, Actors
  <2>2. QED
    BY <2>1, UnheardNoClose, ServedStill
<1>6. CASE Stop
  BY <1>6 DEF Stop, Served
<1>7. ASSUME NEW mode \in RestoreModes, Boot(mode)
      PROVE  Served'
  BY <1>7, ServedStill DEF Boot
<1>8. QED
  BY <1>1, <1>2, <1>3, <1>4, <1>5, <1>6, <1>7 DEF Environment

LEMMA ServedHolds ==
  ASSUME ~Faults
  PROVE  Spec => []Served
<1>1. Init => Served
  BY DEF Init, Served
<1>2. ASSUME TypeOK, Served, UNCHANGED vars
      PROVE  Served'
  BY <1>2, ServedStill DEF vars, memory
<1>3. TypeOK /\ LockDiscipline /\ Mail /\ Own /\ Served /\ [Next]_vars
      => Served'
  BY <1>2, ServedRequest, ServedProgress, ServedThread, ServedFlush,
     ServedEnvironment DEF Next
<1>4. QED
  BY <1>1, <1>3, Typing, MailHolds, AheadHolds, PTL DEF Spec

--------------------------------------------------------------------------
(* Who is past the capture keeps the mutex until the caller is answered.   *)

Holder == \A a \in Actors : pc[a] = "holding" => lock = a

LEMMA HolderChange ==
  ASSUME Holder,
         \A a \in Actors : pc'[a] = "holding" =>
           (pc[a] = "holding" /\ lock' = lock) \/ lock' = a
  PROVE  Holder'
  BY DEF Holder

\* The mutex was free, and nobody gets past a capture.
LEMMA HolderFree ==
  ASSUME Holder, lock = NoOne,
         \A a \in Actors : \/ pc'[a] = pc[a]
                           \/ pc'[a] \in {"idle", "prepared", "closing",
                                          "capturing"}
  PROVE  Holder'
<1>1. NoOne \notin Actors
  BY ConstantsAssumption
<1>2. \A a \in Actors : pc'[a] # "holding"
  BY <1>1 DEF Holder
<1>3. QED
  BY <1>2, HolderChange

\* Answering the caller gives up a mutex no other handler has.
LEMMA HolderReturn ==
  ASSUME TypeOK, Holder, NEW c \in Actors, Return(c)
  PROVE  Holder'
<1>1. /\ pc'[c] = "idle" /\ \A a \in Actors \ {c} : pc'[a] = pc[a]
      /\ lock' = IF lock = c THEN NoOne ELSE lock
  BY ReturnMoves DEF Return
<1>2. ASSUME NEW a \in Actors, pc'[a] = "holding"
      PROVE  pc[a] = "holding" /\ lock' = lock
  <2>1. a # c /\ pc[a] = "holding"
    BY <1>1, <1>2
  <2>2. lock = a
    BY <2>1 DEF Holder
  <2>3. QED
    BY <1>1, <2>1, <2>2
<1>3. QED
  BY <1>2, HolderChange

LEMMA HolderRequest ==
  ASSUME TypeOK, LockDiscipline, Holder, Request
  PROVE  Holder'
<1>1. Clients \subseteq Actors
  BY DEF Actors
<1>2. ASSUME CanLock, \A a \in Actors : \/ pc'[a] = pc[a]
                                        \/ pc'[a] \in {"prepared", "closing"}
      PROVE  Holder'
  BY <1>2, HolderFree DEF CanLock
<1>3. ASSUME NEW kind \in Kinds, CreateSession(kind)
      PROVE  Holder'
  BY <1>2, <1>3 DEF CreateSession
<1>4. ASSUME NEW c \in Clients, NEW id \in Ids, NEW renew \in BOOLEAN,
             NEW locked \in BOOLEAN,
             BeginLive(c, id, renew, locked) \/ BeginRevive(c, id, renew, locked)
      PROVE  Holder'
  <2>1. CanLock /\ pc' = [pc EXCEPT ![c] = "prepared"]
    BY <1>4 DEF BeginLive, BeginRevive, Enter
  <2>2. QED
    BY <1>2, <2>1 DEF TypeOK
<1>5. ASSUME NEW id \in Ids, NEW renew \in BOOLEAN, RefuseMissing(id, renew)
      PROVE  Holder'
  BY <1>2, <1>5 DEF RefuseMissing
<1>6. ASSUME NEW id \in Ids, RefuseExpired(id) \/ CloseSession(id)
      PROVE  Holder'
  BY <1>2, <1>6 DEF RefuseExpired, CloseSession
<1>7. ASSUME NEW c \in Clients, NEW id \in Ids, CloseAndWait(c, id)
      PROVE  Holder'
  <2>1. CanLock /\ pc' \in {pc, [pc EXCEPT ![c] = "closing"]}
    BY <1>7 DEF CloseAndWait
  <2>2. QED
    BY <1>2, <2>1 DEF TypeOK
<1>8. ASSUME Evict
      PROVE  Holder'
  BY <1>2, <1>8 DEF Evict
<1>9. QED
  BY <1>3, <1>4, <1>5, <1>6, <1>7, <1>8 DEF Request

LEMMA HolderProgress ==
  ASSUME TypeOK, LockDiscipline, Holder, NEW c \in Clients,
         Progress(c) \/ CloneSession(c)
  PROVE  Holder'
<1>1. c \in Actors /\ NoOne \notin Actors
  BY ConstantsAssumption DEF Actors
<1>2. CASE Submit(c)
  <2>1. CASE Return(c)
    BY <1>1, <2>1, HolderReturn
  <2>2. CASE pc' = [pc EXCEPT ![c] = "awaiting"] /\ UNCHANGED lock
    BY <1>1, <2>2, HolderChange DEF TypeOK
  <2>3. QED
    BY <1>2, <2>1, <2>2 DEF Submit
<1>3. CASE Persist(c)
  <2>1. (lock = c \/ lock = NoOne) /\ lock' = c
    BY <1>3, Zenon DEF Persist, CanLock
  <2>2. \A a \in Actors \ {c} : pc'[a] = pc[a]
    BY <1>3, PersistMoves
  <2>3. \A a \in Actors \ {c} : pc[a] # "holding"
    BY <1>1, <2>1 DEF Holder
  <2>4. QED
    BY <2>1, <2>2, <2>3, HolderChange
<1>4. CASE Return(c)
  BY <1>1, <1>4, HolderReturn
<1>5. QED
  BY <1>2, <1>3, <1>4 DEF Progress, Release, CloneSession

\* A thread that ends takes the mutex from nobody who goes on.
LEMMA HolderDies ==
  ASSUME TypeOK, LockDiscipline, Holder, NEW t \in Threads, Dies(t)
  PROVE  Holder'
<1>1. ASSUME NEW a \in Actors, pc'[a] = "holding"
      PROVE  lock' = a
  <2>1. pc[a] \in {"holding", "capturing"}
    BY <1>1, DiesTyped
  <2>2. lock = a
    BY <2>1 DEF Holder, LockDiscipline
  <2>3. QED
    BY <1>1, <2>2, DiesTyped
<1>2. QED
  BY <1>1, HolderChange

LEMMA HolderThread ==
  ASSUME TypeOK, LockDiscipline, Mail, Holder, NEW t \in Threads, Thread(t)
  PROVE  Holder'
<1> DEFINE c == Head(queue[t]).from
<1>1. CASE RunCommand(t)
  <2>1. queue[t] # <<>>
    BY <1>1, Zenon DEF RunCommand
  <2>2. \/ UNCHANGED <<lock, pc>>
        \/ c # NoOne /\ pc' = [pc EXCEPT ![c] = "replied"] /\ UNCHANGED lock
        \/ c # NoOne /\ Return(c)
    BY <1>1, Zenon DEF RunCommand
  <2>3. c # NoOne => c \in Actors
    BY <2>1, Answered
  <2> HIDE DEF c
  <2>4. CASE UNCHANGED <<lock, pc>>
    BY <2>4, HolderChange
  <2>5. CASE c # NoOne /\ Return(c)
    BY <2>3, <2>5, HolderReturn
  <2>6. CASE /\ c # NoOne /\ pc' = [pc EXCEPT ![c] = "replied"]
             /\ UNCHANGED lock
    BY <2>3, <2>6, HolderChange DEF TypeOK
  <2>7. QED
    BY <2>2, <2>4, <2>5, <2>6
<1>2. CASE RunRead(t)
  <2>1. queue[t] # <<>> /\ lock' = lock
    BY <1>2, ReadMoves
  <2>2. \/ UNCHANGED pc
        \/ /\ c # NoOne /\ pc[c] = "capturing"
           /\ pc' = [pc EXCEPT ![c] = IF c = Flusher THEN "idle"
                                                     ELSE "holding"]
    BY <1>2, ReadMoves
  <2>3. c # NoOne => c \in Actors
    BY <2>1, Answered
  <2> HIDE DEF c
  <2>4. ASSUME NEW a \in Actors, pc'[a] = "holding"
        PROVE  lock' = a
    <3>1. pc[a] \in {"holding", "capturing"}
      BY <2>2, <2>3, <2>4 DEF TypeOK
    <3>2. QED
      BY <2>1, <3>1 DEF Holder, LockDiscipline
  <2>5. QED
    BY <2>4, HolderChange
<1>3. CASE Dies(t)
  BY <1>3, HolderDies
<1>4. QED
  BY <1>1, <1>2, <1>3 DEF Thread, RunClose

LEMMA HolderFlush ==
  ASSUME TypeOK, LockDiscipline, Holder, Flush
  PROVE  Holder'
<1>1. Flusher \in Actors
  BY DEF Actors
<1>2. CASE FlushStart
  BY <1>2, HolderFree DEF FlushStart
<1>3. ASSUME NEW id \in Ids, FlushNext(id)
      PROVE  Holder'
  <2>1. pc' \in {pc, [pc EXCEPT ![Flusher] = "capturing"]} /\ lock' = lock
    BY <1>3 DEF FlushNext
  <2>2. QED
    BY <1>1, <2>1, HolderChange DEF TypeOK
<1>4. CASE FlushTimeout
  BY <1>1, <1>4, HolderChange DEF FlushTimeout, TypeOK
<1>5. CASE FlushEnd
  <2>1. lock = Flusher /\ pc[Flusher] = "idle" /\ pc' = pc
    BY <1>5 DEF FlushEnd, LockDiscipline
  <2>2. \A a \in Actors : pc[a] # "holding"
    BY <2>1 DEF Holder
  <2>3. QED
    BY <2>1, <2>2, HolderChange
<1>6. QED
  BY <1>2, <1>3, <1>4, <1>5 DEF Flush

LEMMA HolderEnvironment ==
  ASSUME TypeOK, LockDiscipline, Holder, Environment
  PROVE  Holder'
<1>1. ASSUME UNCHANGED <<lock, pc>>
      PROVE  Holder'
  BY <1>1, HolderChange
<1>2. ASSUME NEW t \in Threads, PageWrites(t)
      PROVE  Holder'
  BY <1>1, <1>2 DEF PageWrites
<1>3. ASSUME NEW t \in Threads, ThreadDies(t)
      PROVE  Holder'
  BY <1>3, HolderDies DEF ThreadDies
<1>4. ASSUME NEW id \in Ids, IdleTick(id) \/ SnapshotAges(id)
      PROVE  Holder'
  BY <1>1, <1>4 DEF IdleTick, SnapshotAges
<1>5. ASSUME NEW c \in Clients, GiveUp(c)
      PROVE  Holder'
  BY <1>5, HolderReturn DEF GiveUp, Actors
<1>6. CASE Stop
  BY <1>6, HolderChange DEF Stop
<1>7. ASSUME NEW mode \in RestoreModes, Boot(mode)
      PROVE  Holder'
  BY <1>1, <1>7 DEF Boot
<1>8. QED
  BY <1>2, <1>3, <1>4, <1>5, <1>6, <1>7 DEF Environment

LEMMA HolderHolds == Spec => []Holder
<1>1. Init => Holder
  BY DEF Init, Holder
<1>2. ASSUME Holder, UNCHANGED vars
      PROVE  Holder'
  BY <1>2 DEF vars, Holder
<1>3. TypeOK /\ LockDiscipline /\ Mail /\ Holder /\ [Next]_vars => Holder'
  BY <1>2, HolderRequest, HolderProgress, HolderThread, HolderFlush,
     HolderEnvironment DEF Next
<1>4. QED
  BY <1>1, <1>3, Typing, MailHolds, PTL DEF Spec

--------------------------------------------------------------------------
(* The sweep.  While the flush runs, every anonymous session it is done    *)
(* with has a usable snapshot, or is the one whose answer it waits for.    *)

Covered(id) ==
  live[id] # None /\ ~live[id].account =>
    Usable(id) \/ (pc[Flusher] = "capturing" /\ call[Flusher].id = id)
Swept == phase = "flushing" => \A id \in Ids \ todo : Covered(id)

\* While the flush runs nobody else has the mutex, nor can take it.
LEMMA FlushingIsExclusive ==
  ASSUME LockDiscipline, Holder, phase = "flushing"
  PROVE  /\ ~CanLock /\ lock = Flusher
         /\ \A c \in Clients : lock # c /\ pc[c] \notin {"capturing", "holding"}
<1>1. lock = Flusher /\ Flusher \notin Clients /\ Clients \subseteq Actors
  BY ConstantsAssumption DEF LockDiscipline, Actors
<1>2. QED
  BY <1>1 DEF CanLock, LockDiscipline, Holder

\* A step of the flush phase that takes away no snapshot, and after which
\* the flush is where it was, or has saved what it waited for.
LEMMA SweptStill ==
  ASSUME Swept, phase' = phase, todo' = todo,
         \A id \in Ids : live'[id] # None =>
           live[id] # None /\ live'[id].account = live[id].account,
         \A id \in Ids : Usable(id) => Usable(id)',
         \/ pc'[Flusher] = pc[Flusher] /\ call'[Flusher].id = call[Flusher].id
         \/ \E j \in Ids : j = call[Flusher].id /\ Usable(j)'
  PROVE  Swept'
<1>1. ASSUME phase = "flushing", NEW id \in Ids \ todo, live'[id] # None,
             ~live'[id].account
      PROVE  \/ Usable(id)'
             \/ pc'[Flusher] = "capturing" /\ call'[Flusher].id = id
  <2>1. \/ Usable(id)
        \/ pc[Flusher] = "capturing" /\ call[Flusher].id = id
    BY <1>1 DEF Swept, Covered
  <2>2. QED
    BY <2>1
<1>2. QED
  BY <1>1 DEF Swept, Covered

\* Nothing that Swept looks at changes.
LEMMA SweptElsewhere ==
  ASSUME Swept, UNCHANGED <<phase, todo, live, snap>>,
         pc'[Flusher] = pc[Flusher] /\ call'[Flusher].id = call[Flusher].id
  PROVE  Swept'
<1>1. \A id \in Ids : Usable(id) => Usable(id)'
  BY DEF Usable
<1>2. QED
  BY <1>1, SweptStill

LEMMA SweptRequest ==
  ASSUME LockDiscipline, Holder, Swept, Request
  PROVE  Swept'
<1>1. CanLock /\ phase' = phase
  <2>1. ASSUME NEW kind \in Kinds, CreateSession(kind)
        PROVE  CanLock /\ phase' = phase
    BY <2>1, Zenon DEF CreateSession
  <2>2. ASSUME NEW c \in Clients, NEW id \in Ids, NEW renew \in BOOLEAN,
               NEW locked \in BOOLEAN,
               BeginLive(c, id, renew, locked) \/ BeginRevive(c, id, renew, locked)
        PROVE  CanLock /\ phase' = phase
    BY <2>2, Zenon DEF BeginLive, BeginRevive
  <2>3. ASSUME NEW id \in Ids, NEW renew \in BOOLEAN, RefuseMissing(id, renew)
        PROVE  CanLock /\ phase' = phase
    BY <2>3, Zenon DEF RefuseMissing
  <2>4. ASSUME NEW id \in Ids, RefuseExpired(id) \/ CloseSession(id)
        PROVE  CanLock /\ phase' = phase
    BY <2>4, Zenon DEF RefuseExpired, CloseSession
  <2>5. ASSUME NEW c \in Clients, NEW id \in Ids, CloseAndWait(c, id)
        PROVE  CanLock /\ phase' = phase
    BY <2>5, Zenon DEF CloseAndWait
  <2>6. CASE Evict
    BY <2>6, Zenon DEF Evict
  <2> QED
    BY <2>1, <2>2, <2>3, <2>4, <2>5, <2>6, Zenon DEF Request
<1>2. phase' # "flushing"
  BY <1>1, FlushingIsExclusive
<1>3. QED
  BY <1>2 DEF Swept

LEMMA SweptProgress ==
  ASSUME TypeOK, LockDiscipline, Holder, Swept, NEW c \in Clients,
         Progress(c) \/ CloneSession(c)
  PROVE  Swept'
<1>1. c \in Actors /\ Flusher \in Actors /\ c # Flusher
  BY ConstantsAssumption DEF Actors
<1>2. CASE Submit(c)
  <2>1. UNCHANGED <<phase, todo, live, snap>>
    BY <1>2 DEF Submit
  <2>2. \/ Return(c)
        \/ pc' = [pc EXCEPT ![c] = "awaiting"] /\ UNCHANGED call
    BY <1>2 DEF Submit
  <2>3. pc'[Flusher] = pc[Flusher] /\ call'[Flusher] = call[Flusher]
    BY <1>1, <2>2, ReturnMoves DEF TypeOK
  <2>4. QED
    BY <2>1, <2>3, SweptElsewhere
<1>3. CASE Persist(c)
  <2>1. phase' = phase /\ (lock = c \/ CanLock)
    BY <1>3, Zenon DEF Persist
  <2>2. QED
    BY <2>1, FlushingIsExclusive DEF Swept
<1>4. CASE Release(c) \/ CloneSession(c)
  <2>1. phase' = phase /\ pc[c] = "holding"
    BY <1>4 DEF Release, CloneSession
  <2>2. QED
    BY <2>1, FlushingIsExclusive DEF Swept
<1>5. QED
  BY <1>2, <1>3, <1>4 DEF Progress

\* An answer to the flush is saved; and a thread that obeys a Close is not
\* the one the flush waits for.
LEMMA SweptThread ==
  ASSUME ~Faults, TypeOK, LockDiscipline, Mail, Held, Served, Holder, Swept,
         NEW t \in Threads, Thread(t)
  PROVE  Swept'
<1> DEFINE c == Head(queue[t]).from
<1>1. Flusher \in Actors /\ pc[Flusher] \in {"idle", "capturing"}
  BY DEF Actors, LockDiscipline
<1>2. CASE RunCommand(t)
  <2>1. queue[t] # <<>> /\ UNCHANGED <<phase, todo, live, snap>>
    BY <1>2, Zenon DEF RunCommand
  <2>2. \/ UNCHANGED <<pc, call>>
        \/ /\ c # NoOne /\ pc[c] = "awaiting"
           /\ pc' = [pc EXCEPT ![c] = "replied"]
           /\ call' = [call EXCEPT ![c].seen = login[t]]
        \/ c # NoOne /\ pc[c] = "awaiting" /\ Return(c)
    BY <1>2, Zenon DEF RunCommand
  <2>3. c # NoOne => c \in Actors
    BY <2>1, Answered
  <2> HIDE DEF c
  <2>4. pc'[Flusher] = pc[Flusher] /\ call'[Flusher] = call[Flusher]
    BY <1>1, <2>2, <2>3, ReturnMoves DEF TypeOK
  <2>5. QED
    BY <2>1, <2>4, SweptElsewhere
<1>3. CASE RunRead(t)
  <2> DEFINE s   == live[call[c].id]
             new == [snap EXCEPT ![call[c].id] = SavedState(s, login[t])]
  <2>1. queue[t] # <<>> /\ UNCHANGED <<phase, todo, live>>
    BY <1>3, ReadMoves
  <2>2. \/ UNCHANGED <<snap, pc, call>>
        \/ /\ c # NoOne /\ pc[c] = "capturing"
           /\ pc' = [pc EXCEPT ![c] = IF c = Flusher THEN "idle"
                                                     ELSE "holding"]
           /\ \/ c # Flusher /\ UNCHANGED call
              \/ c = Flusher /\ call' = [call EXCEPT ![c] = None]
           /\ \/ UNCHANGED snap /\ s.account
              \/ ~(s # None /\ s.account) /\ snap' = new
    BY <1>3, ReadMoves
  <2>3. c # NoOne => c \in Actors
    BY <2>1, Answered
  <2> HIDE DEF c, s, new
  <2>4. CASE UNCHANGED <<snap, pc, call>>
    BY <2>1, <2>4, SweptElsewhere
  <2>5. CASE c # Flusher /\ c # NoOne /\ pc[c] = "capturing"
    <3>1. c \in Clients
      BY <2>3, <2>5 DEF Actors
    <3>2. phase' # "flushing"
      BY <2>1, <2>5, <3>1, FlushingIsExclusive
    <3>3. QED
      BY <3>2 DEF Swept
  <2>6. CASE /\ c = Flusher /\ pc[c] = "capturing"
             /\ \/ UNCHANGED snap /\ s.account
                \/ ~(s # None /\ s.account) /\ snap' = new
    <3>1. call[c] \in Call /\ s # None
      BY <1>1, <2>6 DEF s, LockDiscipline, TypeOK
    <3>2. PICK j \in Ids : j = call[c].id
      BY <3>1 DEF Call
    <3>3. s = live[j] /\ s \in Session
      BY <3>1, <3>2 DEF s, TypeOK
    <3>4. \A id \in Ids : Usable(id) => Usable(id)'
      <4>1. /\ SavedState(s, login[t]) \in Snapshot
            /\ ~SavedState(s, login[t]).stale
        BY <3>1, <3>3 DEF SavedState, Session, Snapshot, TypeOK
      <4>2. \A i \in Ids : \/ snap'[i] = snap[i]
                           \/ snap'[i] = SavedState(s, login[t])
        BY <2>6 DEF new, TypeOK
      <4>3. QED
        BY <4>1, <4>2, NoneAssumption DEF Usable
    <3>5. CASE UNCHANGED snap /\ s.account
      <4>1. \A id \in Ids : Usable(id)' <=> Usable(id)
        BY <3>5 DEF Usable
      <4>2. \A id \in Ids \ todo : live[id] # None /\ ~live[id].account
              /\ phase = "flushing" => Usable(id)
        BY <2>6, <3>2, <3>3, <3>5 DEF Swept, Covered
      <4>3. QED
        BY <2>1, <4>1, <4>2 DEF Swept, Covered
    <3>6. CASE snap' = new
      <4>1. /\ SavedState(s, login[t]) \in Snapshot
            /\ ~SavedState(s, login[t]).stale
        BY <3>1, <3>3 DEF SavedState, Session, Snapshot, TypeOK
      <4>2. snap'[j] = SavedState(s, login[t])
        BY <3>2, <3>6 DEF new, TypeOK
      <4>3. Usable(j)'
        BY <4>1, <4>2, NoneAssumption DEF Usable
      <4>4. QED
        BY <2>1, <2>6, <3>2, <3>4, <4>3, SweptStill
    <3>7. QED
      BY <2>6, <3>5, <3>6
  <2>7. QED
    BY <2>2, <2>4, <2>5, <2>6
<1>4. CASE RunClose(t)
  <2>1. Dies(t) /\ queue[t] # <<>> /\ Head(queue[t]).what = "close"
    BY <1>4 DEF RunClose
  <2>2. UNCHANGED <<phase, todo, live, snap>>
    BY <2>1 DEF Dies
  <2>3. ~NoClose(queue[t])
    BY <2>1, TailNoClose DEF TypeOK
  <2>4. ~Pending(Flusher, t)
    <3>1. SUFFICES ASSUME Pending(Flusher, t)
                   PROVE  FALSE
      OBVIOUS
    <3>2. pc[Flusher] = "capturing" /\ call[Flusher].thread = t
      <4>1. Flusher # NoOne
        BY ConstantsAssumption DEF Actors
      <4>2. PICK i \in DOMAIN queue[t] : queue[t][i].from = Flusher
        BY <3>1 DEF Pending
      <4>3. /\ pc[Flusher] = Stage(queue[t][i].what)
            /\ call[Flusher].thread = t
        BY <4>1, <4>2 DEF Mail, Sound
      <4>4. QED
        BY <1>1, <4>3 DEF Stage
    <3>3. call[Flusher] \in Call /\ live[call[Flusher].id] # None
      BY <1>1, <3>2 DEF LockDiscipline, TypeOK
    <3>4. call[Flusher].id \in Ids /\ live[call[Flusher].id].thread = t
      BY <1>1, <3>2, <3>3 DEF Call, Held
    <3>5. QED
      BY <2>3, <3>3, <3>4 DEF Served, Open
  <2>5. pc'[Flusher] = pc[Flusher] /\ call'[Flusher] = call[Flusher]
    BY <1>1, <2>1, <2>4 DEF Dies
  <2>6. QED
    BY <2>2, <2>5, SweptElsewhere
<1>5. QED
  BY <1>2, <1>3, <1>4 DEF Thread

LEMMA SweptFlush ==
  ASSUME ~Faults, TypeOK, TypeOK', LockDiscipline, Served, Swept, Flush
  PROVE  Swept'
<1>1. Flusher \in Actors
  BY DEF Actors
<1>2. CASE FlushStart
  <2>1. todo' = Fleet(live')
    BY <1>2 DEF FlushStart
  <2>2. \A id \in Ids \ todo' : live'[id] = None
    BY <2>1 DEF Fleet
  <2>3. QED
    BY <2>2 DEF Swept, Covered
<1>3. ASSUME NEW id \in Ids, FlushNext(id)
      PROVE  Swept'
  <2> DEFINE r == [id |-> id, thread |-> live[id].thread, renew |-> FALSE,
                   locked |-> TRUE, durable |-> FALSE, seen |-> 0]
  <2>1. /\ phase = "flushing" /\ pc[Flusher] = "idle" /\ id \in todo
        /\ todo' = todo \ {id} /\ UNCHANGED <<live, snap>>
    BY <1>3 DEF FlushNext
  <2>2. live[id].thread \in alive
    BY <2>1 DEF LockDiscipline, Served, Open
  <2>3. /\ pc' = [pc EXCEPT ![Flusher] = "capturing"]
        /\ call' = [call EXCEPT ![Flusher] = r]
    BY <1>3, <2>2 DEF FlushNext, Listening
  <2>4. pc'[Flusher] = "capturing" /\ call'[Flusher].id = id
    BY <1>1, <2>3 DEF TypeOK
  <2>5. \A i \in Ids \ todo : live[i] # None /\ ~live[i].account => Usable(i)
    BY <2>1 DEF Swept, Covered
  <2>6. \A i \in Ids : Usable(i)' <=> Usable(i)
    BY <2>1 DEF Usable
  <2>7. QED
    BY <2>1, <2>4, <2>5, <2>6 DEF Swept, Covered
<1>4. CASE FlushTimeout
  BY <1>4 DEF FlushTimeout
<1>5. CASE FlushEnd
  BY <1>5 DEF FlushEnd, Swept
<1>6. QED
  BY <1>2, <1>3, <1>4, <1>5 DEF Flush

LEMMA SweptEnvironment ==
  ASSUME ~Faults, TypeOK, Swept, Environment
  PROVE  Swept'
<1>1. ASSUME NEW t \in Threads, PageWrites(t)
      PROVE  Swept'
  BY <1>1, SweptElsewhere DEF PageWrites
<1>2. ASSUME NEW t \in Threads, ThreadDies(t)
      PROVE  Swept'
  BY <1>2 DEF ThreadDies
<1>3. ASSUME NEW id \in Ids, IdleTick(id)
      PROVE  Swept'
  <2>1. /\ UNCHANGED <<phase, todo, snap, pc>>
        /\ call'[Flusher].id = call[Flusher].id
    BY <1>3, TickForgives, ForgiveTyped DEF IdleTick, Actors
  <2>2. CASE live' = live
    BY <2>1, <2>2, SweptElsewhere
  <2>3. CASE live[id] # None /\ live' = [live EXCEPT ![id].idle = @ + 1]
    <3>1. live[id] \in Session
      BY <2>3 DEF TypeOK
    <3>2. \A i \in Ids : live'[i] # None =>
            live[i] # None /\ live'[i].account = live[i].account
      BY <2>3, <3>1 DEF TypeOK, Session
    <3>3. \A i \in Ids : Usable(i)' <=> Usable(i)
      BY <2>1 DEF Usable
    <3>4. QED
      BY <2>1, <3>2, <3>3, SweptStill
  <2>4. QED
    BY <1>3, <2>2, <2>3 DEF IdleTick
<1>4. ASSUME NEW id \in Ids, SnapshotAges(id)
      PROVE  Swept'
  BY <1>4 DEF SnapshotAges, Swept
<1>5. ASSUME NEW c \in Clients, GiveUp(c)
      PROVE  Swept'
  <2>1. c \in Actors /\ Flusher \in Actors /\ c # Flusher
    BY ConstantsAssumption DEF Actors
  <2>2. Return(c) /\ UNCHANGED <<phase, todo, live, snap>>
    BY <1>5 DEF GiveUp
  <2>3. pc'[Flusher] = pc[Flusher] /\ call'[Flusher] = call[Flusher]
    BY <2>1, <2>2, ReturnMoves
  <2>4. QED
    BY <2>2, <2>3, SweptElsewhere
<1>6. CASE Stop
  BY <1>6 DEF Stop, Swept
<1>7. ASSUME NEW mode \in RestoreModes, Boot(mode)
      PROVE  Swept'
  BY <1>7 DEF Boot, Swept
<1>8. QED
  BY <1>1, <1>2, <1>3, <1>4, <1>5, <1>6, <1>7 DEF Environment

LEMMA SweptHolds ==
  ASSUME ~Faults
  PROVE  Spec => []Swept
<1>1. Init => Swept
  BY DEF Init, Swept
<1>2. ASSUME Swept, UNCHANGED vars
      PROVE  Swept'
  BY <1>2, SweptElsewhere DEF vars, memory
<1>3. TypeOK /\ TypeOK' /\ LockDiscipline /\ Mail /\ Held /\ Holder
      /\ Served /\ Swept /\ [Next]_vars => Swept'
  BY <1>2, SweptRequest, SweptProgress, SweptThread, SweptFlush,
     SweptEnvironment DEF Next
<1>4. QED
  BY <1>1, <1>3, Typing, MailHolds, HeldHolds, HolderHolds, ServedHolds, PTL
     DEF Spec

\* #88, "an upgrade must not cost live sessions".  Where no thread dies, no
\* read fails and the flush is not cut short, every anonymous live session
\* has a usable snapshot when the flush returns, whatever requests were under
\* way when the signal came.
THEOREM FlushCoversFleetHolds ==
  ASSUME ~Faults
  PROVE  Spec => FlushCoversFleet
<1>1. ASSUME LockDiscipline, Swept, [Next]_vars, phase = "flushing",
             phase' = "draining"
      PROVE  \A id \in Ids : live[id] # None /\ ~live[id].account => Usable(id)
  <2>1. FlushEnd
    BY <1>1 DEF Next, vars, Request, CreateSession, BeginLive, BeginRevive,
         RefuseMissing, RefuseExpired, CloseSession, CloseAndWait, Evict,
         Progress, Submit, Persist, Release, CloneSession, Thread, RunCommand,
         RunRead, RunClose, Dies, Flush, FlushStart, FlushNext, FlushTimeout,
         Environment, PageWrites, ThreadDies, IdleTick, SnapshotAges, GiveUp,
         Stop, Boot
  <2>2. todo = {} /\ pc[Flusher] = "idle"
    BY <2>1 DEF FlushEnd
  <2>3. QED
    BY <1>1, <2>2 DEF Swept, Covered
<1>2. LockDiscipline /\ Swept /\ [Next]_vars =>
        [phase = "flushing" /\ phase' = "draining" =>
           \A id \in Ids : live[id] # None /\ ~live[id].account
                           => Usable(id)]_vars
  BY <1>1
<1>3. QED
  BY <1>2, Typing, SweptHolds, PTL DEF Spec, FlushCoversFleet

--------------------------------------------------------------------------
(* What was promised is on disk.  A request whose Ok will promise durable  *)
(* login state keeps its session: the id stays with the thread the request *)
(* was sent to, which stays ahead of what the request has seen, and past   *)
(* the capture the disk has it too.                                        *)

Bound(c) == call[c] # None /\ call[c].durable
Vow(c) ==
  Bound(c) =>
    /\ live[call[c].id] # None
    /\ live[call[c].id].thread = call[c].thread
    /\ live[call[c].id].persistent /\ ~live[call[c].id].account
    /\ ~Expired(live[call[c].id])
    /\ call[c].seen <= login[call[c].thread]
    /\ pc[c] = "holding" => /\ Usable(call[c].id)
                            /\ call[c].seen <= snap[call[c].id].login

\* What callers were told is on disk.
Kept(id) == acked[id] > 0 => Usable(id) /\ acked[id] <= snap[id].login

Timed == /\ \A c \in Clients : Vow(c)
         /\ \A id \in Ids : Kept(id)

\* A promise in the making stays what it is, or is dropped.
CallStays(c) ==
  call'[c] # None /\ call'[c].durable =>
    /\ Bound(c)
    /\ call'[c].id = call[c].id /\ call'[c].thread = call[c].thread
    /\ call'[c].seen = call[c].seen
    /\ pc'[c] = "holding" => pc[c] = "holding"

\* The session of id stays, unexpired, and so does a usable snapshot.
Stays(id) ==
  /\ live'[id] # None /\ live'[id].thread = live[id].thread
  /\ live'[id].persistent = live[id].persistent
  /\ live'[id].account = live[id].account
  /\ ~Expired(live'[id])
  /\ Usable(id) => snap'[id] # None /\ ~snap'[id].stale

LEMMA VowStep ==
  ASSUME TypeOK, TypeOK', Ahead, Course, NEW c \in Clients, Vow(c),
         CallStays(c),
         Bound(c) /\ Bound(c)' =>
           /\ Stays(call[c].id)
           /\ login[call[c].thread] <= login'[call[c].thread]
  PROVE  Vow(c)'
<1>1. SUFFICES ASSUME call'[c] # None, call'[c].durable
               PROVE  /\ live'[call'[c].id] # None
                      /\ live'[call'[c].id].thread = call'[c].thread
                      /\ live'[call'[c].id].persistent
                      /\ ~live'[call'[c].id].account
                      /\ ~Expired(live'[call'[c].id])
                      /\ call'[c].seen <= login'[call'[c].thread]
                      /\ pc'[c] = "holding" =>
                           /\ snap'[call'[c].id] # None
                           /\ ~snap'[call'[c].id].stale
                           /\ call'[c].seen <= snap'[call'[c].id].login
  BY DEF Vow, Bound, Usable
<1>2. /\ Bound(c) /\ c \in Actors
      /\ call'[c].id = call[c].id /\ call'[c].thread = call[c].thread
      /\ call'[c].seen = call[c].seen
      /\ pc'[c] = "holding" => pc[c] = "holding"
  BY <1>1 DEF CallStays, Actors
<1>3. call[c] \in Call
  BY <1>2 DEF Bound, TypeOK
<1>4. PICK id \in Ids, t \in Threads : id = call[c].id /\ t = call[c].thread
  BY <1>3 DEF Call
<1>5. /\ live[id] # None /\ live[id].thread = t
      /\ live[id].persistent /\ ~live[id].account
      /\ call[c].seen <= login[t]
      /\ pc[c] = "holding" => Usable(id) /\ call[c].seen <= snap[id].login
  BY <1>2, <1>4 DEF Vow
<1>6. Stays(id) /\ login[t] <= login'[t]
  BY <1>1, <1>2, <1>4 DEF Bound
<1>7. call[c].seen \in Nat /\ login[t] \in Nat /\ login'[t] \in Nat
  BY <1>3 DEF Call, TypeOK
<1>8. call[c].seen <= login'[t]
  BY <1>5, <1>6, <1>7
<1>9. ASSUME pc'[c] = "holding"
      PROVE  /\ snap'[id] # None /\ ~snap'[id].stale
             /\ call[c].seen <= snap'[id].login
  <2>1. /\ snap[id] # None /\ snap'[id] # None /\ ~snap'[id].stale
        /\ call[c].seen <= snap[id].login
    BY <1>2, <1>5, <1>6, <1>9 DEF Stays, Usable
  <2>2. snap[id].login \in Nat /\ snap'[id].login \in Nat
    BY <2>1 DEF TypeOK, Snapshot
  <2>3. snap[id].login <= snap'[id].login
    BY <2>1, NoRollBack
  <2>4. QED
    BY <1>7, <2>1, <2>2, <2>3
<1>10. QED
  BY <1>2, <1>4, <1>5, <1>6, <1>8, <1>9 DEF Stays

LEMMA KeptStep ==
  ASSUME TypeOK, TypeOK', Ahead, Course, NEW id \in Ids, Kept(id),
         acked'[id] \in {acked[id], 0},
         acked'[id] > 0 /\ Usable(id) => Usable(id)'
  PROVE  Kept(id)'
<1>1. SUFFICES ASSUME acked'[id] > 0
               PROVE  Usable(id)' /\ acked'[id] <= snap'[id].login
  BY DEF Kept
<1>2. acked'[id] = acked[id] /\ acked[id] \in Nat
  BY <1>1 DEF TypeOK
<1>3. Usable(id) /\ Usable(id)' /\ acked[id] <= snap[id].login
  BY <1>1, <1>2 DEF Kept
<1>4. snap[id].login \in Nat /\ snap'[id].login \in Nat
  BY <1>3 DEF TypeOK, Usable, Snapshot
<1>5. snap[id].login <= snap'[id].login
  BY <1>3, NoRollBack DEF Usable
<1>6. QED
  BY <1>2, <1>3, <1>4, <1>5

\* Sessions, pages and snapshots stay, and no promise is new.
LEMMA TimedStill ==
  ASSUME TypeOK, TypeOK', Ahead, Course, Timed,
         UNCHANGED <<live, login, snap, acked>>,
         \A c \in Clients : CallStays(c)
  PROVE  Timed'
<1>1. ASSUME NEW c \in Clients, Bound(c)
      PROVE  /\ Stays(call[c].id)
             /\ login[call[c].thread] <= login'[call[c].thread]
  <2>1. call[c] \in Call
    BY <1>1 DEF Bound, TypeOK, Actors
  <2>2. login[call[c].thread] \in Nat
    BY <2>1 DEF Call, TypeOK
  <2>3. QED
    BY <1>1, <2>2 DEF Timed, Vow, Stays, Usable
<1>2. \A c \in Clients : Vow(c)'
  BY <1>1, VowStep DEF Timed
<1>3. \A id \in Ids : Kept(id)'
  BY KeptStep DEF Timed, Usable
<1>4. QED
  BY <1>2, <1>3 DEF Timed

\* Sessions of S leave the map and snapshots of R the disk: no session a
\* promise is bound to, and no snapshot that still promises something.
LEMMA TimedRemoval ==
  ASSUME TypeOK, TypeOK', Ahead, Course, Timed, NEW S, NEW R,
         live' = Without(live, S), snap' = Without(snap, R), login' = login,
         \A c \in Clients :
           CallStays(c) /\ (Bound(c) /\ Bound(c)' => call[c].id \notin S),
         \A i \in R : i \in S \/ ~Usable(i),
         \A i \in Ids : acked'[i] \in {acked[i], 0},
         \A i \in R : acked'[i] = 0 \/ ~Usable(i)
  PROVE  Timed'
<1>1. /\ \A i \in Ids : i \notin S => live'[i] = live[i]
      /\ \A i \in Ids : i \notin R => snap'[i] = snap[i]
  BY DEF Without
<1>2. ASSUME NEW c \in Clients, Bound(c), Bound(c)'
      PROVE  /\ Stays(call[c].id)
             /\ login[call[c].thread] <= login'[call[c].thread]
  <2>1. call[c] \in Call /\ call[c].id \notin S
    BY <1>2 DEF Bound, TypeOK, Actors
  <2>2. call[c].id \in Ids /\ login[call[c].thread] \in Nat
    BY <2>1 DEF Call, TypeOK
  <2>3. QED
    BY <1>1, <1>2, <2>1, <2>2 DEF Timed, Vow, Stays, Usable
<1>3. \A c \in Clients : Vow(c)'
  BY <1>2, VowStep DEF Timed
<1>4. ASSUME NEW i \in Ids
      PROVE  Kept(i)'
  <2>1. acked'[i] > 0 /\ Usable(i) => Usable(i)'
    BY <1>1 DEF Usable
  <2>2. QED
    BY <2>1, KeptStep DEF Timed
<1>5. QED
  BY <1>3, <1>4 DEF Timed

\* A session starts on a slot no call names, under an id no promise is
\* bound to.
LEMMA VowSpawn ==
  ASSUME TypeOK, TypeOK', Ahead, Course, NEW id \in Ids, NEW t \in Threads,
         NEW kind, NEW n, Spawn(id, t, kind, n), snap' = snap,
         NEW c \in Clients, Vow(c), CallStays(c),
         Bound(c) => call[c].id # id
  PROVE  Vow(c)'
<1>1. /\ \A i \in Ids : i # id => live'[i] = live[i]
      /\ \A u \in Threads : u # t => login'[u] = login[u]
      /\ \A a \in Actors : call[a] # None => call[a].thread # t
  BY DEF Spawn, FreeThread, TypeOK
<1>2. ASSUME Bound(c)
      PROVE  /\ Stays(call[c].id)
             /\ login[call[c].thread] <= login'[call[c].thread]
  <2>1. call[c] \in Call /\ call[c].id # id /\ call[c].thread # t
    BY <1>1, <1>2 DEF Bound, TypeOK, Actors
  <2>2. /\ call[c].id \in Ids /\ call[c].thread \in Threads
        /\ login[call[c].thread] \in Nat
    BY <2>1 DEF Call, TypeOK
  <2>3. QED
    BY <1>1, <1>2, <2>1, <2>2 DEF Vow, Stays, Usable
<1>3. QED
  BY <1>2, VowStep

\* One handler moves on, and its call stays or ends; the others stay.
LEMMA OneCallStays ==
  ASSUME TypeOK, NEW c \in Actors,
         \A a \in Actors \ {c} : pc'[a] = pc[a] /\ call'[a] = call[a],
         \/ call'[c] = None \/ ~call'[c].durable
         \/ c \in Clients /\ CallStays(c)
  PROVE  \A a \in Clients : CallStays(a)
  BY DEF CallStays, Bound, Actors

LEMMA AllCallsStay ==
  ASSUME UNCHANGED <<pc, call>>
  PROVE  \A c \in Clients : CallStays(c)
  BY DEF CallStays, Bound

LEMMA ReturnStays ==
  ASSUME TypeOK, NEW c \in Actors, Return(c)
  PROVE  \A a \in Clients : CallStays(a)
  BY ReturnMoves, OneCallStays

\* After a close the promises bound to the id are off.
LEMMA ForgiveDrops ==
  ASSUME TypeOK, NEW id \in Ids, NEW a \in Actors, Forgive(id)[a] # None,
         Forgive(id)[a].durable
  PROVE  call[a] # None /\ call[a].id # id /\ Forgive(id)[a] = call[a]
<1>1. call[a] # None
  BY DEF Forgive
<1>2. call[a] \in Call
  BY <1>1 DEF TypeOK
<1>3. [call[a] EXCEPT !.durable = FALSE].durable = FALSE
  BY <1>2 DEF Call
<1>4. QED
  BY <1>1, <1>3 DEF Forgive

LEMMA ForgiveStays ==
  ASSUME TypeOK, NEW id \in Ids, call' = Forgive(id), pc' = pc
  PROVE  \A c \in Clients :
           CallStays(c) /\ (Bound(c) /\ Bound(c)' => call[c].id # id)
  BY ForgiveDrops DEF CallStays, Bound, Actors

\* A promise is bound to no session that could be revived or has expired.
LEMMA BoundIsLive ==
  ASSUME TypeOK, OneHome, NEW c \in Clients, Vow(c), Bound(c), NEW id \in Ids,
         call[c].id = id
  PROVE  /\ live[id] # None /\ dormant[id] = None /\ ~Expired(live[id])
         /\ \A renew \in BOOLEAN : ~FallsToRevive(id, renew)
         /\ \A s \in {live[id], dormant[id]} \ {None} :
              ~Expired(s) /\ s.persistent
<1>1. live[id] # None /\ ~Expired(live[id]) /\ live[id].persistent
  BY DEF Vow
<1>2. dormant[id] = None
  BY <1>1 DEF OneHome
<1>3. QED
  BY <1>1, <1>2 DEF FallsToRevive

LEMMA TimedCreate ==
  ASSUME TypeOK, TypeOK', Ahead, Course, Timed, NEW kind \in Kinds,
         CreateSession(kind)
  PROVE  Timed'
<1>1. PICK id \in Ids, t \in Threads :
        NextId(id) /\ Spawn(id, t, kind, 0) /\ Drops(id, "no")
  BY DEF CreateSession
<1>2. UNCHANGED <<pc, call, snap>> /\ live[id] = None /\ snap[id] = None
  BY <1>1 DEF CreateSession, NextId, Fresh
<1>3. \A c \in Clients : Bound(c) => call[c].id # id
  BY <1>2 DEF Timed, Vow
<1>4. \A c \in Clients : Vow(c)'
  BY <1>1, <1>2, <1>3, AllCallsStay, VowSpawn DEF Timed
<1>5. \A i \in Ids : acked'[i] \in {acked[i], 0}
  BY <1>1 DEF Drops, TypeOK
<1>6. \A i \in Ids : Kept(i)'
  BY <1>2, <1>5, KeptStep DEF Timed, Usable
<1>7. QED
  BY <1>4, <1>6 DEF Timed

LEMMA TimedBeginLive ==
  ASSUME TypeOK, TypeOK', OneHome, Ahead, Course, Timed, NEW c \in Clients,
         NEW id \in Ids, NEW renew \in BOOLEAN, NEW locked \in BOOLEAN,
         BeginLive(c, id, renew, locked)
  PROVE  Timed'
<1>1. /\ live[id] # None /\ ~Expired(live[id])
      /\ live' = [live EXCEPT ![id] = Touch(@, renew)]
      /\ Enter(c, id, live[id].thread, renew, locked, live[id])
      /\ UNCHANGED <<snap, login, acked>>
  BY DEF BeginLive
<1>2. c \in Actors /\ live[id] \in Session /\ TTL # 0
  BY <1>1, ConstantsAssumption DEF TypeOK, Actors
<1>3. LET s == Touch(live[id], renew) IN
      /\ s.thread = live[id].thread /\ s.persistent = live[id].persistent
      /\ s.account = live[id].account /\ ~Expired(s) /\ s # None
  <2>1. CASE renew
    <3>1. [live[id] EXCEPT !.idle = 0] \in Session
      BY <1>2, ConstantsAssumption DEF Session
    <3>2. QED
      BY <1>2, <2>1, <3>1, NoneAssumption DEF Touch, Session, Expired
  <2>2. CASE ~renew
    BY <1>1, <2>2 DEF Touch
  <2>3. QED
    BY <2>1, <2>2
<1>4. /\ live'[id] = Touch(live[id], renew)
      /\ \A i \in Ids : i # id => live'[i] = live[i]
  BY <1>1 DEF TypeOK
<1>5. \A a \in Actors \ {c} : pc'[a] = pc[a] /\ call'[a] = call[a]
  BY <1>1, EnterMoves
<1>6. ASSUME NEW a \in Clients, a # c
      PROVE  Vow(a)'
  <2>1. CallStays(a) /\ a \in Actors
    BY <1>5, <1>6 DEF CallStays, Bound, Actors
  <2>2. ASSUME Bound(a)
        PROVE  /\ Stays(call[a].id)
               /\ login[call[a].thread] <= login'[call[a].thread]
    <3>1. call[a] \in Call
      BY <2>1, <2>2 DEF Bound, TypeOK
    <3>2. call[a].id \in Ids /\ login[call[a].thread] \in Nat
      BY <3>1 DEF Call, TypeOK
    <3>3. QED
      BY <1>1, <1>3, <1>4, <2>2, <3>2 DEF Timed, Vow, Stays, Usable
  <2>3. QED
    BY <2>1, <2>2, VowStep DEF Timed
<1>7. Vow(c)'
  <2>1. /\ call'[c].id = id /\ call'[c].thread = live[id].thread
        /\ call'[c].durable => Promised(live[id])
        /\ call'[c].seen = 0 /\ pc'[c] = "prepared"
    BY <1>1, <1>2 DEF Enter, TypeOK
  <2>2. login'[live[id].thread] \in Nat
    BY <1>2 DEF TypeOK, Session
  <2>3. QED
    BY <1>3, <1>4, <2>1, <2>2 DEF Vow, Bound, Promised
<1>8. \A i \in Ids : Kept(i)'
  BY <1>1, KeptStep DEF Timed, Usable
<1>9. QED
  BY <1>6, <1>7, <1>8 DEF Timed

LEMMA TimedBeginRevive ==
  ASSUME TypeOK, TypeOK', OneHome, Ahead, Course, Timed, NEW c \in Clients,
         NEW id \in Ids, NEW renew \in BOOLEAN, NEW locked \in BOOLEAN,
         BeginRevive(c, id, renew, locked)
  PROVE  Timed'
<1> DEFINE kind == [persistent |-> snap[id].persistent,
                    keepalive |-> snap[id].keepalive, account |-> FALSE]
<1>1. PICK t \in Threads : /\ Spawn(id, t, kind, snap[id].login)
                           /\ Enter(c, id, t, renew, locked, kind)
  BY DEF BeginRevive
<1>2. FallsToRevive(id, renew) /\ Usable(id) /\ UNCHANGED <<snap, acked>>
  BY DEF BeginRevive
<1>3. c \in Actors /\ snap[id] \in Snapshot /\ TTL \in Nat \ {0}
  BY <1>2, ConstantsAssumption DEF TypeOK, Actors, Usable
<1>4. \A a \in Actors \ {c} : pc'[a] = pc[a] /\ call'[a] = call[a]
  BY <1>1, EnterMoves
<1>5. ASSUME NEW a \in Clients, a # c
      PROVE  Vow(a)'
  <2>1. CallStays(a) /\ a \in Actors
    BY <1>4, <1>5 DEF CallStays, Bound, Actors
  <2>2. Bound(a) => call[a].id # id
    BY <1>2, BoundIsLive DEF Timed
  <2>3. QED
    BY <1>1, <1>2, <2>1, <2>2, VowSpawn DEF Timed
<1>6. Vow(c)'
  <2>1. /\ call'[c].id = id /\ call'[c].thread = t
        /\ call'[c].durable => Promised(kind)
        /\ call'[c].seen = 0 /\ pc'[c] = "prepared"
    BY <1>1, <1>3 DEF Enter, TypeOK
  <2>2. /\ live'[id].thread = t /\ live'[id].persistent = kind.persistent
        /\ live'[id].account = kind.account /\ live'[id].idle = 0
    BY <1>1 DEF Spawn, TypeOK
  <2>3. live'[id] # None
    <3>1. /\ kind.persistent \in BOOLEAN /\ kind.keepalive \in BOOLEAN
          /\ kind.account \in BOOLEAN
      BY <1>3 DEF Snapshot
    <3>2. snap[id].login \in 0..MaxLogin
      BY <1>3 DEF Snapshot
    <3> HIDE DEF kind
    <3>3. QED
      BY <1>1, <3>1, <3>2, SpawnTyped
  <2>4. ~Expired(live'[id]) /\ login'[t] \in Nat
    BY <1>3, <2>2 DEF Expired, TypeOK
  <2>5. QED
    BY <2>1, <2>2, <2>3, <2>4 DEF Vow, Bound, Promised
<1>7. \A i \in Ids : Kept(i)'
  BY <1>2, KeptStep DEF Timed, Usable
<1>8. QED
  BY <1>5, <1>6, <1>7 DEF Timed

\* A request that finds the session gone or expired takes no promise along.
LEMMA TimedRefuse ==
  ASSUME TypeOK, TypeOK', OneHome, Ahead, Course, Timed, NEW id \in Ids,
         \/ \E renew \in BOOLEAN : RefuseMissing(id, renew)
         \/ RefuseExpired(id)
  PROVE  Timed'
<1>1. /\ live' = Without(live, {id}) /\ snap' = Without(snap, {id})
      /\ UNCHANGED <<login, pc, call>>
  BY DEF RefuseMissing, RefuseExpired
<1>2. \A c \in Clients : Bound(c) => call[c].id # id
  BY BoundIsLive DEF Timed, RefuseMissing, RefuseExpired
<1>3. \/ acked' = acked /\ ~Usable(id)
      \/ acked' = [acked EXCEPT ![id] = 0]
  BY DEF RefuseMissing, RefuseExpired, Drops
<1>4. /\ \A i \in Ids : acked'[i] \in {acked[i], 0}
      /\ acked'[id] = 0 \/ ~Usable(id)
  BY <1>3 DEF TypeOK
<1>5. QED
  BY <1>1, <1>2, <1>4, AllCallsStay, TimedRemoval

LEMMA TimedClose ==
  ASSUME TypeOK, TypeOK', Ahead, Course, Timed, NEW id \in Ids,
         live' = Without(live, {id}), snap' = Without(snap, {id}),
         login' = login, Drops(id, "over"),
         \A c \in Clients :
           CallStays(c) /\ (Bound(c) /\ Bound(c)' => call[c].id # id)
  PROVE  Timed'
<1>1. acked'[id] = 0 /\ \A i \in Ids : acked'[i] \in {acked[i], 0}
  BY DEF Drops, TypeOK
<1>2. QED
  BY <1>1, TimedRemoval

LEMMA TimedCloseAndWait ==
  ASSUME TypeOK, TypeOK', Ahead, Course, Timed, NEW c \in Clients,
         NEW id \in Ids, CloseAndWait(c, id)
  PROVE  Timed'
<1> DEFINE t == live[id].thread
           r == [id |-> id, thread |-> t, renew |-> FALSE, locked |-> TRUE,
                 durable |-> FALSE, seen |-> 0]
<1>1. login' = login /\ c \in Actors
  BY DEF CloseAndWait, Actors
<1>2. CASE /\ live[id] # None /\ live' = Without(live, {id})
           /\ snap' = Without(snap, {id}) /\ Drops(id, "over")
           /\ \/ /\ pc' = [pc EXCEPT ![c] = "closing"]
                 /\ call' = [Forgive(id) EXCEPT ![c] = r]
              \/ call' = Forgive(id) /\ pc' = pc
  <2>1. ASSUME pc' = [pc EXCEPT ![c] = "closing"],
               call' = [Forgive(id) EXCEPT ![c] = r],
               NEW a \in Clients
        PROVE  CallStays(a) /\ (Bound(a) /\ Bound(a)' => call[a].id # id)
    <3>1. a \in Actors /\ r.durable = FALSE
      BY DEF Actors
    <3> HIDE DEF r
    <3>2. CASE a = c
      <4>1. call'[a] = r
        BY <1>1, <2>1, <3>2 DEF Forgive
      <4>2. QED
        BY <3>1, <4>1 DEF CallStays, Bound
    <3>3. CASE a # c
      <4>1. call'[a] = Forgive(id)[a] /\ pc'[a] = pc[a]
        BY <1>1, <2>1, <3>1, <3>3 DEF Forgive, TypeOK
      <4>2. QED
        BY <3>1, <4>1, ForgiveDrops DEF CallStays, Bound
    <3>4. QED
      BY <3>2, <3>3
  <2>2. \A a \in Clients :
          CallStays(a) /\ (Bound(a) /\ Bound(a)' => call[a].id # id)
    BY <1>2, <2>1, ForgiveStays
  <2>3. QED
    BY <1>1, <1>2, <2>2, TimedClose
<1>3. CASE /\ live[id] = None /\ live' = live /\ pc' = pc
           /\ snap' = Without(snap, {id}) /\ call' = Forgive(id)
           /\ Drops(id, "over")
  <2>1. live' = Without(live, {id})
    BY <1>3 DEF Without, TypeOK
  <2>2. QED
    BY <1>1, <1>3, <2>1, ForgiveStays, TimedClose
<1>4. CASE UNCHANGED <<live, snap, pc, call, acked>>
  BY <1>1, <1>4, AllCallsStay, TimedStill
<1>5. QED
  BY <1>2, <1>3, <1>4 DEF CloseAndWait

LEMMA TimedEvict ==
  ASSUME TypeOK, TypeOK', OneHome, Ahead, Course, Timed, EvictExpired,
         UNCHANGED <<login, pc, call>>
  PROVE  Timed'
<1> DEFINE out  == {id \in Ids : \E s \in {live[id], dormant[id]} \ {None} :
                                   Expired(s)}
           lost == {id \in out : \E s \in {live[id], dormant[id]} \ {None} :
                                   ~s.persistent}
           aged == {id \in Ids : snap[id] # None /\ snap[id].stale}
<1>1. /\ live' = Without(live, out) /\ snap' = Without(snap, lost \cup aged)
      /\ acked' = [id \in Ids |-> IF id \in lost THEN 0 ELSE acked[id]]
  BY DEF EvictExpired
<1>2. \A c \in Clients : Bound(c) => call[c].id \notin out
  BY BoundIsLive DEF Timed
<1>3. \A i \in lost \cup aged : i \in out \/ ~Usable(i)
  BY DEF Usable
<1>4. /\ \A i \in Ids : acked'[i] \in {acked[i], 0}
      /\ \A i \in lost \cup aged : acked'[i] = 0 \/ ~Usable(i)
  BY <1>1 DEF Usable
<1> HIDE DEF out, lost, aged
<1>5. QED
  BY <1>1, <1>2, <1>3, <1>4, AllCallsStay, TimedRemoval

LEMMA TimedRequest ==
  ASSUME TypeOK, TypeOK', OneHome, Ahead, Course, Timed, Request
  PROVE  Timed'
<1>1. ASSUME NEW id \in Ids, CloseSession(id)
      PROVE  Timed'
  BY <1>1, ForgiveStays, TimedClose DEF CloseSession
<1>2. ASSUME Evict
      PROVE  Timed'
  BY <1>2, TimedEvict DEF Evict
<1>3. QED
  BY <1>1, <1>2, TimedCreate, TimedBeginLive, TimedBeginRevive, TimedRefuse,
     TimedCloseAndWait DEF Request

\* No promise gets past the capture unless the session's thread answered.
LEMMA TimedPersist ==
  ASSUME TypeOK, TypeOK', LockDiscipline, Ahead, Course, Served, Timed,
         NEW c \in Clients, Persist(c)
  PROVE  Timed'
<1>1. c \in Actors /\ UNCHANGED <<live, login, snap, acked>>
  BY Zenon DEF Persist, Actors
<1>2. CallStays(c)
  <2>1. CASE /\ ~CanCapture(call[c].id) /\ pc'[c] = "holding"
             /\ UNCHANGED <<queue, call>>
    <3>1. ~Bound(c)
      <4>1. SUFFICES ASSUME Bound(c)
                     PROVE  FALSE
        OBVIOUS
      <4>2. call[c] \in Call
        BY <1>1, <4>1 DEF Bound, TypeOK
      <4>3. PICK id \in Ids : id = call[c].id
        BY <4>2 DEF Call
      <4>4. live[id] # None /\ live[id].persistent
        BY <4>1, <4>3 DEF Timed, Vow
      <4>5. live[id].thread \in alive
        BY <4>4 DEF Served, Open
      <4>6. QED
        BY <2>1, <4>3, <4>4, <4>5 DEF CanCapture, Persists, Listening
    <3>2. QED
      BY <2>1, <3>1 DEF CallStays, Bound
  <2>2. CASE /\ pc'[c] = "capturing"
             /\ call'[c] = [call[c] EXCEPT !.thread = live[call[c].id].thread]
             /\ call[c] \in Call
    <3>1. /\ call'[c].id = call[c].id /\ call'[c].seen = call[c].seen
          /\ call'[c].durable = call[c].durable
          /\ call'[c].thread = live[call[c].id].thread
      BY <2>2 DEF Call
    <3>2. call[c] # None
      BY <2>2, NoneAssumption
    <3>3. QED
      BY <2>2, <3>1, <3>2 DEF CallStays, Bound, Timed, Vow
  <2>3. QED
    BY <2>1, <2>2, PersistMoves
<1>3. \A a \in Clients : CallStays(a)
  BY <1>1, <1>2, PersistMoves, OneCallStays
<1>4. QED
  BY <1>1, <1>3, TimedStill

LEMMA TimedProgress ==
  ASSUME TypeOK, TypeOK', LockDiscipline, Ahead, Course, Served, Timed,
         NEW c \in Clients, Progress(c) \/ CloneSession(c)
  PROVE  Timed'
<1>1. c \in Actors
  BY DEF Actors
<1>2. CASE Submit(c)
  <2>1. UNCHANGED <<live, login, snap, acked>>
    BY <1>2 DEF Submit
  <2>2. CASE Return(c)
    BY <1>1, <2>1, <2>2, ReturnStays, TimedStill
  <2>3. CASE pc' = [pc EXCEPT ![c] = "awaiting"] /\ UNCHANGED call
    <3>1. \A a \in Clients : CallStays(a)
      BY <2>3 DEF CallStays, Bound, Actors, TypeOK
    <3>2. QED
      BY <2>1, <3>1, TimedStill
  <2>4. QED
    BY <1>2, <2>2, <2>3 DEF Submit
<1>3. CASE Persist(c)
  BY <1>3, TimedPersist
<1>4. CASE Release(c)
  <2>1. /\ pc[c] = "holding" /\ Return(c) /\ UNCHANGED <<live, login, snap>>
        /\ \/ acked' = acked
           \/ Bound(c) /\ acked' = [acked EXCEPT ![call[c].id] = call[c].seen]
    <3>1. pc[c] = "holding" /\ Return(c) /\ UNCHANGED <<live, login, snap>>
      BY <1>4 DEF Release, memory
    <3>2. call[c] # None
      BY <1>1, <3>1 DEF LockDiscipline
    <3>3. QED
      BY <1>4, <3>1, <3>2 DEF Release, Bound
  <2>2. ASSUME NEW a \in Clients
        PROVE  Vow(a)'
    <3>1. CallStays(a)
      BY <1>1, <2>1, ReturnStays
    <3>2. ASSUME Bound(a)
          PROVE  /\ Stays(call[a].id)
                 /\ login[call[a].thread] <= login'[call[a].thread]
      <4>1. call[a] \in Call
        BY <3>2 DEF Bound, TypeOK, Actors
      <4>2. login[call[a].thread] \in Nat
        BY <4>1 DEF Call, TypeOK
      <4>3. QED
        BY <2>1, <3>2, <4>2 DEF Timed, Vow, Stays, Usable
    <3>3. QED
      BY <3>1, <3>2, VowStep DEF Timed
  <2>3. ASSUME NEW i \in Ids
        PROVE  Kept(i)'
    <3>1. Usable(i)' <=> Usable(i)
      BY <2>1 DEF Usable
    <3>2. CASE acked'[i] = acked[i]
      BY <3>1, <3>2, KeptStep DEF Timed
    <3>3. CASE Bound(c) /\ i = call[c].id /\ acked'[i] = call[c].seen
      <4>1. Usable(i) /\ call[c].seen <= snap[i].login
        BY <2>1, <3>3 DEF Timed, Vow
      <4>2. QED
        BY <2>1, <3>1, <3>3, <4>1 DEF Kept
    <3>4. QED
      BY <2>1, <3>2, <3>3 DEF TypeOK
  <2>4. QED
    BY <2>2, <2>3 DEF Timed
<1>5. CASE CloneSession(c)
  <2>1. PICK id \in Ids, t \in Threads :
          /\ NextId(id) /\ Spawn(id, t, live[call[c].id], call[c].seen)
          /\ Drops(id, "no")
    BY <1>5 DEF CloneSession
  <2>2. Return(c) /\ snap' = snap /\ live[id] = None /\ snap[id] = None
    BY <1>5, <2>1 DEF CloneSession, NextId, Fresh
  <2>3. \A a \in Clients : Bound(a) => call[a].id # id
    BY <2>2 DEF Timed, Vow
  <2>4. \A a \in Clients : Vow(a)'
    BY <1>1, <2>1, <2>2, <2>3, ReturnStays, VowSpawn DEF Timed
  <2>5. \A i \in Ids : acked'[i] \in {acked[i], 0}
    BY <2>1 DEF Drops, TypeOK
  <2>6. \A i \in Ids : Kept(i)'
    BY <2>2, <2>5, KeptStep DEF Timed, Usable
  <2>7. QED
    BY <2>4, <2>6 DEF Timed
<1>6. QED
  BY <1>2, <1>3, <1>4, <1>5 DEF Progress

\* The answer to the capture of a promise is newer than what was promised,
\* and it is saved.
LEMMA TimedRead ==
  ASSUME ~Faults, TypeOK, TypeOK', LockDiscipline, Mail, Held, Ahead, Course,
         Timed, NEW t \in Threads, RunRead(t)
  PROVE  Timed'
<1> DEFINE c   == Head(queue[t]).from
           s   == live[call[c].id]
           new == [snap EXCEPT ![call[c].id] = SavedState(s, login[t])]
<1>1. queue[t] # <<>> /\ UNCHANGED <<live, login, acked>>
  BY ReadMoves
<1>2. \/ c = NoOne /\ UNCHANGED <<snap, pc, call>>
      \/ /\ c # NoOne /\ pc[c] = "capturing"
         /\ pc' = [pc EXCEPT ![c] = IF c = Flusher THEN "idle" ELSE "holding"]
         /\ \/ c # Flusher /\ UNCHANGED call
            \/ c = Flusher /\ call' = [call EXCEPT ![c] = None]
         /\ \/ UNCHANGED snap /\ s.account
            \/ ~(s # None /\ s.account) /\ snap' = new
  BY ReadMoves
<1>3. c # NoOne => c \in Actors /\ call[c].thread = t
  BY <1>1, Answered
<1> HIDE DEF c, s, new
<1>4. CASE UNCHANGED <<snap, pc, call>>
  BY <1>1, <1>4, AllCallsStay, TimedStill
<1>5. ASSUME NEW b \in Actors, b = c, pc[b] = "capturing",
             call[b].thread = t,
             pc' = [pc EXCEPT ![b] = IF b = Flusher THEN "idle"
                                                    ELSE "holding"],
             \/ b # Flusher /\ UNCHANGED call
             \/ b = Flusher /\ call' = [call EXCEPT ![b] = None],
             \/ UNCHANGED snap /\ s.account
             \/ ~(s # None /\ s.account) /\ snap' = new
      PROVE  Timed'
  <2>1. call[b] \in Call /\ s # None
    BY <1>5 DEF s, LockDiscipline, TypeOK
  <2>2. PICK j \in Ids : j = call[b].id
    BY <2>1 DEF Call
  <2>3. s = live[j] /\ s \in Session /\ s.thread = t
    BY <1>5, <2>1, <2>2 DEF s, TypeOK, Held
  <2>4. /\ SavedState(s, login[t]) \in Snapshot
        /\ ~SavedState(s, login[t]).stale
        /\ SavedState(s, login[t]).login = login[t]
    BY <2>1, <2>3 DEF SavedState, Session, Snapshot, TypeOK
  <2>5. snap' = new => /\ snap'[j] = SavedState(s, login[t])
                       /\ \A i \in Ids : i # j => snap'[i] = snap[i]
    <3>1. new = [snap EXCEPT ![j] = SavedState(s, login[t])]
      BY <1>5, <2>2 DEF new
    <3>2. QED
      BY <3>1 DEF TypeOK
  <2>6. \A i \in Ids : Usable(i) => snap'[i] # None /\ ~snap'[i].stale
    BY <1>5, <2>4, <2>5, NoneAssumption DEF Usable
  <2>7. ASSUME NEW a \in Clients, Bound(a)
        PROVE  /\ Stays(call[a].id)
               /\ login[call[a].thread] <= login'[call[a].thread]
    <3>1. call[a] \in Call
      BY <2>7 DEF Bound, TypeOK, Actors
    <3>2. call[a].id \in Ids /\ call[a].thread \in Threads
      BY <3>1 DEF Call
    <3>3. login[call[a].thread] \in Nat
      BY <3>2 DEF TypeOK
    <3>4. QED
      BY <1>1, <2>6, <2>7, <3>2, <3>3 DEF Timed, Vow, Stays
  <2>8. ASSUME NEW a \in Clients, a # b
        PROVE  Vow(a)'
    <3>1. a \in Actors /\ pc'[a] = pc[a] /\ call'[a] = call[a]
      BY <1>5, <2>8 DEF Actors, TypeOK
    <3>2. CallStays(a)
      BY <3>1 DEF CallStays, Bound
    <3>3. QED
      BY <2>7, <2>8, <3>2, VowStep DEF Timed
  <2>9. ASSUME b \in Clients
        PROVE  Vow(b)'
    <3>1. call' = call /\ pc'[b] = "holding"
      BY <1>5, <2>9, ConstantsAssumption DEF TypeOK
    <3>2. SUFFICES ASSUME Bound(b)
                   PROVE  Vow(b)'
      BY <3>1 DEF Vow, Bound
    <3>3. /\ live[j] # None /\ live[j].thread = t
          /\ live[j].persistent /\ ~live[j].account
          /\ ~Expired(live[j]) /\ call[b].seen <= login[t]
      BY <1>5, <2>2, <2>9, <3>2 DEF Timed, Vow
    <3>4. /\ snap'[j] # None /\ ~snap'[j].stale
          /\ call[b].seen <= snap'[j].login
      BY <1>5, <2>3, <2>4, <2>5, <3>3, NoneAssumption
    <3>5. /\ call'[b].id = j /\ call'[b].thread = t /\ live' = live
          /\ login' = login /\ call'[b].seen = call[b].seen
      BY <1>1, <1>5, <2>2, <3>1
    <3>6. QED
      BY <3>3, <3>4, <3>5 DEF Vow, Usable
  <2>10. \A i \in Ids : Kept(i)'
    <3>1. \A i \in Ids : Usable(i) => Usable(i)'
      BY <2>6 DEF Usable
    <3>2. QED
      BY <1>1, <3>1, KeptStep DEF Timed
  <2>11. QED
    BY <2>8, <2>9, <2>10 DEF Timed
<1>6. QED
  BY <1>2, <1>3, <1>4, <1>5

\* A thread that obeys a Close serves no session, so no promise is bound to
\* it and nobody's capture ends with it.
LEMMA TimedRunClose ==
  ASSUME TypeOK, TypeOK', Mail, Ahead, Course, Served, Timed,
         NEW t \in Threads, RunClose(t)
  PROVE  Timed'
<1>1. Dies(t) /\ queue[t] # <<>> /\ Head(queue[t]).what = "close"
  BY DEF RunClose
<1>2. /\ UNCHANGED <<live, snap, acked>> /\ login' = [login EXCEPT ![t] = 0]
  BY <1>1 DEF Dies
<1>3. ~NoClose(queue[t])
  BY <1>1, TailNoClose DEF TypeOK
<1>4. ASSUME NEW a \in Clients, Bound(a)
      PROVE  call[a] \in Call /\ call[a].thread # t
  <2>1. call[a] \in Call
    BY <1>4 DEF Bound, TypeOK, Actors
  <2>2. PICK id \in Ids : id = call[a].id
    BY <2>1 DEF Call
  <2>3. live[id] # None /\ live[id].thread = call[a].thread
    BY <1>4, <2>2 DEF Timed, Vow
  <2>4. QED
    BY <1>3, <2>1, <2>3 DEF Served, Open
<1>5. ASSUME NEW a \in Clients
      PROVE  CallStays(a)
  <2>1. a \in Actors /\ a # NoOne
    BY ConstantsAssumption DEF Actors
  <2>2. CASE Bound(a)
    <3>1. ~Pending(a, t)
      BY <1>4, <2>1, <2>2 DEF Pending, Mail, Sound
    <3>2. pc'[a] = pc[a] /\ call'[a] = call[a]
      BY <1>1, <2>1, <3>1 DEF Dies
    <3>3. QED
      BY <2>2, <3>2 DEF CallStays
  <2>3. CASE ~Bound(a)
    <3>1. call'[a] \in {None, call[a]}
      BY <1>1, <2>1, DiesTyped
    <3>2. QED
      BY <2>3, <3>1 DEF CallStays, Bound
  <2>4. QED
    BY <2>2, <2>3
<1>6. ASSUME NEW a \in Clients, Bound(a)
      PROVE  /\ Stays(call[a].id)
             /\ login[call[a].thread] <= login'[call[a].thread]
  <2>1. call[a].thread \in Threads /\ login[call[a].thread] \in Nat
    BY <1>4, <1>6 DEF Call, TypeOK
  <2>2. login'[call[a].thread] = login[call[a].thread]
    BY <1>2, <1>4, <1>6, <2>1 DEF TypeOK
  <2>3. QED
    BY <1>2, <1>6, <2>1, <2>2 DEF Timed, Vow, Stays, Usable
<1>7. \A a \in Clients : Vow(a)'
  BY <1>5, <1>6, VowStep DEF Timed
<1>8. \A i \in Ids : Kept(i)'
  BY <1>2, KeptStep DEF Timed, Usable
<1>9. QED
  BY <1>7, <1>8 DEF Timed

LEMMA TimedThread ==
  ASSUME ~Faults, TypeOK, TypeOK', LockDiscipline, Mail, Held, Ahead, Course,
         Served, Timed, NEW t \in Threads, Thread(t)
  PROVE  Timed'
<1> DEFINE c == Head(queue[t]).from
<1>1. CASE RunCommand(t)
  <2>1. queue[t] # <<>> /\ UNCHANGED <<live, login, snap, acked>>
    BY <1>1, Zenon DEF RunCommand
  <2>2. \/ UNCHANGED <<pc, call>>
        \/ /\ c # NoOne /\ pc[c] = "awaiting"
           /\ pc' = [pc EXCEPT ![c] = "replied"]
           /\ call' = [call EXCEPT ![c].seen = login[t]]
        \/ c # NoOne /\ Return(c)
    BY <1>1, Zenon DEF RunCommand
  <2>3. c # NoOne => c \in Actors /\ call[c].thread = t
    BY <2>1, Answered
  <2> HIDE DEF c
  <2>4. CASE UNCHANGED <<pc, call>>
    BY <2>1, <2>4, AllCallsStay, TimedStill
  <2>5. CASE c # NoOne /\ Return(c)
    BY <2>1, <2>3, <2>5, ReturnStays, TimedStill
  <2>6. ASSUME NEW b \in Actors, pc[b] = "awaiting", call[b].thread = t,
               pc' = [pc EXCEPT ![b] = "replied"],
               call' = [call EXCEPT ![b].seen = login[t]]
        PROVE  Timed'
    <3>1. \A a \in Actors \ {b} : pc'[a] = pc[a] /\ call'[a] = call[a]
      BY <2>6 DEF TypeOK
    <3>2. ASSUME NEW a \in Clients, Bound(a)
          PROVE  /\ Stays(call[a].id)
                 /\ login[call[a].thread] <= login'[call[a].thread]
      <4>1. call[a] \in Call
        BY <3>2 DEF Bound, TypeOK, Actors
      <4>2. login[call[a].thread] \in Nat
        BY <4>1 DEF Call, TypeOK
      <4>3. QED
        BY <2>1, <3>2, <4>2 DEF Timed, Vow, Stays, Usable
    <3>3. ASSUME NEW a \in Clients, a # b
          PROVE  Vow(a)'
      <4>1. CallStays(a)
        BY <3>1, <3>3 DEF CallStays, Bound, Actors
      <4>2. QED
        BY <3>2, <4>1, VowStep DEF Timed
    <3>4. ASSUME b \in Clients
          PROVE  Vow(b)'
      <4>1. call[b] \in Call
        BY <2>6 DEF LockDiscipline, TypeOK
      <4>2. /\ call'[b] = [call[b] EXCEPT !.seen = login[t]]
            /\ pc'[b] = "replied"
        BY <2>6 DEF TypeOK
      <4>3. /\ call'[b].id = call[b].id /\ call'[b].thread = t
            /\ call'[b].durable = call[b].durable
            /\ call'[b].seen = login[t] /\ login'[t] = login[t]
            /\ live' = live /\ login[t] \in Nat /\ call[b] # None
        BY <2>1, <2>6, <4>1, <4>2, NoneAssumption DEF Call, TypeOK
      <4>4. QED
        BY <2>6, <3>4, <4>2, <4>3 DEF Timed, Vow, Bound
    <3>5. \A i \in Ids : Kept(i)'
      BY <2>1, KeptStep DEF Timed, Usable
    <3>6. QED
      BY <3>3, <3>4, <3>5 DEF Timed
  <2>7. QED
    BY <2>2, <2>3, <2>4, <2>5, <2>6
<1>2. QED
  BY <1>1, TimedRead, TimedRunClose DEF Thread

LEMMA TimedFlush ==
  ASSUME ~Faults, TypeOK, TypeOK', OneHome, Ahead, Course, Timed, Flush
  PROVE  Timed'
<1>1. Flusher \in Actors /\ Flusher \notin Clients
  BY ConstantsAssumption DEF Actors
<1>2. CASE FlushStart
  BY <1>2, TimedEvict DEF FlushStart
<1>3. ASSUME NEW id \in Ids, FlushNext(id)
      PROVE  Timed'
  <2>1. /\ UNCHANGED <<live, login, snap, acked>>
        /\ \/ UNCHANGED <<pc, call>>
           \/ \E r : /\ pc' = [pc EXCEPT ![Flusher] = "capturing"]
                     /\ call' = [call EXCEPT ![Flusher] = r]
    BY <1>3 DEF FlushNext
  <2>2. \A c \in Clients : pc'[c] = pc[c] /\ call'[c] = call[c]
    BY <1>1, <2>1 DEF TypeOK, Actors
  <2>3. \A c \in Clients : CallStays(c)
    BY <2>2 DEF CallStays, Bound
  <2>4. QED
    BY <2>1, <2>3, TimedStill
<1>4. CASE FlushTimeout
  BY <1>4 DEF FlushTimeout
<1>5. CASE FlushEnd
  BY <1>5, AllCallsStay, TimedStill DEF FlushEnd, memory
<1>6. QED
  BY <1>2, <1>3, <1>4, <1>5 DEF Flush

\* No promise stays bound to a session the idle clock takes to its limit:
\* the step that does so forgives the calls on their way.
LEMMA TimedIdleTick ==
  ASSUME TypeOK, TypeOK', Ahead, Course, Timed, NEW id \in Ids, IdleTick(id)
  PROVE  Timed'
<1>1. UNCHANGED <<snap, login, pc, acked>> /\ call' \in {call, Forgive(id)}
  BY TickForgives
<1>2. \A c \in Clients : CallStays(c)
  BY <1>1, ForgiveStays, AllCallsStay
<1>3. CASE live' = live
  BY <1>1, <1>2, <1>3, TimedStill
<1>4. CASE /\ live[id] # None /\ live[id].idle < TTL
           /\ live' = [live EXCEPT ![id].idle = @ + 1]
           /\ call' = IF Expired(live'[id]) THEN Forgive(id) ELSE call
  <2>1. live[id] \in Session
    BY <1>4 DEF TypeOK
  <2>2. /\ live' = [live EXCEPT ![id] = [live[id] EXCEPT !.idle = live[id].idle + 1]]
        /\ live[id].idle \in Nat
    BY <1>4, <2>1 DEF Session
  <2>3. /\ live'[id].thread = live[id].thread
        /\ live'[id].persistent = live[id].persistent
        /\ live'[id].account = live[id].account
        /\ \A i \in Ids : i # id => live'[i] = live[i]
    BY <2>1, <2>2 DEF TypeOK, Session
  <2>4. live'[id] # None
    <3>1. live[id].idle + 1 \in 0..TTL
      BY <1>4, <2>1 DEF Session
    <3>2. [live[id] EXCEPT !.idle = live[id].idle + 1] \in Session
      BY <2>1, <3>1 DEF Session
    <3>3. QED
      BY <2>2, <3>2, NoneAssumption DEF TypeOK
  <2>5. ASSUME NEW c \in Clients, Bound(c), Bound(c)'
        PROVE  /\ Stays(call[c].id)
               /\ login[call[c].thread] <= login'[call[c].thread]
    <3>1. call[c] \in Call
      BY <2>5 DEF Bound, TypeOK, Actors
    <3>2. call[c].id \in Ids /\ call[c].thread \in Threads
      BY <3>1 DEF Call
    <3>3. login[call[c].thread] \in Nat
      BY <3>2 DEF TypeOK
    <3>4. call[c].id = id => ~Expired(live'[id])
      BY <1>1, <1>4, <2>5, ForgiveStays
    <3>5. QED
      BY <1>1, <2>3, <2>4, <2>5, <3>2, <3>3, <3>4 DEF Timed, Vow, Stays, Usable
  <2>6. \A c \in Clients : Vow(c)'
    BY <1>2, <2>5, VowStep DEF Timed
  <2>7. \A i \in Ids : Kept(i)'
    BY <1>1, KeptStep DEF Timed, Usable
  <2>8. QED
    BY <2>6, <2>7 DEF Timed
<1>5. QED
  BY <1>3, <1>4 DEF IdleTick

LEMMA TimedEnvironment ==
  ASSUME ~Faults, TypeOK, TypeOK', LockDiscipline,
         Clocked, Ahead, Course, Timed, Environment
  PROVE  Timed'
<1>1. ASSUME NEW t \in Threads, PageWrites(t)
      PROVE  Timed'
  <2>1. /\ UNCHANGED <<live, snap, pc, call, acked>>
        /\ login' = [login EXCEPT ![t] = clock + 1]
    BY <1>1 DEF PageWrites
  <2>2. \A u \in Threads : login[u] <= login'[u]
    BY <2>1 DEF TypeOK, Clocked
  <2>3. ASSUME NEW c \in Clients, Bound(c)
        PROVE  /\ Stays(call[c].id)
               /\ login[call[c].thread] <= login'[call[c].thread]
    <3>1. call[c] \in Call
      BY <2>3 DEF Bound, TypeOK, Actors
    <3>2. call[c].id \in Ids /\ call[c].thread \in Threads
      BY <3>1 DEF Call
    <3>3. QED
      BY <2>1, <2>2, <2>3, <3>2 DEF Timed, Vow, Stays, Usable
  <2>4. \A c \in Clients : Vow(c)'
    BY <2>1, <2>3, AllCallsStay, VowStep DEF Timed
  <2>5. \A i \in Ids : Kept(i)'
    BY <2>1, KeptStep DEF Timed, Usable
  <2>6. QED
    BY <2>4, <2>5 DEF Timed
<1>2. ASSUME NEW t \in Threads, ThreadDies(t)
      PROVE  Timed'
  BY <1>2 DEF ThreadDies
<1>3. ASSUME NEW id \in Ids, SnapshotAges(id)
      PROVE  Timed'
  <2>1. /\ UNCHANGED <<live, login, pc>> /\ call' = Forgive(id)
        /\ snap' = [snap EXCEPT ![id].stale = TRUE]
        /\ acked' = [acked EXCEPT ![id] = 0]
    BY <1>3 DEF SnapshotAges, memory
  <2>2. /\ \A i \in Ids : i # id => snap'[i] = snap[i] /\ acked'[i] = acked[i]
        /\ acked'[id] = 0
    BY <2>1 DEF TypeOK
  <2>3. ASSUME NEW c \in Clients
        PROVE  Vow(c)'
    <3>1. CallStays(c) /\ (Bound(c) /\ Bound(c)' => call[c].id # id)
      BY <2>1, ForgiveStays
    <3>2. ASSUME Bound(c), call[c].id # id
          PROVE  /\ Stays(call[c].id)
                 /\ login[call[c].thread] <= login'[call[c].thread]
      <4>1. call[c] \in Call
        BY <3>2 DEF Bound, TypeOK, Actors
      <4>2. call[c].id \in Ids /\ call[c].thread \in Threads
        BY <4>1 DEF Call
      <4>3. login[call[c].thread] \in Nat
        BY <4>2 DEF TypeOK
      <4>4. QED
        BY <2>1, <2>2, <3>2, <4>2, <4>3 DEF Timed, Vow, Stays, Usable
    <3>3. QED
      BY <3>1, <3>2, VowStep DEF Timed
  <2>4. ASSUME NEW i \in Ids
        PROVE  Kept(i)'
    <3>1. acked'[i] > 0 /\ Usable(i) => Usable(i)'
      BY <2>2 DEF Usable
    <3>2. QED
      BY <2>2, <3>1, KeptStep DEF Timed
  <2>5. QED
    BY <2>3, <2>4 DEF Timed
<1>4. ASSUME NEW c \in Clients, GiveUp(c)
      PROVE  Timed'
  <2>1. c \in Actors /\ Return(c) /\ UNCHANGED <<live, login, snap, acked>>
    BY <1>4 DEF GiveUp, Actors
  <2>2. QED
    BY <2>1, ReturnStays, TimedStill
<1>5. CASE Stop
  <2>1. call' = [a \in Actors |-> None] /\ UNCHANGED <<snap, acked>>
    BY <1>5 DEF Stop
  <2>2. \A c \in Clients : Vow(c)'
    BY <2>1 DEF Vow, Bound, Actors
  <2>3. \A i \in Ids : Kept(i)'
    BY <2>1, KeptStep DEF Timed, Usable
  <2>4. QED
    BY <2>2, <2>3 DEF Timed
<1>6. ASSUME NEW mode \in RestoreModes, Boot(mode)
      PROVE  Timed'
  <2>1. /\ UNCHANGED <<live, login, pc, call, acked>>
        /\ \A c \in Clients : ~Bound(c)
    BY <1>6 DEF Boot, LockDiscipline, Bound, Actors
  <2>2. \A i \in Ids : Usable(i) => Usable(i)'
    BY <1>6 DEF Boot, Without, Usable
  <2>3. \A c \in Clients : Vow(c)'
    BY <2>1 DEF Vow, Bound
  <2>4. \A i \in Ids : Kept(i)'
    BY <2>1, <2>2, KeptStep DEF Timed
  <2>5. QED
    BY <2>3, <2>4 DEF Timed
<1>7. QED
  BY <1>1, <1>2, <1>3, <1>4, <1>5, <1>6, TimedIdleTick DEF Environment

LEMMA TimedHolds ==
  ASSUME ~Faults
  PROVE  Spec => []Timed
<1>1. Init => Timed
  BY DEF Init, Timed, Vow, Bound, Kept, Actors
<1>2. ASSUME TypeOK, TypeOK', Ahead, Course, Timed, UNCHANGED vars
      PROVE  Timed'
  BY <1>2, AllCallsStay, TimedStill DEF vars, memory
<1>3. TypeOK /\ TypeOK' /\ LockDiscipline /\ OneHome /\ Mail /\ Held /\ Clocked
      /\ Ahead /\ Served /\ Timed /\ [Next]_vars => Timed'
  BY <1>2, CourseStep, TimedRequest, TimedProgress, TimedThread, TimedFlush,
     TimedEnvironment DEF Next
<1>4. QED
  BY <1>1, <1>3, Typing, OneHomeHolds, MailHolds, HeldHolds, ClockedHolds,
     AheadHolds, ServedHolds, PTL DEF Spec

\* What a caller of a persistent session was told is done is on disk, across
\* eviction, revival, shutdown and restart, until the session is closed or its
\* snapshot ages out.  What is acknowledged is an Ok whose session did not run
\* out of idle time under the call (IdleTick).  The hypothesis is that of the
\* capture, which is best effort: threads die and reads fail nowhere.
THEOREM AckedLoginIsDurableHolds ==
  ASSUME ~Faults
  PROVE  Spec => []AckedLoginIsDurable
<1>1. Timed => AckedLoginIsDurable
  BY DEF Timed, Kept, Usable, AckedLoginIsDurable
<1>2. QED
  BY <1>1, TimedHolds, PTL
=============================================================================
