------------------------- MODULE RuntimeLoopProofs -------------------------
(***************************************************************************)
(* For every number of ops, ring size, cap, poison set and number of       *)
(* faults: the settle queue never parks a second batch, the loop's state   *)
(* keeps its types, and the loop never sleeps over an op without a waker.  *)
(***************************************************************************)
EXTENDS RuntimeLoop, SequenceTheorems, WellFoundedInduction, TLAPS

AtMostOne(q) == q = <<>> \/ \E b : q = <<b>>

\* What deliver relies on between two triplets: a fresh batch is out only
\* while nothing is parked, a parked one stays in its place while it is out.
Queue == /\ fresh \in BOOLEAN
         /\ AtMostOne(parked)
         /\ pc = "settle" /\ fresh => parked = <<>>
         /\ pc = "settle" /\ ~fresh => parked # <<>>

\* Appending to, taking from and refilling a queue of one.
LEMMA One ==
    ASSUME NEW b, NEW c
    PROVE  /\ <<b>> # <<>>
           /\ Len(<<b>>) = 1
           /\ Append(<<>>, b) = <<b>>
           /\ Tail(<<b>>) = <<>>
           /\ <<c>> \o Tail(<<b>>) = <<c>>
<1>1. /\ <<b>> \in Seq({b, c}) /\ <<c>> \in Seq({b, c}) /\ <<>> \in Seq({b, c})
  OBVIOUS
<1>2. /\ <<b>> # <<>> /\ Len(<<b>>) = 1 /\ Append(<<>>, b) = <<b>>
  OBVIOUS
<1>3. Tail(<<b>>) = <<>>
  BY <1>1
<1>4. <<c>> \o <<>> = <<c>>
  BY <1>1
<1> QED BY <1>2, <1>3, <1>4

\* Everything that leaves the queue alone and does not touch a delivery.
LEMMA Elsewhere ==
    ASSUME Queue, parked' = parked, fresh' = fresh,
           pc' = pc \/ pc' # "settle"
    PROVE  Queue'
BY DEF Queue

LEMMA QueueStep == Queue /\ [Next]_vars => Queue'
<1> SUFFICES ASSUME Queue, [Next]_vars PROVE Queue'
  OBVIOUS
<1>1. CASE DeliverParked
  <2>1. parked' = parked /\ parked # <<>> /\ fresh' = FALSE
    BY <1>1 DEF DeliverParked
  <2> QED BY <2>1 DEF Queue
<1>2. CASE DeliverFresh
  BY <1>2 DEF DeliverFresh, MayTakeFresh, Queue, Goto
<1>3. CASE BatchSettled
  <2>1. fresh' = FALSE /\ pc' # "settle"
    BY <1>3 DEF BatchSettled, Goto
  <2>2. CASE fresh
    BY <1>3, <2>1, <2>2 DEF BatchSettled, Queue
  <2>3. CASE ~fresh
    <3>1. PICK b : parked = <<b>>
      BY <1>3, <2>3 DEF BatchSettled, Queue, AtMostOne
    <3>2. parked' = <<>>
      BY <1>3, <2>3, <3>1, One DEF BatchSettled
    <3> QED BY <2>1, <3>2 DEF Queue, AtMostOne
  <2> QED BY <2>2, <2>3 DEF Queue
<1>4. CASE BatchFails
  <2> DEFINE again == [batch |-> cur, attempts |-> Tries]
  <2>1. fresh' = FALSE /\ pc' # "settle"
    BY <1>4 DEF BatchFails
  <2>2. CASE fresh
    <3>1. parked = <<>>
      BY <1>4, <2>2 DEF BatchFails, Queue
    <3>2. parked' = Append(parked, again)
      BY <1>4, <2>2 DEF BatchFails, ParkFresh
    <3>3. parked' = <<again>>
      BY <3>1, <3>2, One
    <3> QED BY <2>1, <3>3 DEF Queue, AtMostOne
  <2>3. CASE ~fresh
    <3>1. PICK b : parked = <<b>>
      BY <1>4, <2>3 DEF BatchFails, Queue, AtMostOne
    <3>2. parked' = Tail(parked) \/ parked' = <<again>> \o Tail(parked)
      BY <1>4, <2>3 DEF BatchFails
    <3>3. parked' = <<>> \/ parked' = <<again>>
      BY <3>1, <3>2, One
    <3> QED BY <2>1, <3>3 DEF Queue, AtMostOne
  <2> QED BY <2>2, <2>3 DEF Queue
<1>5. CASE Page
  BY <1>5, Elsewhere DEF Page, Call, EvaluateHeals, Reject, Handle, StartJob, hostVars, queueVars
<1>6. CASE Threads
  BY <1>6, Elsewhere DEF Threads, Finish, Post, ComeDue, DogFlags, DogTerminates, hostVars, queueVars
<1>7. CASE Pump \/ PumpTimesOut \/ Preempt
  BY <1>7, Elsewhere DEF Pump, PumpTimesOut, Preempt, PumpStart, PumpReturns, PumpEnds, Wake,
                         Goto, queueVars
<1>8. CASE Poll \/ DriveReady \/ DrivePending \/ DriveEnd \/ ModulesPolled \/ ModulesFail
           \/ DrainTakes \/ DrainRuns
  BY <1>8, Elsewhere DEF Poll, DriveReady, DrivePending, DriveEnd, ModulesPolled, ModulesFail,
                         DrainTakes, DrainRuns, Goto, hostVars, queueVars
<1>9. CASE NothingReady \/ SettleOne \/ MicrotasksDone
  BY <1>9, Elsewhere DEF NothingReady, SettleOne, MicrotasksDone, Goto, hostVars, queueVars
<1>10. CASE FireHandled \/ SwapPending \/ FireUnhandled \/ FireFails \/ Dispatched \/ Exit
  BY <1>10, Elsewhere DEF FireHandled, SwapPending, FireUnhandled, FireFails, Dispatched, Exit,
                          Goto, hostVars, queueVars
<1>11. CASE UNCHANGED vars
  BY <1>11, Elsewhere DEF vars, hostVars, queueVars
<1> QED
  BY <1>1, <1>2, <1>3, <1>4, <1>5, <1>6, <1>7, <1>8, <1>9, <1>10, <1>11 DEF Next, Pass

\* SettleQueue::deliver never lets its parked queue grow past one batch, so
\* the loop that drains it ahead of fresh work is bounded.
THEOREM OneBatchParkedHolds == Spec => []OneBatchParked
<1>1. Init => Queue
  BY DEF Init, Queue, AtMostOne
<1>2. Queue => OneBatchParked
  <2> SUFFICES ASSUME Queue PROVE Len(parked) <= 1
    BY DEF OneBatchParked
  <2>1. CASE parked = <<>>
    BY <2>1
  <2>2. CASE \E b : parked = <<b>>
    BY <2>2, One
  <2> QED BY <2>1, <2>2 DEF Queue, AtMostOne
<1> QED BY <1>1, <1>2, QueueStep, PTL DEF Spec

\* ---------------------------------------------------------------------------
\* Types.  Two facts the type invariant does not say: the passes between
\* isolate.enter() and isolate.exit() hold an entry, and a batch that is
\* delivered again comes from the parked queue.

Inside == {"drain", "requeue", "deliver", "settle", "micro", "handled", "unhandled", "exit"}

Types == /\ TypeOK
         /\ Queue
         /\ pc \in Inside => depth # 0

FlagTypes == woken \in BOOLEAN /\ stale \in BOOLEAN /\ term \in BOOLEAN /\ fresh \in BOOLEAN
HostTypes == /\ pc \in Labels
             /\ verdict \in {"none", "idle", "err", "timeout", "dropped"}
             /\ depth \in Nat
             /\ dog \in {"off", "armed", "flagged", "fired"}
             /\ faults \in 0..MaxFaults
             /\ at \in Nat \ {0}
             /\ pc \in Inside => depth # 0
TableTypes == /\ calls \in 0..MaxOps
              /\ ring \in [0..(RingSize - 1) -> Ops \cup {None}]
              /\ overflow \subseteq Ops
              /\ settledBy \in [Ops -> Ops \cup {None}]
DriverTypes == /\ futures \in Seq(Ops) /\ polled \subseteq Ops /\ finished \subseteq Ops
               /\ idx \in Nat \ {0} /\ done \in Seq(Ops)
Parcels == [batch : Seq(Ops), attempts : 1..(MAX_DELIVERY_ATTEMPTS - 1)]
QueueTypes == /\ ready \in Seq(Ops) /\ cur \in Seq(Ops)
              /\ parked \in Seq(Parcels)
              /\ dropped \subseteq Ops
TaskTypes == /\ jobs \in [Tasks -> {"none", "working", "posted", "ran"}]
             /\ tasks \subseteq Tasks /\ notDue \subseteq Tasks
             /\ later \subseteq Tasks /\ due \subseteq Tasks
RejTypes == /\ pend \in Seq(Rejections) /\ handledQ \in Seq(Rejections)
            /\ batch \in Seq(Rejections)
            /\ rej \in [Rejections -> {"none", "waiting", "fired", "handled"}]

LEMMA TypesParts ==
    Types <=> /\ FlagTypes /\ HostTypes /\ TableTypes /\ DriverTypes /\ QueueTypes /\ TaskTypes
              /\ RejTypes /\ Queue
BY DEF Types, TypeOK, FlagTypes, HostTypes, TableTypes, DriverTypes, QueueTypes, Parcels,
       TaskTypes, RejTypes

Less == {ss \in Nat \X Nat : ss[1] < ss[2]}

LEMMA LessWellFounded == IsWellFoundedOn(Less, Nat)
BY ONLY NatLessThanWellFounded DEF OpToRel, Less

LEMMA Least ==
    ASSUME NEW I \in SUBSET Nat, I # {}
    PROVE  Min(I) \in I
<1>1. \A m, n \in Nat : m < n => <<m, n>> \in Less
  <2> SUFFICES ASSUME NEW m \in Nat, NEW n \in Nat, m < n PROVE <<m, n>> \in Less
    OBVIOUS
  <2>1. <<m, n>> \in Nat \X Nat /\ <<m, n>>[1] < <<m, n>>[2]
    OBVIOUS
  <2> QED BY <2>1 DEF Less
<1>2. PICK m \in I : \A n \in I : ~(<<n, m>> \in Less)
  BY WFMin, LessWellFounded
<1>3. \A n \in I : n \in Nat /\ m \in Nat /\ ~(n < m)
  BY <1>1, <1>2
<1>4. \A n \in I : m <= n
  BY <1>3
<1> QED BY <1>4 DEF Min

LEMMA RemoveAtType ==
    ASSUME NEW S, NEW s \in Seq(S), NEW i \in 1..Len(s)
    PROVE  RemoveAt(s, i) \in Seq(S)
<1>1. SubSeq(s, 1, i - 1) \in Seq(S) /\ SubSeq(s, i + 1, Len(s)) \in Seq(S)
  BY SubSeqProperties
<1> QED BY ONLY <1>1, ConcatProperties DEF RemoveAt

LEMMA RemoveFirstType ==
    ASSUME NEW S, NEW s \in Seq(S), NEW e
    PROVE  RemoveFirst(s, e) \in Seq(S)
<1>1. CASE \E i \in 1..Len(s) : s[i] = e
  <2> DEFINE I == {i \in 1..Len(s) : s[i] = e}
  <2>1. I \in SUBSET Nat /\ I # {}
    BY <1>1
  <2>2. Min(I) \in I
    BY <2>1, Least
  <2>3. RemoveFirst(s, e) = RemoveAt(s, Min(I))
    BY <1>1, <2>1, Zenon DEF RemoveFirst, SelectInSeq
  <2>4. Min(I) \in 1..Len(s)
    BY <2>2
  <2>5. RemoveAt(s, Min(I)) \in Seq(S)
    BY <2>4, RemoveAtType
  <2> QED BY ONLY <2>3, <2>5
<1>2. CASE ~\E i \in 1..Len(s) : s[i] = e
  <2>1. RemoveFirst(s, e) = s
    BY <1>2, Zenon DEF RemoveFirst
  <2> QED BY ONLY <2>1, s \in Seq(S)
<1> QED BY <1>1, <1>2

LEMMA SwapRemoveType ==
    ASSUME NEW S, NEW s \in Seq(S), NEW i \in 1..Len(s)
    PROVE  /\ SwapRemove(s, i) \in Seq(S)
           /\ Len(SwapRemove(s, i)) = Len(s) - 1
           /\ \A j \in 1..(Len(s) - 1) : SwapRemove(s, i)[j] = IF j = i THEN s[Len(s)] ELSE s[j]
<1>1. Len(s) \in Nat /\ Len(s) >= 1
  OBVIOUS
<1>2. \A j \in 1..(Len(s) - 1) : (IF j = i THEN s[Len(s)] ELSE s[j]) \in S
  BY <1>1
<1>3. SwapRemove(s, i) \in [1..(Len(s) - 1) -> S]
  BY <1>2 DEF SwapRemove
<1>4. Len(s) - 1 \in Nat
  BY <1>1
<1>5. SwapRemove(s, i) \in Seq(S) /\ Len(SwapRemove(s, i)) = Len(s) - 1
  BY <1>3, <1>4
<1> QED BY <1>5 DEF SwapRemove

\* First and Rest cut a sequence in two.
LEMMA Cut ==
    ASSUME NEW S, NEW s \in Seq(S), NEW k \in 0..Len(s)
    PROVE  /\ First(k, s) \in Seq(S) /\ Len(First(k, s)) = k
           /\ Rest(k, s) \in Seq(S) /\ Len(Rest(k, s)) = Len(s) - k
           /\ \A i \in 1..k : First(k, s)[i] = s[i]
           /\ \A i \in 1..(Len(s) - k) : Rest(k, s)[i] = s[k + i]
<1>1. Len(s) \in Nat /\ k \in Nat /\ k <= Len(s)
  OBVIOUS
<1>2. /\ First(k, s) \in Seq(S) /\ Len(First(k, s)) = k
      /\ \A i \in 1..k : First(k, s)[i] = s[i]
  BY <1>1 DEF First
<1>3. /\ Rest(k, s) \in Seq(S) /\ Len(Rest(k, s)) = Len(s) - k
      /\ \A i \in 1..(Len(s) - k) : Rest(k, s)[i] = s[k + i]
  BY <1>1 DEF Rest
<1> QED BY <1>2, <1>3

\* ---------------------------------------------------------------------------
\* Which steps touch what.

LEMMA TableSteps ==
    ASSUME [Next]_vars
    PROVE  \/ UNCHANGED tableVars
           \/ Call
           \/ SettleOne
<1>1. CASE EvaluateHeals \/ (\E r \in Rejections : Reject(r))
           \/ (\E r \in Rejections : Handle(r)) \/ (\E t \in Tasks : StartJob(t))
  BY <1>1 DEF EvaluateHeals, Reject, Handle, StartJob, Goto, tableVars
<1>2. CASE (\E o \in Ops : Finish(o)) \/ (\E t \in Tasks : Post(t))
           \/ (\E t \in Tasks : ComeDue(t)) \/ DogFlags \/ DogTerminates
  BY <1>2 DEF Finish, Post, ComeDue, DogFlags, DogTerminates, Goto, tableVars
<1>3. CASE PumpStart \/ PumpReturns \/ PumpTimesOut \/ Preempt \/ Wake
  BY <1>3 DEF PumpStart, PumpReturns, PumpTimesOut, Preempt, Wake, PumpEnds, Goto, tableVars
<1>4. CASE Poll \/ DriveReady \/ DrivePending \/ DriveEnd \/ ModulesPolled \/ ModulesFail
           \/ DrainTakes \/ DrainRuns
  BY <1>4 DEF Poll, DriveReady, DrivePending, DriveEnd, ModulesPolled, ModulesFail, DrainTakes,
       DrainRuns, Goto, tableVars
<1>5. CASE DeliverParked \/ DeliverFresh \/ NothingReady \/ BatchSettled \/ BatchFails
           \/ MicrotasksDone \/ FireHandled \/ SwapPending \/ FireUnhandled \/ FireFails
           \/ Dispatched \/ Exit
  BY <1>5 DEF DeliverParked, DeliverFresh, NothingReady, BatchSettled, BatchFails, MicrotasksDone,
       FireHandled, SwapPending, FireUnhandled, FireFails, Dispatched, Exit, Goto, tableVars
<1>6. CASE UNCHANGED vars
  BY <1>6 DEF vars
<1> QED
  BY <1>1, <1>2, <1>3, <1>4, <1>5, <1>6 DEF Next, Page, Threads, Pump, Pass

LEMMA DriverSteps ==
    ASSUME [Next]_vars
    PROVE  \/ UNCHANGED driverVars
           \/ Call
           \/ \E o \in Ops : Finish(o)
           \/ DriveReady
           \/ DrivePending
           \/ DriveEnd
<1>1. CASE EvaluateHeals \/ (\E r \in Rejections : Reject(r))
           \/ (\E r \in Rejections : Handle(r)) \/ (\E t \in Tasks : StartJob(t))
  BY <1>1 DEF EvaluateHeals, Reject, Handle, StartJob, Goto, driverVars
<1>2. CASE (\E t \in Tasks : Post(t)) \/ (\E t \in Tasks : ComeDue(t)) \/ DogFlags
           \/ DogTerminates
  BY <1>2 DEF Post, ComeDue, DogFlags, DogTerminates, Goto, driverVars
<1>3. CASE PumpStart \/ PumpReturns \/ PumpTimesOut \/ Preempt \/ Wake
  BY <1>3 DEF PumpStart, PumpReturns, PumpTimesOut, Preempt, Wake, PumpEnds, Goto, driverVars
<1>4. CASE Poll \/ ModulesPolled \/ ModulesFail \/ DrainTakes \/ DrainRuns \/ DeliverParked
           \/ DeliverFresh \/ NothingReady
  BY <1>4 DEF Poll, ModulesPolled, ModulesFail, DrainTakes, DrainRuns, DeliverParked, DeliverFresh,
       NothingReady, Goto, driverVars
<1>5. CASE SettleOne \/ BatchSettled \/ BatchFails \/ MicrotasksDone \/ FireHandled
           \/ SwapPending \/ FireUnhandled \/ FireFails \/ Dispatched \/ Exit
  BY <1>5 DEF SettleOne, BatchSettled, BatchFails, MicrotasksDone, FireHandled, SwapPending,
       FireUnhandled, FireFails, Dispatched, Exit, Goto, driverVars
<1>6. CASE UNCHANGED vars
  BY <1>6 DEF vars
<1> QED
  BY <1>1, <1>2, <1>3, <1>4, <1>5, <1>6 DEF Next, Page, Threads, Pump, Pass

LEMMA QueueSteps ==
    ASSUME [Next]_vars
    PROVE  \/ UNCHANGED queueVars
           \/ DriveReady
           \/ DeliverParked
           \/ DeliverFresh
           \/ BatchSettled
           \/ BatchFails
<1>1. CASE Call \/ EvaluateHeals \/ (\E r \in Rejections : Reject(r))
           \/ (\E r \in Rejections : Handle(r)) \/ (\E t \in Tasks : StartJob(t))
  BY <1>1 DEF Call, EvaluateHeals, Reject, Handle, StartJob, Goto, queueVars
<1>2. CASE (\E o \in Ops : Finish(o)) \/ (\E t \in Tasks : Post(t))
           \/ (\E t \in Tasks : ComeDue(t)) \/ DogFlags \/ DogTerminates
  BY <1>2 DEF Finish, Post, ComeDue, DogFlags, DogTerminates, Goto, queueVars
<1>3. CASE PumpStart \/ PumpReturns \/ PumpTimesOut \/ Preempt \/ Wake
  BY <1>3 DEF PumpStart, PumpReturns, PumpTimesOut, Preempt, Wake, PumpEnds, Goto, queueVars
<1>4. CASE Poll \/ DrivePending \/ DriveEnd \/ ModulesPolled \/ ModulesFail \/ DrainTakes
           \/ DrainRuns \/ NothingReady
  BY <1>4 DEF Poll, DrivePending, DriveEnd, ModulesPolled, ModulesFail, DrainTakes, DrainRuns,
       NothingReady, Goto, queueVars
<1>5. CASE SettleOne \/ MicrotasksDone \/ FireHandled \/ SwapPending \/ FireUnhandled
           \/ FireFails \/ Dispatched \/ Exit
  BY <1>5 DEF SettleOne, MicrotasksDone, FireHandled, SwapPending, FireUnhandled, FireFails, Dispatched,
       Exit, Goto, queueVars
<1>6. CASE UNCHANGED vars
  BY <1>6 DEF vars
<1> QED
  BY <1>1, <1>2, <1>3, <1>4, <1>5, <1>6 DEF Next, Page, Threads, Pump, Pass

LEMMA TaskSteps ==
    ASSUME [Next]_vars
    PROVE  \/ UNCHANGED taskVars
           \/ \E t \in Tasks : StartJob(t)
           \/ \E t \in Tasks : Post(t)
           \/ \E t \in Tasks : ComeDue(t)
           \/ DrainTakes
           \/ DrainRuns
<1>1. CASE Call \/ EvaluateHeals \/ (\E r \in Rejections : Reject(r))
           \/ (\E r \in Rejections : Handle(r))
  BY <1>1 DEF Call, EvaluateHeals, Reject, Handle, Goto, taskVars
<1>2. CASE (\E o \in Ops : Finish(o)) \/ DogFlags \/ DogTerminates
  BY <1>2 DEF Finish, DogFlags, DogTerminates, Goto, taskVars
<1>3. CASE PumpStart \/ PumpReturns \/ PumpTimesOut \/ Preempt \/ Wake
  BY <1>3 DEF PumpStart, PumpReturns, PumpTimesOut, Preempt, Wake, PumpEnds, Goto, taskVars
<1>4. CASE Poll \/ DriveReady \/ DrivePending \/ DriveEnd \/ ModulesPolled \/ ModulesFail
           \/ DeliverParked \/ DeliverFresh
  BY <1>4 DEF Poll, DriveReady, DrivePending, DriveEnd, ModulesPolled, ModulesFail, DeliverParked,
       DeliverFresh, Goto, taskVars
<1>5. CASE NothingReady \/ SettleOne \/ BatchSettled \/ BatchFails \/ MicrotasksDone
           \/ FireHandled \/ SwapPending \/ FireUnhandled \/ FireFails \/ Dispatched \/ Exit
  BY <1>5 DEF NothingReady, SettleOne, BatchSettled, BatchFails, MicrotasksDone, FireHandled,
       SwapPending, FireUnhandled, FireFails, Dispatched, Exit, Goto, taskVars
<1>6. CASE UNCHANGED vars
  BY <1>6 DEF vars
<1> QED
  BY <1>1, <1>2, <1>3, <1>4, <1>5, <1>6 DEF Next, Page, Threads, Pump, Pass

LEMMA RejSteps ==
    ASSUME [Next]_vars
    PROVE  \/ UNCHANGED rejVars
           \/ \E r \in Rejections : Reject(r)
           \/ \E r \in Rejections : Handle(r)
           \/ FireHandled
           \/ SwapPending
           \/ FireUnhandled
           \/ FireFails
           \/ Dispatched
<1>1. CASE Call \/ EvaluateHeals \/ (\E t \in Tasks : StartJob(t))
  BY <1>1 DEF Call, EvaluateHeals, StartJob, Goto, rejVars
<1>2. CASE (\E o \in Ops : Finish(o)) \/ (\E t \in Tasks : Post(t))
           \/ (\E t \in Tasks : ComeDue(t)) \/ DogFlags \/ DogTerminates
  BY <1>2 DEF Finish, Post, ComeDue, DogFlags, DogTerminates, Goto, rejVars
<1>3. CASE PumpStart \/ PumpReturns \/ PumpTimesOut \/ Preempt \/ Wake
  BY <1>3 DEF PumpStart, PumpReturns, PumpTimesOut, Preempt, Wake, PumpEnds, Goto, rejVars
<1>4. CASE Poll \/ DriveReady \/ DrivePending \/ DriveEnd \/ ModulesPolled \/ ModulesFail
           \/ DrainTakes \/ DrainRuns
  BY <1>4 DEF Poll, DriveReady, DrivePending, DriveEnd, ModulesPolled, ModulesFail, DrainTakes,
       DrainRuns, Goto, rejVars
<1>5. CASE DeliverParked \/ DeliverFresh \/ NothingReady \/ SettleOne \/ BatchSettled
           \/ BatchFails \/ MicrotasksDone \/ Exit
  BY <1>5 DEF DeliverParked, DeliverFresh, NothingReady, SettleOne, BatchSettled, BatchFails,
       MicrotasksDone, Exit, Goto, rejVars
<1>6. CASE UNCHANGED vars
  BY <1>6 DEF vars
<1> QED
  BY <1>1, <1>2, <1>3, <1>4, <1>5, <1>6 DEF Next, Page, Threads, Pump, Pass

\* ---------------------------------------------------------------------------
\* Type correctness, one group of variables at a time.

LEMMA FlagTypesStep == Types /\ [Next]_vars => FlagTypes'
<1> SUFFICES ASSUME Types, [Next]_vars PROVE FlagTypes'
  OBVIOUS
<1>0. FlagTypes
  BY TypesParts
<1> USE <1>0 DEF FlagTypes
<1>1. CASE Call
  BY <1>1, Zenon DEF Call, SpawnWakes, Unwinds, Goto, hostVars, queueVars, dogVars
<1>2. CASE EvaluateHeals
  BY <1>2, Zenon DEF EvaluateHeals, SpawnWakes, Unwinds, Goto, hostVars, queueVars, dogVars
<1>3. CASE \E r \in Rejections : Reject(r)
  BY <1>3, Zenon DEF Reject, SpawnWakes, Unwinds, Goto, hostVars, queueVars, dogVars
<1>4. CASE \E r \in Rejections : Handle(r)
  BY <1>4, Zenon DEF Handle, SpawnWakes, Unwinds, Goto, hostVars, queueVars, dogVars
<1>5. CASE \E t \in Tasks : StartJob(t)
  BY <1>5, Zenon DEF StartJob, SpawnWakes, Unwinds, Goto, hostVars, queueVars, dogVars
<1>6. CASE \E o \in Ops : Finish(o)
  BY <1>6, Zenon DEF Finish, SpawnWakes, Unwinds, Goto, hostVars, queueVars, dogVars
<1>7. CASE \E t \in Tasks : Post(t)
  BY <1>7, Zenon DEF Post, SpawnWakes, Unwinds, Goto, hostVars, queueVars, dogVars
<1>8. CASE \E t \in Tasks : ComeDue(t)
  BY <1>8, Zenon DEF ComeDue, SpawnWakes, Unwinds, Goto, hostVars, queueVars, dogVars
<1>9. CASE DogFlags
  BY <1>9, Zenon DEF DogFlags, SpawnWakes, Unwinds, Goto, hostVars, queueVars, dogVars
<1>10. CASE DogTerminates
  BY <1>10, Zenon DEF DogTerminates, SpawnWakes, Unwinds, Goto, hostVars, queueVars, dogVars
<1>11. CASE PumpStart
  BY <1>11, Zenon DEF PumpStart, SpawnWakes, Unwinds, Goto, hostVars, queueVars, dogVars
<1>12. CASE PumpReturns
  BY <1>12, Zenon DEF PumpReturns, PumpEnds, SpawnWakes, Unwinds, Goto, hostVars, queueVars, dogVars
<1>13. CASE PumpTimesOut
  BY <1>13, Zenon DEF PumpTimesOut, PumpEnds, SpawnWakes, Unwinds, Goto, hostVars, queueVars, dogVars
<1>14. CASE Preempt
  BY <1>14, Zenon DEF Preempt, SpawnWakes, Unwinds, Goto, hostVars, queueVars, dogVars
<1>15. CASE Wake
  BY <1>15, Zenon DEF Wake, SpawnWakes, Unwinds, Goto, hostVars, queueVars, dogVars
<1>16. CASE Poll
  BY <1>16, Zenon DEF Poll, SpawnWakes, Unwinds, Goto, hostVars, queueVars, dogVars
<1>17. CASE DriveReady
  BY <1>17, Zenon DEF DriveReady, SpawnWakes, Unwinds, Goto, hostVars, queueVars, dogVars
<1>18. CASE DrivePending
  BY <1>18, Zenon DEF DrivePending, SpawnWakes, Unwinds, Goto, hostVars, queueVars, dogVars
<1>19. CASE DriveEnd
  BY <1>19, Zenon DEF DriveEnd, SpawnWakes, Unwinds, Goto, hostVars, queueVars, dogVars
<1>20. CASE ModulesPolled
  BY <1>20, Zenon DEF ModulesPolled, SpawnWakes, Unwinds, Goto, hostVars, queueVars, dogVars
<1>21. CASE ModulesFail
  BY <1>21, Zenon DEF ModulesFail, SpawnWakes, Unwinds, Goto, hostVars, queueVars, dogVars
<1>22. CASE DrainTakes
  BY <1>22, Zenon DEF DrainTakes, SpawnWakes, Unwinds, Goto, hostVars, queueVars, dogVars
<1>23. CASE DrainRuns
  BY <1>23, Zenon DEF DrainRuns, SpawnWakes, Unwinds, Goto, hostVars, queueVars, dogVars
<1>24. CASE DeliverParked
  BY <1>24, Zenon DEF DeliverParked, SpawnWakes, Unwinds, Goto, hostVars, queueVars, dogVars
<1>25. CASE DeliverFresh
  BY <1>25, Zenon DEF DeliverFresh, SpawnWakes, Unwinds, Goto, hostVars, queueVars, dogVars
<1>26. CASE NothingReady
  BY <1>26, Zenon DEF NothingReady, SpawnWakes, Unwinds, Goto, hostVars, queueVars, dogVars
<1>27. CASE SettleOne
  BY <1>27, Zenon DEF SettleOne, SpawnWakes, Unwinds, Goto, hostVars, queueVars, dogVars
<1>28. CASE BatchSettled
  BY <1>28, Zenon DEF BatchSettled, SpawnWakes, Unwinds, Goto, hostVars, queueVars, dogVars
<1>29. CASE BatchFails
  BY <1>29, Zenon DEF BatchFails, SpawnWakes, Unwinds, Goto, hostVars, queueVars, dogVars
<1>30. CASE MicrotasksDone
  BY <1>30, Zenon DEF MicrotasksDone, SpawnWakes, Unwinds, Goto, hostVars, queueVars, dogVars
<1>31. CASE FireHandled
  BY <1>31, Zenon DEF FireHandled, SpawnWakes, Unwinds, Goto, hostVars, queueVars, dogVars
<1>32. CASE SwapPending
  BY <1>32, Zenon DEF SwapPending, SpawnWakes, Unwinds, Goto, hostVars, queueVars, dogVars
<1>33. CASE FireUnhandled
  BY <1>33, Zenon DEF FireUnhandled, SpawnWakes, Unwinds, Goto, hostVars, queueVars, dogVars
<1>34. CASE FireFails
  BY <1>34, Zenon DEF FireFails, SpawnWakes, Unwinds, Goto, hostVars, queueVars, dogVars
<1>35. CASE Dispatched
  BY <1>35, Zenon DEF Dispatched, SpawnWakes, Unwinds, Goto, hostVars, queueVars, dogVars
<1>36. CASE Exit
  BY <1>36, Zenon DEF Exit, SpawnWakes, Unwinds, Goto, hostVars, queueVars, dogVars
<1>37. CASE UNCHANGED vars
  BY <1>37 DEF vars, SpawnWakes, Unwinds, Goto, hostVars, queueVars, dogVars
<1> QED
  BY <1>1, <1>2, <1>3, <1>4, <1>5, <1>6, <1>7, <1>8, <1>9, <1>10, <1>11, <1>12, <1>13, <1>14,
     <1>15, <1>16, <1>17, <1>18, <1>19, <1>20, <1>21, <1>22, <1>23, <1>24, <1>25, <1>26, <1>27,
     <1>28, <1>29, <1>30, <1>31, <1>32, <1>33, <1>34, <1>35, <1>36, <1>37
     DEF Next, Page, Threads, Pump, Pass

LEMMA HostTypesStep == Types /\ [Next]_vars => HostTypes'
<1> SUFFICES ASSUME Types, [Next]_vars PROVE HostTypes'
  OBVIOUS
<1>0. HostTypes
  BY TypesParts
<1> USE <1>0, SizeAssumption DEF HostTypes, Labels, Inside
<1>1. CASE Call
  BY <1>1 DEF Call, Goto, hostVars, dogVars
<1>2. CASE EvaluateHeals
  BY <1>2 DEF EvaluateHeals, Goto, hostVars, dogVars
<1>3. CASE \E r \in Rejections : Reject(r)
  BY <1>3 DEF Reject, Goto, hostVars, dogVars
<1>4. CASE \E r \in Rejections : Handle(r)
  BY <1>4 DEF Handle, Goto, hostVars, dogVars
<1>5. CASE \E t \in Tasks : StartJob(t)
  BY <1>5 DEF StartJob, Goto, hostVars, dogVars
<1>6. CASE \E o \in Ops : Finish(o)
  BY <1>6 DEF Finish, Goto, hostVars, dogVars
<1>7. CASE \E t \in Tasks : Post(t)
  BY <1>7 DEF Post, Goto, hostVars, dogVars
<1>8. CASE \E t \in Tasks : ComeDue(t)
  BY <1>8 DEF ComeDue, Goto, hostVars, dogVars
<1>9. CASE DogFlags
  BY <1>9 DEF DogFlags, Goto, hostVars, dogVars
<1>10. CASE DogTerminates
  BY <1>10 DEF DogTerminates, Goto, hostVars, dogVars
<1>11. CASE PumpStart
  BY <1>11 DEF PumpStart, Goto, hostVars, dogVars
<1>12. CASE PumpReturns
  BY <1>12 DEF PumpReturns, PumpEnds, Goto, hostVars, dogVars
<1>13. CASE PumpTimesOut
  BY <1>13 DEF PumpTimesOut, PumpEnds, Goto, hostVars, dogVars
<1>14. CASE Preempt
  BY <1>14 DEF Preempt, Goto, hostVars, dogVars
<1>15. CASE Wake
  BY <1>15 DEF Wake, Goto, hostVars, dogVars
<1>16. CASE Poll
  BY <1>16 DEF Poll, Goto, hostVars, dogVars
<1>17. CASE DriveReady
  BY <1>17 DEF DriveReady, Goto, hostVars, dogVars
<1>18. CASE DrivePending
  BY <1>18 DEF DrivePending, Goto, hostVars, dogVars
<1>19. CASE DriveEnd
  BY <1>19 DEF DriveEnd, Goto, hostVars, dogVars
<1>20. CASE ModulesPolled
  BY <1>20 DEF ModulesPolled, Goto, hostVars, dogVars
<1>21. CASE ModulesFail
  BY <1>21 DEF ModulesFail, Goto, hostVars, dogVars
<1>22. CASE DrainTakes
  BY <1>22 DEF DrainTakes, Goto, hostVars, dogVars
<1>23. CASE DrainRuns
  BY <1>23 DEF DrainRuns, Goto, hostVars, dogVars
<1>24. CASE DeliverParked
  BY <1>24 DEF DeliverParked, Goto, hostVars, dogVars
<1>25. CASE DeliverFresh
  BY <1>25 DEF DeliverFresh, Goto, hostVars, dogVars
<1>26. CASE NothingReady
  BY <1>26 DEF NothingReady, Goto, hostVars, dogVars
<1>27. CASE SettleOne
  BY <1>27 DEF SettleOne, Goto, hostVars, dogVars
<1>28. CASE BatchSettled
  BY <1>28 DEF BatchSettled, Goto, hostVars, dogVars
<1>29. CASE BatchFails
  BY <1>29 DEF BatchFails, Goto, hostVars, dogVars
<1>30. CASE MicrotasksDone
  BY <1>30 DEF MicrotasksDone, Goto, hostVars, dogVars
<1>31. CASE FireHandled
  BY <1>31 DEF FireHandled, Goto, hostVars, dogVars
<1>32. CASE SwapPending
  BY <1>32 DEF SwapPending, Goto, hostVars, dogVars
<1>33. CASE FireUnhandled
  BY <1>33 DEF FireUnhandled, Goto, hostVars, dogVars
<1>34. CASE FireFails
  BY <1>34 DEF FireFails, Goto, hostVars, dogVars
<1>35. CASE Dispatched
  BY <1>35 DEF Dispatched, Goto, hostVars, dogVars
<1>36. CASE Exit
  BY <1>36 DEF Exit, Goto, hostVars, dogVars
<1>37. CASE UNCHANGED vars
  BY <1>37 DEF vars, Goto, hostVars, dogVars
<1> QED
  BY <1>1, <1>2, <1>3, <1>4, <1>5, <1>6, <1>7, <1>8, <1>9, <1>10, <1>11, <1>12, <1>13, <1>14,
     <1>15, <1>16, <1>17, <1>18, <1>19, <1>20, <1>21, <1>22, <1>23, <1>24, <1>25, <1>26, <1>27,
     <1>28, <1>29, <1>30, <1>31, <1>32, <1>33, <1>34, <1>35, <1>36, <1>37
     DEF Next, Page, Threads, Pump, Pass

LEMMA SlotType ==
    ASSUME NEW o \in Ops
    PROVE  Id(o) \in Nat /\ Slot(o) \in 0..(RingSize - 1)
<1>1. IdSpan \in Nat \ {0} /\ RingSize \in Nat \ {0} /\ MaxOps \in Nat
  BY SizeAssumption
<1>2. Id(o) \in Nat
  BY <1>1 DEF Ops, Id
<1> QED BY <1>1, <1>2 DEF Slot

LEMMA TableTypesStep == Types /\ [Next]_vars => TableTypes'
<1> SUFFICES ASSUME Types, [Next]_vars PROVE TableTypes'
  OBVIOUS
<1> USE TypesParts, SizeAssumption
<1>1. CASE UNCHANGED tableVars
  BY <1>1 DEF TableTypes, tableVars
<1>2. CASE Call
  <2>1. calls + 1 \in Ops /\ calls' = calls + 1
    BY <1>2 DEF Call, TableTypes, Ops
  <2>2. overflow' \subseteq Ops
    <3>1. overflow' = Evicted(calls + 1)
      BY <1>2 DEF Call
    <3>2. Slot(calls + 1) \in 0..(RingSize - 1)
      BY <2>1, SlotType
    <3> QED BY <3>1, <3>2 DEF TableTypes, Evicted
  <2>3. ring' \in [0..(RingSize - 1) -> Ops \cup {None}]
    BY <1>2, <2>1 DEF Call, TableTypes
  <2> QED BY <1>2, <2>1, <2>2, <2>3 DEF Call, TableTypes, Ops
<1>3. CASE SettleOne
  <2>1. cur[at] \in Ops /\ UNCHANGED calls
    BY <1>3 DEF SettleOne, QueueTypes, HostTypes
  <2>2. CASE UNCHANGED <<ring, overflow, settledBy>>
    BY <2>1, <2>2 DEF TableTypes
  <2>3. CASE /\ settledBy' = [settledBy EXCEPT ![Holder(cur[at])] = cur[at]]
             /\ ring' = IF ring[Slot(cur[at])] = Holder(cur[at])
                        THEN [ring EXCEPT ![Slot(cur[at])] = None] ELSE ring
             /\ overflow' = overflow \ {Holder(cur[at])}
    BY <2>1, <2>3 DEF TableTypes
  <2> QED BY <1>3, <2>2, <2>3 DEF SettleOne, SettlePromise
<1> QED BY <1>1, <1>2, <1>3, TableSteps

LEMMA DriverTypesStep == Types /\ [Next]_vars => DriverTypes'
<1> SUFFICES ASSUME Types, [Next]_vars PROVE DriverTypes'
  OBVIOUS
<1> USE TypesParts DEF DriverTypes
<1>1. CASE UNCHANGED driverVars
  BY <1>1 DEF driverVars
<1>2. CASE Call
  <2>1. calls + 1 \in Ops
    BY <1>2, SizeAssumption DEF Call, TableTypes, Ops
  <2> QED BY <1>2, <2>1 DEF Call
<1>3. CASE \E o \in Ops : Finish(o)
  BY <1>3 DEF Finish
<1>4. CASE DriveReady
  <2>1. idx \in 1..Len(futures) /\ futures[idx] \in Ops
    BY <1>4 DEF DriveReady
  <2>2. futures' \in Seq(Ops)
    BY <1>4, <2>1, SwapRemoveType DEF DriveReady
  <2> QED BY <1>4, <2>1, <2>2 DEF DriveReady
<1>5. CASE DrivePending
  BY <1>5 DEF DrivePending
<1>6. CASE DriveEnd
  BY <1>6 DEF DriveEnd
<1> QED BY <1>1, <1>2, <1>3, <1>4, <1>5, <1>6, DriverSteps

LEMMA QueueTypesStep == Types /\ [Next]_vars => QueueTypes'
<1> SUFFICES ASSUME Types, [Next]_vars PROVE QueueTypes'
  OBVIOUS
<1>0. QueueTypes /\ HostTypes /\ FlagTypes /\ Queue
  BY TypesParts
<1>a. parked # <<>> => parked[1] \in Parcels /\ Tail(parked) \in Seq(Parcels)
  BY <1>0, HeadTailProperties DEF QueueTypes
<1>b. ASSUME NEW p \in Parcels PROVE p.batch \in Seq(Ops) /\ p.attempts \in 1..(MAX_DELIVERY_ATTEMPTS - 1)
  BY <1>b DEF Parcels
<1>1. CASE UNCHANGED queueVars
  BY <1>0, <1>1 DEF queueVars, QueueTypes
<1>2. CASE DriveReady
  BY <1>0, <1>2, TypesParts DEF DriveReady, DriverTypes, QueueTypes
<1>3. CASE DeliverParked
  <2>1. cur' \in Seq(Ops)
    BY <1>3, <1>a, <1>b DEF DeliverParked
  <2> QED BY <1>0, <1>3, <2>1 DEF DeliverParked, QueueTypes
<1>4. CASE DeliverFresh
  <2>1. Smaller(BatchCap, Len(ready)) \in 0..Len(ready)
    BY <1>0, SizeAssumption DEF Smaller, QueueTypes
  <2>2. cur' \in Seq(Ops) /\ ready' \in Seq(Ops)
    BY <1>0, <1>4, <2>1, Cut DEF DeliverFresh, QueueTypes
  <2> QED BY <1>0, <1>4, <2>2 DEF DeliverFresh, QueueTypes
<1>5. CASE BatchSettled
  <2>1. fresh \/ parked # <<>>
    BY <1>5, TypesParts DEF BatchSettled, Queue
  <2>2. CASE fresh
    BY <1>0, <1>5, <2>2 DEF BatchSettled, QueueTypes
  <2>3. CASE ~fresh
    BY <1>0, <1>5, <1>a, <2>1, <2>3 DEF BatchSettled, QueueTypes
  <2> QED BY <2>2, <2>3
<1>6. CASE BatchFails
  <2> DEFINE again == [batch |-> cur, attempts |-> Tries]
  <2>1. fresh \/ parked # <<>>
    BY <1>6, TypesParts DEF BatchFails, Queue
  <2>2. fresh => Tries = 1
    BY DEF Tries
  <2>3. ASSUME ~fresh, ~Poisoned(Tries)
        PROVE  Tries \in 1..(MAX_DELIVERY_ATTEMPTS - 1)
    <3>1. parked[1].attempts \in Nat
      BY <1>a, <1>b, <2>1, <2>3 DEF MAX_DELIVERY_ATTEMPTS
    <3>2. Tries = parked[1].attempts + 1
      BY <2>3 DEF Tries
    <3> QED BY <2>3, <3>1, <3>2 DEF Poisoned, MAX_DELIVERY_ATTEMPTS
  <2>4. fresh \/ ~Poisoned(Tries) => again \in Parcels
    BY <1>0, <2>2, <2>3 DEF Parcels, QueueTypes, MAX_DELIVERY_ATTEMPTS
  <2> HIDE DEF again
  <2>5. CASE fresh /\ parked' = ParkFresh(again) /\ UNCHANGED dropped
    <3>1. parked' \in Seq(Parcels)
      BY <1>0, <2>4, <2>5, AppendProperties DEF ParkFresh, QueueTypes
    <3> QED BY <1>0, <1>6, <2>5, <3>1 DEF BatchFails, QueueTypes
  <2>6. CASE ~fresh /\ parked' = Tail(parked) /\ dropped' = dropped \cup Range(cur)
    <3>1. Range(cur) \subseteq Ops
      BY <1>0 DEF Range, QueueTypes
    <3>2. parked' \in Seq(Parcels)
      BY <1>a, <2>1, <2>6
    <3> QED BY <1>0, <1>6, <2>6, <3>1, <3>2 DEF BatchFails, QueueTypes
  <2>7. CASE /\ ~fresh /\ ~Poisoned(Tries)
             /\ parked' = <<again>> \o Tail(parked) /\ UNCHANGED dropped
    <3>1. <<again>> \in Seq(Parcels)
      BY <2>4, <2>7
    <3>2. parked' \in Seq(Parcels)
      BY <1>a, <2>1, <2>7, <3>1, ConcatProperties
    <3> QED BY <1>0, <1>6, <2>7, <3>2 DEF BatchFails, QueueTypes
  <2> QED BY <1>6, <2>5, <2>6, <2>7, Zenon DEF BatchFails, again
<1> QED BY <1>1, <1>2, <1>3, <1>4, <1>5, <1>6, QueueSteps

LEMMA TaskTypesStep == Types /\ [Next]_vars => TaskTypes'
<1> SUFFICES ASSUME Types, [Next]_vars PROVE TaskTypes'
  OBVIOUS
<1> USE TypesParts DEF TaskTypes
<1>1. CASE UNCHANGED taskVars
  BY <1>1 DEF taskVars
<1>2. CASE \E t \in Tasks : StartJob(t)
  BY <1>2 DEF StartJob
<1>3. CASE (\E t \in Tasks : Post(t)) \/ (\E t \in Tasks : ComeDue(t))
  BY <1>3 DEF Post, ComeDue
<1>4. CASE DrainTakes \/ DrainRuns
  BY <1>4 DEF DrainTakes, DrainRuns
<1> QED BY <1>1, <1>2, <1>3, <1>4, TaskSteps

LEMMA RejTypesStep == Types /\ [Next]_vars => RejTypes'
<1> SUFFICES ASSUME Types, [Next]_vars PROVE RejTypes'
  OBVIOUS
<1>0. RejTypes /\ HostTypes
  BY TypesParts
<1> USE <1>0 DEF RejTypes
<1>1. CASE UNCHANGED rejVars
  BY <1>1 DEF rejVars
<1>2. CASE \E r \in Rejections : Reject(r)
  BY <1>2 DEF Reject
<1>3. CASE \E r \in Rejections : Handle(r)
  <2>1. PICK r \in Rejections : Handle(r)
    BY <1>3
  <2>2. pend' \in Seq(Rejections)
    BY <2>1, RemoveFirstType DEF Handle
  <2> QED BY <2>1, <2>2 DEF Handle
<1>4. CASE FireHandled
  <2>1. handledQ' \in Seq(Rejections)
    BY <1>4, HeadTailProperties DEF FireHandled
  <2> QED BY <1>4, <2>1 DEF FireHandled
<1>5. CASE SwapPending
  BY <1>5 DEF SwapPending
<1>7. CASE FireUnhandled
  <2>1. rej' \in [Rejections -> {"none", "waiting", "fired", "handled"}]
    BY <1>7 DEF FireUnhandled, Fired
  <2> QED BY <1>7, <2>1 DEF FireUnhandled
<1>8. CASE Dispatched
  BY <1>8 DEF Dispatched
<1>6. CASE FireFails
  <2>1. at \in 1..Len(batch)
    BY <1>6 DEF FireFails, HostTypes
  <2>2. Unfired \in Seq(Rejections)
    BY <2>1, SubSeqProperties DEF Unfired
  <2>3. pend' \in Seq(Rejections)
    BY <1>6, <2>2 DEF FireFails
  <2>4. rej' \in [Rejections -> {"none", "waiting", "fired", "handled"}]
    BY <1>6 DEF FireFails, Fired
  <2> QED BY <1>6, <2>3, <2>4 DEF FireFails
<1> QED BY <1>1, <1>2, <1>3, <1>4, <1>5, <1>6, <1>7, <1>8, RejSteps

LEMMA TypesStep == Types /\ [Next]_vars => Types'
<1> SUFFICES ASSUME Types, [Next]_vars PROVE Types'
  OBVIOUS
<1>1. FlagTypes' /\ HostTypes' /\ TableTypes' /\ DriverTypes' /\ QueueTypes'
  BY FlagTypesStep, HostTypesStep, TableTypesStep, DriverTypesStep, QueueTypesStep
<1>2. TaskTypes' /\ RejTypes' /\ Queue'
  BY TaskTypesStep, RejTypesStep, QueueStep DEF Types
<1> QED BY <1>1, <1>2 DEF Types, TypeOK, FlagTypes, HostTypes, TableTypes, DriverTypes,
           QueueTypes, Parcels, TaskTypes, RejTypes

LEMMA TypesInit == Init => Types
<1> SUFFICES ASSUME Init PROVE Types
  OBVIOUS
<1>1. FlagTypes /\ HostTypes /\ TableTypes /\ DriverTypes
  BY SizeAssumption DEF Init, FlagTypes, HostTypes, TableTypes, DriverTypes, Labels, Inside
<1>2. QueueTypes
  BY DEF Init, QueueTypes
<1>3. TaskTypes /\ RejTypes
  BY DEF Init, TaskTypes, RejTypes
<1>4. Queue
  BY DEF Init, Queue, AtMostOne
<1> QED BY <1>1, <1>2, <1>3, <1>4, TypesParts

LEMMA Typed == Spec => []Types
BY TypesInit, TypesStep, PTL DEF Spec

\* Every variable of the loop keeps its type; a parked batch has failed once
\* or twice, never three times (SettleQueue::deliver).
THEOREM TypeOKHolds == Spec => []TypeOK
<1>1. Types => TypeOK
  BY DEF Types
<1> QED BY <1>1, Typed, PTL

\* ---------------------------------------------------------------------------
\* No lost wakeup.  The op at place j of the driver is in order if it holds
\* the waker and is not ready, if the task is scheduled, or if the drive loop
\* is still to reach its place; nothing is at two places, so taking one op out
\* strips no other of its waker.

Distinct == \A i, j \in 1..Len(futures) : futures[i] = futures[j] => i = j

Asleep(o) == o \in polled /\ o \notin finished
AtRest(j) == Asleep(futures[j]) \/ woken \/ (pc = "drive" /\ j >= idx)

Wakers == /\ Distinct
          /\ \A i \in 1..Len(futures) : futures[i] <= calls
          /\ pc # "drive" => idx = 1
          /\ \A j \in 1..Len(futures) : AtRest(j)

LEMMA WakersStep == Types /\ Wakers /\ [Next]_vars => Wakers'
<1> SUFFICES ASSUME Types, Wakers, [Next]_vars PROVE Wakers'
  OBVIOUS
<1>0. HostTypes /\ TableTypes /\ DriverTypes
  BY TypesParts
<1> DEFINE n == Len(futures)
<1>1. n \in Nat /\ calls \in Nat
  BY <1>0, SizeAssumption DEF DriverTypes, TableTypes
<1>2. CASE Call
  <2>1. /\ futures' = Append(futures, calls + 1) /\ calls' = calls + 1
        /\ woken' = TRUE /\ UNCHANGED <<pc, idx>>
    BY <1>2 DEF Call, SpawnWakes, hostVars
  <2>2. calls + 1 \in Ops
    BY <1>0, <1>2, SizeAssumption DEF Call, TableTypes, Ops
  <2>3. /\ Len(futures') = n + 1 /\ futures'[n + 1] = calls + 1
        /\ \A i \in 1..n : futures'[i] = futures[i]
    BY <1>0, <2>1, <2>2, AppendProperties DEF DriverTypes
  <2>a. \A i \in 1..n : futures[i] \in Ops
    BY <1>0 DEF DriverTypes
  <2>4. \A i \in 1..n : futures[i] \in Nat /\ futures[i] <= calls
    BY <2>a, SizeAssumption DEF Wakers, Ops
  <2>5. \A i \in 1..Len(futures') : i \in 1..n \/ i = n + 1
    BY <1>1, <2>3
  <2>6. \A i \in 1..Len(futures') : futures'[i] <= calls'
    BY <1>1, <2>1, <2>3, <2>4, <2>5
  <2>7. Distinct'
    BY <1>1, <2>3, <2>4, <2>5 DEF Wakers, Distinct
  <2> QED BY <2>1, <2>6, <2>7 DEF Wakers, AtRest
<1>3. CASE \E o \in Ops : Finish(o)
  <2>1. PICK o \in Ops : Finish(o)
    BY <1>3
  <2>2. /\ UNCHANGED <<futures, polled, idx, pc, calls>>
        /\ finished' = finished \cup {o} /\ woken' = (woken \/ o \in polled)
    BY <2>1 DEF Finish, hostVars, tableVars
  <2>3. ASSUME NEW j \in 1..n PROVE AtRest(j)'
    <3>1. AtRest(j)
      BY <2>3 DEF Wakers
    <3> QED BY <2>2, <3>1, Zenon DEF AtRest, Asleep
  <2> QED BY <2>2, <2>3 DEF Wakers, Distinct
<1>4. CASE DriveReady
  <2>1. /\ idx \in 1..n /\ pc = "drive" /\ UNCHANGED <<idx, pc, woken, calls>>
        /\ futures' = SwapRemove(futures, idx)
        /\ polled' = polled \ {futures[idx]} /\ finished' = finished \ {futures[idx]}
    BY <1>0, <1>4 DEF DriveReady, HostTypes, DriverTypes, hostVars, tableVars
  <2>2. /\ Len(futures') = n - 1
        /\ \A j \in 1..(n - 1) : futures'[j] = IF j = idx THEN futures[n] ELSE futures[j]
    BY <1>0, <2>1, SwapRemoveType DEF DriverTypes
  <2>3. Distinct' /\ \A i \in 1..Len(futures') : futures'[i] <= calls'
    BY <1>1, <2>1, <2>2 DEF Wakers, Distinct
  <2>4. ASSUME NEW j \in 1..(n - 1), j < idx PROVE AtRest(j)'
    <3>1. AtRest(j) /\ futures'[j] = futures[j] /\ futures[j] # futures[idx] /\ ~(j >= idx)
      BY <1>1, <2>1, <2>2, <2>4 DEF Wakers, Distinct
    <3>2. Asleep(futures[j]) \/ woken
      BY <3>1, Zenon DEF AtRest
    <3> QED BY <2>1, <3>1, <3>2, Zenon DEF AtRest, Asleep
  <2>5. ASSUME NEW j \in 1..(n - 1), ~(j < idx) PROVE AtRest(j)'
    <3>1. j >= idx /\ idx' = idx /\ pc' = "drive"
      BY <1>0, <1>1, <2>1, <2>5
    <3> QED BY <3>1 DEF AtRest
  <2>6. \A j \in 1..(n - 1) : AtRest(j)'
    BY <2>4, <2>5
  <2> QED BY <2>1, <2>2, <2>3, <2>6 DEF Wakers
<1>5. CASE DrivePending
  <2>1. /\ idx \in 1..n /\ pc = "drive" /\ UNCHANGED <<futures, finished, pc, woken, calls>>
        /\ idx' = idx + 1
        /\ futures[idx] \notin finished /\ polled' = polled \cup {futures[idx]}
    BY <1>0, <1>5 DEF DrivePending, HostTypes, DriverTypes, hostVars, tableVars
  <2>2. ASSUME NEW j \in 1..n, j < idx PROVE AtRest(j)'
    <3>1. AtRest(j) /\ ~(j >= idx)
      BY <1>1, <2>1, <2>2 DEF Wakers
    <3>2. Asleep(futures[j]) \/ woken
      BY <3>1, Zenon DEF AtRest
    <3> QED BY <2>1, <3>2, Zenon DEF AtRest, Asleep
  <2>3. ASSUME NEW j \in 1..n, j = idx PROVE AtRest(j)'
    <3>1. futures'[j] \in polled' /\ futures'[j] \notin finished'
      BY <2>1, <2>3
    <3> QED BY <3>1 DEF AtRest, Asleep
  <2>4. ASSUME NEW j \in 1..n, j > idx PROVE AtRest(j)'
    <3>1. j >= idx' /\ pc' = "drive"
      BY <1>1, <2>1, <2>4
    <3> QED BY <3>1 DEF AtRest
  <2>5. \A j \in 1..n : j < idx \/ j = idx \/ j > idx
    BY <1>1, <2>1
  <2>6. \A j \in 1..n : AtRest(j)'
    BY <2>2, <2>3, <2>4, <2>5
  <2> QED BY <2>1, <2>6 DEF Wakers, Distinct
<1>6. CASE DriveEnd
  <2>1. /\ idx > n /\ idx' = 1 /\ pc' # "drive"
        /\ UNCHANGED <<futures, polled, finished, woken, calls>>
    BY <1>6 DEF DriveEnd, Goto, tableVars
  <2>2. ASSUME NEW j \in 1..n PROVE AtRest(j)'
    <3>1. AtRest(j) /\ ~(j >= idx)
      BY <1>0, <1>1, <2>1 DEF Wakers, DriverTypes
    <3>2. Asleep(futures[j]) \/ woken
      BY <3>1, Zenon DEF AtRest
    <3> QED BY <2>1, <3>2, Zenon DEF AtRest, Asleep
  <2> QED BY <2>1, <2>2 DEF Wakers, Distinct
<1>7. CASE Poll
  <2>1. /\ pc = "poll" /\ pc' = "drive" /\ idx' = 1
        /\ UNCHANGED <<futures, polled, finished, calls>>
    BY <1>7 DEF Poll, Goto, driverVars, tableVars, Wakers
  <2>2. \A j \in 1..n : AtRest(j)'
    BY <1>1, <2>1 DEF AtRest
  <2> QED BY <2>1, <2>2 DEF Wakers, Distinct
<1>8. ASSUME UNCHANGED <<futures, polled, finished, idx, calls>>,
             woken' = woken \/ woken' = TRUE,
             pc' = pc \/ (pc # "drive" /\ pc' # "drive")
      PROVE  Wakers'
  <2>1. ASSUME NEW j \in 1..n PROVE AtRest(j)'
    <3>1. AtRest(j)
      BY DEF Wakers
    <3>2. futures' = futures /\ polled' = polled /\ finished' = finished /\ idx' = idx
      BY <1>8
    <3>3. CASE Asleep(futures[j])
      BY <3>2, <3>3, Zenon DEF AtRest, Asleep
    <3>4. CASE woken
      <4>1. woken'
        BY <1>8, <3>4, Zenon
      <4> QED BY <4>1, Zenon DEF AtRest
    <3>5. CASE pc = "drive" /\ j >= idx
      <4>1. pc' = pc
        BY <1>8, <3>5
      <4> QED BY <3>2, <3>5, <4>1, Zenon DEF AtRest
    <3> QED BY <3>1, <3>3, <3>4, <3>5, Zenon DEF AtRest
  <2> QED BY <1>8, <2>1 DEF Wakers, Distinct
<1>9. CASE EvaluateHeals \/ (\E r \in Rejections : Reject(r) \/ Handle(r))
           \/ (\E t \in Tasks : StartJob(t) \/ Post(t) \/ ComeDue(t))
           \/ DogFlags \/ DogTerminates
  BY <1>8, <1>9 DEF EvaluateHeals, Reject, Handle, StartJob, Post, ComeDue, DogFlags, DogTerminates,
                    hostVars, tableVars, driverVars
<1>10. CASE PumpStart \/ PumpReturns \/ PumpTimesOut \/ Preempt \/ Wake
  BY <1>8, <1>10 DEF PumpStart, PumpReturns, PumpTimesOut, Preempt, Wake, PumpEnds, Goto,
                     tableVars, driverVars
<1>11. CASE ModulesPolled \/ ModulesFail \/ DrainTakes \/ DrainRuns \/ DeliverParked
            \/ DeliverFresh \/ NothingReady
  BY <1>8, <1>11 DEF ModulesPolled, ModulesFail, DrainTakes, DrainRuns, DeliverParked,
                     DeliverFresh, NothingReady, Goto, tableVars, driverVars
<1>12. CASE SettleOne \/ BatchSettled \/ BatchFails \/ MicrotasksDone
  BY <1>8, <1>12 DEF SettleOne, BatchSettled, BatchFails, MicrotasksDone, Goto,
                     hostVars, tableVars, driverVars
<1>13. CASE FireHandled \/ SwapPending \/ FireUnhandled \/ FireFails \/ Dispatched \/ Exit
  BY <1>8, <1>13 DEF FireHandled, SwapPending, FireUnhandled, FireFails, Dispatched, Exit, Goto,
                     hostVars, tableVars, driverVars
<1>14. CASE UNCHANGED vars
  BY <1>8, <1>14 DEF vars, hostVars, tableVars, driverVars
<1> QED BY <1>2, <1>3, <1>4, <1>5, <1>6, <1>7, <1>9, <1>10, <1>11, <1>12, <1>13, <1>14
        DEF Next, Page, Threads, Pump, Pass

LEMMA Woken == Spec => []Wakers
<1>1. Init => Wakers
  BY DEF Init, Wakers, Distinct
<1> QED BY <1>1, WakersStep, Typed, PTL DEF Spec

\* A parked loop that nobody scheduled sleeps only over ops that were polled
\* since they were born and are not ready, so whatever they wait for will wake
\* it, for any number of ops born at any point of the pass (OpDriver::spawn,
\* drive_with).
THEOREM NoLostWakeupHolds == Spec => []NoLostWakeup
<1>1. Types /\ Wakers => NoLostWakeup
  <2> SUFFICES ASSUME Types, Wakers, pc = "parked", ~woken
               PROVE  \A o \in Range(futures) : o \in polled /\ o \notin finished
    BY Zenon DEF NoLostWakeup
  <2> TAKE o \in Range(futures)
  <2>1. PICK j \in 1..Len(futures) : futures[j] = o
    BY DEF Range
  <2>2. AtRest(j)
    BY DEF Wakers
  <2> QED BY <2>1, <2>2, Zenon DEF AtRest, Asleep
<1> QED BY <1>1, Typed, Woken, PTL
=============================================================================
