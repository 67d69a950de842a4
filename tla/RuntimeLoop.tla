---------------------------- MODULE RuntimeLoop ----------------------------
(***************************************************************************)
(* The event loop of diting_runtime for one isolate, with the host that    *)
(* pumps it.  One pass of Vm::poll_event_loop drives the async op futures, *)
(* polls modules, drains V8's foreground tasks, delivers completed ops     *)
(* into JS in batches, runs microtasks and fires rejection events.  Around *)
(* it: the page's JS (new op calls, rejections), the reactor (an op's work *)
(* is ready), V8's worker threads (foreground posts), the watchdog thread  *)
(* (terminates JS at any moment) and the host's pump, whose budget may run *)
(* out or which a session command may preempt.                             *)
(*                                                                         *)
(* Payloads, scripts and module graphs are left out.  What a foreground    *)
(* task does inside V8 is external: it counts as run.                      *)
(***************************************************************************)
EXTENDS Integers, SequencesExt

CONSTANTS
    MaxOps,      \* bound: async op calls the page makes
    RingSize,    \* slots of the promise ring (RING_SIZE, 4096)
    IdSpan,      \* promise ids before they wrap (& 0x7fffffff)
    BatchCap,    \* triplets per fresh delivery (BATCH_CAP, 512)
    Poison,      \* ops whose settle call throws
    Tasks,       \* background engine jobs, each posting one foreground task
    Rejections,  \* promises the page may leave rejected
    MaxFaults,   \* bound: watchdog fires, module errors, throwing listeners
    None

MAX_DELIVERY_ATTEMPTS == 3

Ops == 1..MaxOps

ASSUME SizeAssumption == /\ MaxOps \in Nat
                         /\ RingSize \in Nat \ {0}
                         /\ IdSpan \in Nat \ {0}
                         /\ IdSpan % RingSize = 0
                         /\ BatchCap \in Nat \ {0}
                         /\ MaxFaults \in Nat
ASSUME NameAssumption == None \notin Ops /\ Poison \subseteq Ops

VARIABLES
    pc,         \* where the loop's thread is
    verdict,    \* how the last pass, then the last pump, ended
    depth,      \* isolate entries not yet exited by the loop
    woken,      \* the loop task is scheduled to be polled again
    calls,      \* op calls so far; call o got promise id Id(o)
    ring,       \* promiseRing: slot -> the call whose promise sits there
    overflow,   \* promiseMap: promises evicted from the ring
    settledBy,  \* whose triplet settled the promise of each call
    futures,    \* OpDriver.futures
    polled,     \* futures polled at least once, so holding a waker
    finished,   \* futures whose work is ready, to be seen at the next poll
    idx,        \* the drive loop's index
    done,       \* completion order (history)
    ready,      \* SettleQueue.ready
    parked,     \* SettleQueue.parked
    fresh,      \* the batch in delivery came from ready
    cur,        \* the batch in delivery
    batch,      \* the rejections being fired
    at,         \* next item of cur or of batch
    dropped,    \* ops of batches dropped as poison
    jobs,       \* what became of each background job
    tasks,      \* ForegroundEntry.tasks
    notDue,     \* posted tasks whose delay has not passed
    later, due, \* drain's locals
    pend,       \* RejectionState.pending
    handledQ,   \* RejectionState.pending_handled
    rej,        \* what became of each rejection (history)
    dog,        \* the pump's watchdog thread
    stale,      \* stale_termination
    term,       \* V8's terminate request is pending
    faults      \* counter for MaxFaults

hostVars == <<pc, verdict, depth>>
tableVars == <<calls, ring, overflow, settledBy>>
driverVars == <<futures, polled, finished, idx, done>>
queueVars == <<ready, parked, fresh, cur, dropped>>
taskVars == <<jobs, tasks, notDue, later, due>>
rejVars == <<pend, handledQ, batch, rej>>
dogVars == <<dog, stale, term>>
vars == <<hostVars, woken, tableVars, driverVars, queueVars, at, taskVars,
          rejVars, dogVars, faults>>

First(k, s) == SubSeq(s, 1, k)
Rest(k, s) == SubSeq(s, k + 1, Len(s))
Smaller(a, b) == IF a < b THEN a ELSE b

\* ---------------------------------------------------------------------------
\* The promise table of the PRELUDE.

Id(o) == o % IdSpan
Slot(o) == Id(o) % RingSize

\* Mutant: the id no longer rides along in the slot.
HolderBySlot(o) == IF ring[Slot(o)] # None THEN ring[Slot(o)]
                   ELSE IF overflow # {} THEN CHOOSE p \in overflow : TRUE ELSE None

\* The call whose promise a settle with o's id finds; None is absorbed.
Holder(o) ==
    LET inRing == ring[Slot(o)]
        inMap == {p \in overflow : Id(p) = Id(o)}
    IN IF inRing # None /\ Id(inRing) = Id(o) THEN inRing
       ELSE IF inMap # {} THEN CHOOSE p \in inMap : TRUE
       ELSE None

\* A new promise in o's slot sends the pending one there to the map.
Evicted(o) == overflow \cup ({ring[Slot(o)]} \ {None})

\* Calls whose id may still be looked up: unsettled, or waiting to be
\* delivered again.
Queued == Range(ready) \cup Range(cur) \cup UNION {Range(parked[i].batch) : i \in 1..Len(parked)}
Live == {p \in 1..calls : settledBy[p] = None} \cup Queued

\* __diting_settle: an unknown id is absorbed.
SettlePromise(o) ==
    LET p == Holder(o)
    IN IF p = None THEN UNCHANGED <<ring, overflow, settledBy>>
       ELSE /\ settledBy' = [settledBy EXCEPT ![p] = o]
            /\ ring' = IF ring[Slot(o)] = p THEN [ring EXCEPT ![Slot(o)] = None] ELSE ring
            /\ overflow' = overflow \ {p}

\* ---------------------------------------------------------------------------
\* The page.  Its JS runs between pumps (evaluate and the other entry
\* points), in the microtask drain and inside rejection handlers; never while
\* a terminate is pending.

PageMayRun == ~term /\ pc \in {"out", "micro", "handled", "unhandled"}

\* Mutant: a newborn future waits for somebody else's wake.
SpawnSleeps == woken

\* OpDriver::spawn wakes the loop: only a first poll gives the future a waker.
SpawnWakes == TRUE

\* __diting_register, then OpDriver::spawn.  The guard on ids is the limit the
\* code documents: no call stays live while 2^31 others are made.
Call ==
    /\ PageMayRun /\ calls < MaxOps
    /\ LET o == calls + 1 IN
       /\ \A p \in Live : Id(p) # Id(o)
       /\ calls' = o
       /\ overflow' = Evicted(o)
       /\ ring' = [ring EXCEPT ![Slot(o)] = o]
       /\ futures' = Append(futures, o)
    /\ woken' = SpawnWakes
    /\ UNCHANGED <<hostVars, settledBy, polled, finished, idx, done, queueVars,
                   at, taskVars, rejVars, dogVars, faults>>

\* promise_reject_callback, PromiseRejectWithNoHandler.
Reject(r) ==
    /\ PageMayRun /\ rej[r] = "none"
    /\ rej' = [rej EXCEPT ![r] = "waiting"]
    /\ pend' = Append(pend, r)
    /\ UNCHANGED <<hostVars, woken, tableVars, driverVars, queueVars, at,
                   taskVars, handledQ, batch, dogVars, faults>>

\* promise_reject_callback, PromiseHandlerAddedAfterReject: withdrawn if it
\* still waits in pending (a promise waits there at most once), else a
\* rejectionhandled event is queued.
Handle(r) ==
    /\ PageMayRun /\ rej[r] \in {"waiting", "fired"}
    /\ rej' = [rej EXCEPT ![r] = "handled"]
    /\ pend' = RemoveFirst(pend, r)
    /\ handledQ' = IF r \in Range(pend) THEN handledQ ELSE Append(handledQ, r)
    /\ UNCHANGED <<hostVars, woken, tableVars, driverVars, queueVars, at,
                   taskVars, batch, dogVars, faults>>

\* The page starts work V8 does on its own threads (wasm compilation).
StartJob(t) ==
    /\ PageMayRun /\ jobs[t] = "none"
    /\ jobs' = [jobs EXCEPT ![t] = "working"]
    /\ UNCHANGED <<hostVars, woken, tableVars, driverVars, queueVars, at, tasks,
                   notDue, later, due, rejVars, dogVars, faults>>

\* evaluate clears a stray terminate and retries.
EvaluateHeals ==
    /\ pc = "out" /\ term
    /\ term' = FALSE
    /\ UNCHANGED <<hostVars, woken, tableVars, driverVars, queueVars, at,
                   taskVars, rejVars, dog, stale, faults>>

\* ---------------------------------------------------------------------------
\* The other threads.

\* A future's work is ready; the wake goes through the waker it was polled with.
Finish(o) ==
    /\ o \in Range(futures) \ finished
    /\ finished' = finished \cup {o}
    /\ woken' = (woken \/ o \in polled)
    /\ UNCHANGED <<hostVars, tableVars, futures, polled, idx, done, queueVars,
                   at, taskVars, rejVars, dogVars, faults>>

\* A V8 worker posts its foreground task, at once or with a delay.
Post(t) ==
    /\ jobs[t] = "working"
    /\ jobs' = [jobs EXCEPT ![t] = "posted"]
    /\ tasks' = tasks \cup {t}
    /\ \E delayed \in BOOLEAN : notDue' = IF delayed THEN notDue \cup {t} ELSE notDue
    /\ woken' = TRUE
    /\ UNCHANGED <<hostVars, tableVars, driverVars, queueVars, at, later, due,
                   rejVars, dogVars, faults>>

\* A delay passes; nothing wakes the loop for it.
ComeDue(t) ==
    /\ t \in notDue
    /\ notDue' = notDue \ {t}
    /\ UNCHANGED <<hostVars, woken, tableVars, driverVars, queueVars, at, jobs,
                   tasks, later, due, rejVars, dogVars, faults>>

\* The watchdog's budget is over: first its flag, then the terminate.
DogFlags ==
    /\ dog = "armed" /\ faults < MaxFaults
    /\ dog' = "flagged" /\ stale' = TRUE /\ faults' = faults + 1
    /\ UNCHANGED <<hostVars, woken, tableVars, driverVars, queueVars, at,
                   taskVars, rejVars, term>>

DogTerminates ==
    /\ dog = "flagged"
    /\ dog' = "fired" /\ term' = TRUE
    /\ UNCHANGED <<hostVars, woken, tableVars, driverVars, queueVars, at,
                   taskVars, rejVars, stale, faults>>

\* ---------------------------------------------------------------------------
\* The host's pump around run_event_loop.

Goto(label) == pc' = label /\ UNCHANGED <<verdict, depth>>

\* arm_watchdog, then heal_termination_at_loop_entry, whose probe runs
\* through evaluate and so clears any pending terminate.
PumpStart ==
    /\ pc = "out"
    /\ pc' = "poll" /\ verdict' = "none" /\ UNCHANGED depth
    /\ dog' = "armed" /\ stale' = FALSE /\ term' = FALSE
    /\ UNCHANGED <<woken, tableVars, driverVars, queueVars, at, taskVars, rejVars, faults>>

\* disarm_watchdog: the thread is joined; if it fired, V8 is revived.
PumpEnds(how) ==
    /\ pc' = "out" /\ verdict' = how /\ UNCHANGED depth
    /\ dog' = "off"
    /\ LET shot == dog \in {"flagged", "fired"} IN
       /\ stale' = (stale /\ ~shot)
       /\ term' = (term /\ ~shot)
    /\ UNCHANGED <<woken, tableVars, driverVars, queueVars, at, taskVars, rejVars, faults>>

PumpReturns == pc = "end" /\ PumpEnds(verdict)

PumpTimesOut == pc = "parked" /\ PumpEnds("timeout")

\* A session command drops the pump's future: Drop joins the thread but
\* revives nothing.
Preempt ==
    /\ pc = "parked"
    /\ pc' = "out" /\ verdict' = "dropped" /\ UNCHANGED depth
    /\ dog' = "off" /\ term' = (term \/ dog = "flagged")
    /\ UNCHANGED <<stale, woken, tableVars, driverVars, queueVars, at, taskVars, rejVars, faults>>

Wake ==
    /\ pc = "parked" /\ woken
    /\ Goto("poll")
    /\ UNCHANGED <<woken, tableVars, driverVars, queueVars, at, taskVars, rejVars, dogVars, faults>>

\* ---------------------------------------------------------------------------
\* One pass of poll_event_loop.

\* The poll-boundary heal; the task's wake is consumed; wakers are registered.
Poll ==
    /\ pc = "poll"
    /\ Goto("drive")
    /\ stale' = FALSE /\ term' = (term /\ ~stale)
    /\ woken' = FALSE
    /\ UNCHANGED <<tableVars, driverVars, queueVars, at, taskVars,
                   rejVars, dog, faults>>

\* swap_remove: the last future takes the vacated place.
SwapRemove(s, i) == LET n == Len(s)
                    IN [j \in 1..(n - 1) |-> IF j = i THEN s[n] ELSE s[j]]

DriveReady ==
    /\ pc = "drive" /\ idx <= Len(futures) /\ futures[idx] \in finished
    /\ done' = Append(done, futures[idx])
    /\ ready' = Append(ready, futures[idx])
    /\ futures' = SwapRemove(futures, idx)
    /\ polled' = polled \ {futures[idx]} /\ finished' = finished \ {futures[idx]}
    /\ UNCHANGED <<hostVars, woken, tableVars, idx, parked,
                   fresh, cur, dropped, at, taskVars, rejVars, dogVars, faults>>

DrivePending ==
    /\ pc = "drive" /\ idx <= Len(futures) /\ futures[idx] \notin finished
    /\ polled' = polled \cup {futures[idx]}
    /\ idx' = idx + 1
    /\ UNCHANGED <<hostVars, woken, tableVars, futures, finished, done, queueVars,
                   at, taskVars, rejVars, dogVars, faults>>

DriveEnd ==
    /\ pc = "drive" /\ idx > Len(futures)
    /\ Goto("modules")
    /\ idx' = 1
    /\ UNCHANGED <<woken, tableVars, futures, polled, finished, done, queueVars, at, taskVars, rejVars, dogVars, faults>>

\* poll_modules(cx)?, then isolate.enter().
ModulesPolled ==
    /\ pc = "modules"
    /\ pc' = "drain" /\ depth' = depth + 1 /\ UNCHANGED verdict
    /\ UNCHANGED <<woken, tableVars, driverVars, queueVars, at, taskVars, rejVars, dogVars, faults>>

ModulesFail ==
    /\ pc = "modules" /\ faults < MaxFaults
    /\ pc' = "end" /\ verdict' = "err" /\ UNCHANGED depth
    /\ faults' = faults + 1
    /\ UNCHANGED <<woken, tableVars, driverVars, queueVars, at, taskVars, rejVars, dogVars>>

\* foreground::drain, first half: the whole queue is taken, the lock released.
DrainTakes ==
    /\ pc = "drain"
    /\ Goto("requeue")
    /\ due' = tasks \ notDue /\ later' = tasks \cap notDue
    /\ tasks' = {}
    /\ UNCHANGED <<woken, tableVars, driverVars, queueVars, at, jobs, notDue,
                   rejVars, dogVars, faults>>

\* Second half: what is not due is put back, what is due runs.
DrainRuns ==
    /\ pc = "requeue"
    /\ Goto("deliver")
    /\ tasks' = later
    /\ jobs' = [t \in Tasks |-> IF t \in due THEN "ran" ELSE jobs[t]]
    /\ later' = {} /\ due' = {}
    /\ UNCHANGED <<woken, tableVars, driverVars, queueVars, at, notDue, rejVars,
                   dogVars, faults>>

\* SettleQueue::deliver picks its next batch.

\* Mutant: a fresh batch need not wait for the parked one.
FreshAnyTime == TRUE

MayTakeFresh == parked = <<>>

DeliverParked ==
    /\ pc = "deliver" /\ parked # <<>>
    /\ Goto("settle")
    /\ cur' = parked[1].batch /\ fresh' = FALSE /\ at' = 1
    /\ UNCHANGED <<woken, tableVars, driverVars, ready, parked, dropped,
                   taskVars, rejVars, dogVars, faults>>

DeliverFresh ==
    /\ pc = "deliver" /\ MayTakeFresh /\ ready # <<>>
    /\ Goto("settle")
    /\ LET n == Smaller(BatchCap, Len(ready)) IN
       /\ cur' = First(n, ready)
       /\ ready' = Rest(n, ready)
    /\ fresh' = TRUE /\ at' = 1
    /\ UNCHANGED <<woken, tableVars, driverVars, parked, dropped, taskVars,
                   rejVars, dogVars, faults>>

\* Mutant: a round that delivered nothing ends the pass.
NothingReadyExits ==
    /\ pc = "deliver" /\ parked = <<>> /\ ready = <<>>
    /\ Goto("exit")
    /\ UNCHANGED <<woken, tableVars, driverVars, queueVars, at, taskVars,
                   rejVars, dogVars, faults>>

NothingReady ==
    /\ pc = "deliver" /\ parked = <<>> /\ ready = <<>>
    /\ Goto("micro")
    /\ UNCHANGED <<woken, tableVars, driverVars, queueVars, at, taskVars,
                   rejVars, dogVars, faults>>

\* deliver_batch, one triplet.
SettleOne ==
    /\ pc = "settle" /\ at <= Len(cur)
    /\ ~term /\ cur[at] \notin Poison
    /\ SettlePromise(cur[at])
    /\ at' = at + 1
    /\ UNCHANGED <<hostVars, woken, calls, driverVars, queueVars, taskVars,
                   rejVars, dogVars, faults>>

\* The whole batch is done: a parked one is popped and the next parked one
\* follows, a fresh one ends the round.
BatchSettled ==
    /\ pc = "settle" /\ at > Len(cur)
    /\ Goto(IF fresh THEN "micro" ELSE "deliver")
    /\ parked' = IF fresh THEN parked ELSE Tail(parked)
    /\ cur' = <<>> /\ fresh' = FALSE /\ at' = 1
    /\ UNCHANGED <<woken, tableVars, driverVars, ready, dropped, taskVars,
                   rejVars, dogVars, faults>>

\* V8 may consume the terminate as it unwinds, or leave it pending.
Unwinds == term' \in {FALSE, term}

\* Mutant: a parked batch starts over at every failure.
TriesForgotten == 1

Tries == IF fresh THEN 1 ELSE parked[1].attempts + 1

\* Mutant: off by one at the last attempt.
PoisonedLate(tries) == tries > MAX_DELIVERY_ATTEMPTS

Poisoned(tries) == tries >= MAX_DELIVERY_ATTEMPTS

\* Mutant: a fresh batch that fails is gone, as in deno_core.
Evaporates(again) == parked

ParkFresh(again) == Append(parked, again)

\* A call failed: the whole batch is parked, or dropped at its third failure.
BatchFails ==
    /\ pc = "settle" /\ at <= Len(cur)
    /\ term \/ cur[at] \in Poison
    /\ pc' = "exit" /\ verdict' = "err" /\ UNCHANGED depth
    /\ LET again == [batch |-> cur, attempts |-> Tries] IN
       \/ fresh /\ parked' = ParkFresh(again) /\ UNCHANGED dropped
       \/ /\ ~fresh /\ Poisoned(Tries)
          /\ parked' = Tail(parked) /\ dropped' = dropped \cup Range(cur)
       \/ /\ ~fresh /\ ~Poisoned(Tries)
          /\ parked' = <<again>> \o Tail(parked) /\ UNCHANGED dropped
    /\ cur' = <<>> /\ fresh' = FALSE /\ at' = 1 /\ Unwinds
    /\ UNCHANGED <<woken, tableVars, driverVars, ready, taskVars, rejVars,
                   dog, stale, faults>>

\* perform_microtask_checkpoint: page JS ran, or was terminated.
MicrotasksDone ==
    /\ pc = "micro"
    /\ Goto("handled")
    /\ Unwinds
    /\ UNCHANGED <<woken, tableVars, driverVars, queueVars, at, taskVars,
                   rejVars, dog, stale, faults>>

\* dispatch_rejections, phase 1: rejectionhandled events, errors ignored.
FireHandled ==
    /\ pc = "handled" /\ handledQ # <<>>
    /\ handledQ' = Tail(handledQ)
    /\ Unwinds
    /\ UNCHANGED <<hostVars, woken, tableVars, driverVars, queueVars, at,
                   taskVars, pend, batch, rej, dog, stale, faults>>

\* Phase 2: the pending rejections are swapped out whole.
SwapPending ==
    /\ pc = "handled" /\ handledQ = <<>>
    /\ Goto("unhandled")
    /\ batch' = pend /\ pend' = <<>> /\ at' = 1
    /\ UNCHANGED <<woken, tableVars, driverVars, queueVars, taskVars, handledQ,
                   rej, dogVars, faults>>

Fired(r) == IF rej[r] = "waiting" THEN [rej EXCEPT ![r] = "fired"] ELSE rej

FireUnhandled ==
    /\ pc = "unhandled" /\ at <= Len(batch) /\ ~term
    /\ rej' = Fired(batch[at])
    /\ at' = at + 1
    /\ UNCHANGED <<hostVars, woken, tableVars, driverVars, queueVars, taskVars,
                   pend, handledQ, batch, dogVars, faults>>

Unfired == SubSeq(batch, at, Len(batch))

\* A listener threw or was terminated: the batch from that item on goes back
\* in front of pending, and the error leaves the pass at once.
FireFails ==
    /\ pc = "unhandled" /\ at <= Len(batch)
    /\ \/ term /\ Unwinds /\ UNCHANGED <<rej, faults>>
       \/ /\ ~term /\ faults < MaxFaults
          /\ faults' = faults + 1 /\ rej' = Fired(batch[at]) /\ UNCHANGED term
    /\ pend' = Unfired \o pend
    /\ batch' = <<>> /\ at' = 1
    /\ pc' = "end" /\ verdict' = "err" /\ UNCHANGED depth
    /\ UNCHANGED <<woken, tableVars, driverVars, queueVars, taskVars, handledQ,
                   dog, stale>>

Dispatched ==
    /\ pc = "unhandled" /\ at > Len(batch)
    /\ Goto("exit")
    /\ batch' = <<>> /\ at' = 1
    /\ UNCHANGED <<woken, tableVars, driverVars, queueVars, taskVars, pend,
                   handledQ, rej, dogVars, faults>>

\* LoopActivity::idle.
Idle == /\ futures = <<>>
        /\ pend = <<>> /\ handledQ = <<>>
        /\ \A t \in Tasks : jobs[t] # "working"
        /\ tasks \subseteq notDue

\* isolate.exit(), then the host's poll_fn: idle or an error ends the pump,
\* anything else parks the task.  Modules in flight keep the loop busy.
Exit ==
    /\ pc = "exit"
    /\ depth' = depth - 1
    /\ IF verdict = "err" THEN pc' = "end" /\ UNCHANGED verdict
       ELSE \E modules \in BOOLEAN :
              IF Idle /\ ~modules THEN pc' = "end" /\ verdict' = "idle"
              ELSE pc' = "parked" /\ UNCHANGED verdict
    /\ UNCHANGED <<woken, tableVars, driverVars, queueVars, at, taskVars,
                   rejVars, dogVars, faults>>

\* ---------------------------------------------------------------------------

Init ==
    /\ pc = "out" /\ verdict = "none" /\ depth = 0 /\ woken = FALSE
    /\ calls = 0 /\ overflow = {}
    /\ ring = [i \in 0..(RingSize - 1) |-> None]
    /\ settledBy = [o \in Ops |-> None]
    /\ futures = <<>> /\ polled = {} /\ finished = {} /\ idx = 1 /\ done = <<>>
    /\ ready = <<>> /\ parked = <<>> /\ fresh = FALSE /\ cur = <<>> /\ at = 1
    /\ dropped = {}
    /\ jobs = [t \in Tasks |-> "none"]
    /\ tasks = {} /\ notDue = {} /\ later = {} /\ due = {}
    /\ pend = <<>> /\ handledQ = <<>> /\ batch = <<>>
    /\ rej = [r \in Rejections |-> "none"]
    /\ dog = "off" /\ stale = FALSE /\ term = FALSE /\ faults = 0

Page == \/ Call \/ EvaluateHeals
        \/ \E r \in Rejections : Reject(r) \/ Handle(r)
        \/ \E t \in Tasks : StartJob(t)

Threads == \/ \E o \in Ops : Finish(o)
           \/ \E t \in Tasks : Post(t) \/ ComeDue(t)
           \/ DogFlags \/ DogTerminates

Pump == PumpStart \/ PumpReturns \/ Wake

Pass == \/ Poll \/ DriveReady \/ DrivePending \/ DriveEnd
        \/ ModulesPolled \/ ModulesFail \/ DrainTakes \/ DrainRuns
        \/ DeliverParked \/ DeliverFresh \/ NothingReady
        \/ SettleOne \/ BatchSettled \/ BatchFails
        \/ MicrotasksDone \/ FireHandled \/ SwapPending
        \/ FireUnhandled \/ FireFails \/ Dispatched \/ Exit

Next == Page \/ Threads \/ Pump \/ PumpTimesOut \/ Preempt \/ Pass

Spec == Init /\ [][Next]_vars

\* The session thread keeps pumping, a pass runs to its end, and a parked
\* pump's budget runs out.  Neither the page, the reactor nor the watchdog
\* owes anything.
FairSpec == Spec /\ WF_vars(Pass) /\ WF_vars(Pump) /\ WF_vars(PumpTimesOut)

\* ---------------------------------------------------------------------------
\* What the loop owes the page.

Labels == {"out", "poll", "drive", "modules", "drain", "requeue", "deliver",
           "settle", "micro", "handled", "unhandled", "exit", "end", "parked"}

TypeOK ==
    /\ pc \in Labels
    /\ verdict \in {"none", "idle", "err", "timeout", "dropped"}
    /\ depth \in Nat /\ woken \in BOOLEAN
    /\ calls \in 0..MaxOps
    /\ ring \in [0..(RingSize - 1) -> Ops \cup {None}]
    /\ overflow \subseteq Ops
    /\ settledBy \in [Ops -> Ops \cup {None}]
    /\ futures \in Seq(Ops) /\ polled \subseteq Ops /\ finished \subseteq Ops
    /\ idx \in Nat \ {0} /\ done \in Seq(Ops)
    /\ ready \in Seq(Ops) /\ cur \in Seq(Ops) /\ fresh \in BOOLEAN
    /\ parked \in Seq([batch : Seq(Ops), attempts : 1..(MAX_DELIVERY_ATTEMPTS - 1)])
    /\ dropped \subseteq Ops /\ at \in Nat \ {0}
    /\ jobs \in [Tasks -> {"none", "working", "posted", "ran"}]
    /\ tasks \subseteq Tasks /\ notDue \subseteq Tasks
    /\ later \subseteq Tasks /\ due \subseteq Tasks
    /\ pend \in Seq(Rejections) /\ handledQ \in Seq(Rejections) /\ batch \in Seq(Rejections)
    /\ rej \in [Rejections -> {"none", "waiting", "fired", "handled"}]
    /\ dog \in {"off", "armed", "flagged", "fired"}
    /\ stale \in BOOLEAN /\ term \in BOOLEAN
    /\ faults \in 0..MaxFaults

\* A promise is settled with the outcome of its own op, and while it is not
\* settled its id finds it, however the ring overflowed, ids wrapped, or a
\* batch was delivered again (__diting_register, __diting_settle).
OwnOutcome == /\ \A o \in Ops : settledBy[o] \in {None, o}
              /\ \A o \in 1..calls : settledBy[o] = None => Holder(o) = o

\* At most one batch is ever parked: deliver retries it before it takes a
\* fresh one and stops at the first failure, so the parked queue never grows.
OneBatchParked == Len(parked) <= 1

\* A parked loop nobody has scheduled has a reason to sleep: every op in
\* flight was polled since it was born, so it holds the waker, and none is
\* ready (OpDriver::spawn, drive_with).
NoLostWakeup ==
    pc = "parked" /\ ~woken =>
        /\ Range(futures) \subseteq polled
        /\ Range(futures) \cap finished = {}

\* The loop implements Settlement: whatever terminates, throws or is parked,
\* completed ops are decided once each and in completion order.
Outcome == [o \in Ops |-> IF settledBy[o] # None THEN "settled"
                          ELSE IF o \in dropped THEN "lost" ELSE "pending"]
Promise == INSTANCE Settlement WITH outcome <- Outcome
InOrder == Promise!Spec

\* A completed op is eventually decided: a leftover, parked or poisoned batch
\* never wedges the queue.
EventuallyDecided ==
    \A o \in Ops : (o \in Range(done)) ~> (settledBy[o] # None \/ o \in dropped)

\* An unhandled rejection eventually fires its event or finds a handler.
EventuallyFired == \A r \in Rejections : (rej[r] = "waiting") ~> (rej[r] # "waiting")

\* settle.rs calls pending() the loop's has-more-work signal: a loop that
\* reports idle has delivered every completion.
IdleMeansDelivered == pc = "out" /\ verdict = "idle" => ready = <<>> /\ parked = <<>>

\* foreground.rs: drain runs every due task and re-queues the rest, so a task
\* that was posted is queued, in drain's hands, or has run.
NoTaskLost == \A t \in Tasks : jobs[t] = "posted" => t \in tasks \cup later \cup due

\* vm.rs: an early return must not skip isolate.exit(), so between passes the
\* loop holds no entry.
EntriesBalanced == pc \in {"out", "parked"} => depth = 0
=============================================================================
