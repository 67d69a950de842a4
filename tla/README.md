# Models and proofs of aginxbrowser

aginxbrowser is a browser service: an HTTP/MCP server (`src/src`) that keeps
long-lived browsing sessions, each on a thread of its own, over an in-house
engine (`src/crates/diting`) whose JavaScript event loop is built directly on
V8 (`src/crates/diting_runtime`). This directory holds TLA+ models of the
parts where its concurrency and its long-lived state are, the TLC runs that
check them, and proofs of every safety property those runs check, two refinements
included.

Run a check with `tlc -config SessionManager_fleet.cfg MCSessionManager`, the
proofs with `tlapm SessionManagerProofs.tla`. `PROJECT.json` maps every
definition to the lines it translates and lists the hazards the properties are
aimed at.

## 1. Inventory

| Component | State | Operations | Hard behaviours | What makes it correct | Model |
|---|---|---|---|---|---|
| Session manager (`session/manager.rs`, `manager/persist.rs`, `session/state.rs`) | `sessions` (live), `dormant` (shells from boot), id counter, snapshot store; one async mutex `SESSIONS` | create, send, raw send and split-lock `send_command`, read-only probe, clone, close, close_and_wait, evict, capture, revive, flush, restore | the mutex is dropped while a reply is awaited; close and evict do not wait; restart at any point; two threads of one session alive at once | one home per id; closed stays closed; acknowledged logins survive; every call returns; the flush reaches everybody and ends | `SessionManager` |
| Service lifecycle (`main.rs`) | serving, flushing, draining, down | boot restore, SIGTERM flush, drain | requests accepted between flush and exit; kill at any point | what was live at SIGTERM can be revived | in `SessionManager` |
| Session thread (`manager/actor.rs`, `state.rs` NavFrameShared) | command channel, parked commands, page, element indexes, page budget, published pre-navigation frame | boot, FIFO service, navigate arm, old-frame answers, pumps, exits | commands parked during a navigation; callers that read the published frame in two steps; the thread may die with commands queued | a reply channel is answered or dropped; order kept; no frame of an earlier navigation; indexes die with their page | `SessionActor` over `CommandServer` |
| Accounts (`account.rs`, `persist.rs`, the boot in `actor.rs`) | record in the store, `LIVE_JARS`, persona, verify spec, a session's pending storage | persona_for, jar_for, record_storage, capture_account, verify, delete | check-then-insert across an unlock; a write-back's reads and its save against verify, delete and other commands; crash anywhere | one device per identity; one jar and no return of deleted cookies but for one race each; what verify taught and a login written back survive | `Accounts` |
| Store (`store/mod.rs`) | SQLite behind a lock | load, save, delete, purge, atomic read-modify-write | I/O | -- | its tables are variables of `SessionManager` and `Accounts` |
| Op pipeline and event loop (`diting_runtime/src/{driver,settle,foreground,vm}.rs`) | op futures, `SettleQueue` (ready, parked), promise ring + map, foreground tasks, rejection queues, wakers | spawn, drive, deliver, drain, dispatch, poll pass | terminate at any JS step, retry of partly delivered batches, id reuse, wakers of futures never polled, posts from other threads | each completion settles its own promise, once, in order; never asleep with work due; no listener, task or event lost | `RuntimeLoop` over `Settlement` |
| Pump and watchdog (`diting_js/runtime/{pump,watchdog}.rs`, `runtime.rs`) | budget, watchdog thread, `stale_termination`, `termination_unwound` | arm, fire, join, heal, preempt, retry | flag set before the terminate; dropped pump; late fire | a terminate never outlives the script it was meant for without being healed | one watchdog per pump in `RuntimeLoop`; the script guard, the retry and the healing at a loop entry in `RealmGuards` |
| Heap guard (`runtime/heap_guard.rs`) | restore limit, pressured / tripped flags, strikes | near-heap-limit callback, recovery at the safe points | set inside an allocation, taken later | what was lent comes back; strikes are earned; a torn bracket is announced | `RealmGuards` |
| Module map (`diting_runtime/src/modules`, `drive_module_eval`) | the map of modules, graph loads, import() resolvers and waiters, pending evaluations, outcomes of module scripts | import(), load, register, instantiate, evaluate, settle, poll_progress | loads that share dependencies; user code re-enters from a settlement; terminates at compile, link and body; a loop polled only when woken | linking finds the whole graph; nobody's import is lost to another's failure; verdicts are earned; imports settle | `ModuleMap` |
| Gates (`rate.rs`, `search/dual_path.rs`, `search/validate.rs`, `robots.rs`) | windows per site, failed probes and challenges per host | count, restart, trim; note, sentence, skip | window boundaries, trimming, two probes in flight | budgets are kept; sentences are earned; memory bounded | `Gates` (robots cache not) |
| Session commands, recording, flows, captcha | one page | click, type, wait, record, replay | sequential, page dependent | -- | not modelled |
| HTTP surface, auth | none of its own | parse, authorise, format | pure | -- | its session routes are the callers of `SessionManager` |
| Page, DOM, CSS, layout, network, docgen, ooxml, panel, render | documents | parsing, rendering, transforming | data, not state | -- | not modelled |

Interactions. HTTP handlers and MCP tools take `SESSIONS`, look a session up,
send a `Command` with a oneshot reply down the session's channel, and await it
with the mutex (`send`) or without (`send_command`). The session thread owns
the page and a current-thread runtime; between commands it pumps the page's
event loop in slices with a budget, and a command that arrives drops the pump's
future. A pump arms a watchdog thread that terminates JavaScript when the
budget is overrun. Ops run as futures on the loop; their completions travel
through the settle queue into the page's promise table. V8's worker threads
post foreground tasks into the loop.

## 2. Modules

### SessionManager.tla

| Variable | Code |
|---|---|
| `live`, `dormant`, `counter` | `SessionManager.sessions`, `.dormant`, `SESSION_COUNTER` |
| `lock` | who holds the `SESSIONS` mutex across an await |
| `snap` | the session snapshots in the store; survives `Stop` |
| `alive`, `queue`, `login` | running session threads, their command channels, the login state in their page |
| `pc`, `call` | each handler's position between its awaits, and its request |
| `phase`, `todo` | process phase, sessions the flush still has to visit |
| `ended`, `acked`, `clock` | history: closed ids, login state the caller was told is done, the login clock |

One action is what a handler does between two awaits. `BeginLive`,
`BeginRevive`, `RefuseMissing` and `RefuseExpired` are the outcomes of
`prepare_send`; `Submit`, `RunCommand`, `Persist`, `RunRead` and `Release` are
the round trip and `persist_after_success`; `locked` tells `send` (keeps the
mutex throughout) from `send_command` (drops it while the reply is in flight,
takes it again to capture). `CloseSession`, `CloseAndWait`, `Evict`,
`CloneSession`, `CreateSession` are the operations of those names;
`FlushStart`, `FlushNext`, `FlushTimeout`, `FlushEnd`, `Stop`, `Boot` the
process. `GiveUp` is a caller that hangs up, whose future is dropped with the
reply receiver it holds. `ThreadDies` drops a thread's channel with all the
commands in it.

Abstractions: a login state is a number; a page's login or logout moves it to
the next one. The four reads of one capture (cookies, storage, dialog,
viewport) are one. Idle time is a counter up to `TTL`. A snapshot past a day,
of another version, or unparsable is `stale`. A store save succeeds. Nothing
keeps a session alive under a running command, so every run lets idle time pass
at any moment. The history of a call, `durable`, is taken back when its session
runs out of idle time under it (`Forgive`), also if a later request renews the
session in time to save it.

### Settlement.tla and RuntimeLoop.tla

`Settlement` is the promise to the page: each completed op is decided exactly
once, in completion order, by settling its promise or by losing it together
with the rest of a poisoned batch. `RuntimeLoop` is the loop as coded;
`InOrder` (`Promise!Spec`) is the refinement, with `Outcome` as the mapping.

| Variables | Code |
|---|---|
| `ring`, `overflow`, `calls`, `settledBy` | `promiseRing`, `promiseMap` and `nextPromiseId` of the prelude (`vm.rs:60-97`) |
| `futures`, `polled`, `finished`, `idx` | `OpDriver.futures`, which of them hold a waker, which are ready, the drive index |
| `ready`, `parked`, `cur`, `fresh`, `at` | `SettleQueue`, and the locals of `deliver` and `deliver_batch` |
| `tasks`, `notDue`, `later`, `due`, `jobs` | the foreground queue and `drain`'s locals; V8's background jobs |
| `pend`, `handledQ`, `batch`, `rej` | `RejectionState`, the batch being fired, each rejection's fate |
| `dog`, `stale`, `term` | the pump's watchdog thread, `stale_termination`, V8's pending terminate |
| `pc`, `verdict`, `depth`, `woken` | position in the pass, result, `isolate.enter` nesting, whether the task is scheduled |

`pc` walks through `poll_event_loop` in the order of the code: drive, modules,
foreground drain, deliver, microtasks, rejections, exit. Page JavaScript
(`Call`, `Reject`, `Handle`, `StartJob`) runs between pumps, in the microtask
checkpoint and inside listeners, never while a terminate is pending.
`Finish`, `Post`, `ComeDue`, `DogFlags` and `DogTerminates` are other threads
and interleave with every step. Whether V8 consumes a terminate as it unwinds
or leaves it pending for the next entry depends on the entry depth, so
`Unwinds` allows both. The guard of `Call` on ids is the limit the code
documents: no call stays live while 2^31 others are made.

### CommandServer.tla and SessionActor.tla

`CommandServer` is what callers are promised: one command after the other, in
order of arrival; a screenshot poll may overtake while the page loads for the
command at the head; whoever waits when the server stops is told.
`SessionActor` is the thread's command loop with the callers around it;
`InArrivalOrder` (`Server!Spec`) is the refinement: the queue is `Line`, the
command in hand, then `pending_replay`, `nav_deferred` and the channel.

| Variables | Code |
|---|---|
| `phase`, `cur` | where `session_thread` is and the command whose arm it is in |
| `cmd_rx`, `open`, `pending_replay`, `nav_deferred` | the channel, whether the manager still holds its sender, what navigations parked |
| `doc`, `strikes`, `committed`, `landed` | the live document with its realm, `heap_guard_strikes`, how far the load got |
| `band_frame_cache`, `element_map`, `pages_loaded` | the locals and page fields of those names |
| `in_flight`, `published` | the two fields of `NavFrameShared` |
| `stage`, `kind`, `answer` | each caller's position in `send_command` / `send_screenshot` and what it heard |
| `shown`, `hit`, `since`, `begun`, `over`, `cleared` | history for the properties |

`BeginState` and `BeginFlag` are the two stores of `NavFrameShared::begin`,
`AskPoll` and `Peek` the two loads of `nav_frame_answer`, `ServeOrPark` the
biased select inside the Navigate arm, `EndLoad` and `Finish` its two halves
around `end()`. SetContent loads the same way without polling the channel.
`Interact` covers clicks, input and eval, whose navigation the arm drains
before it replies. `Panic` unwinds the thread wherever it is, its boot, a landing
and the idle pump included. Strikes come in any number during a boot, a load or
a script. A document
stands for its URL, DOM and realm; a frame is a document and a scale.

### Accounts.tla

One identity: nothing is shared between two. `record` is the row in the store,
`live` the entry in `LIVE_JARS`, `jars`, `jarOf`, `device`, `page`, `shelf` and
`pending` what each session's browser holds, `lock` the holder of `SESSIONS`,
`copy` what a write-back has read so far, `check` and `spec` the verifies. A
session boots in the steps of `session_thread` between which another thread may
take the store's or the jar map's lock: persona, look-up, seed, register,
storage, landing. A write-back (`ReadCookies`, `ReadShelf`, `Save`) is two
channel reads, between which commands of other callers run, and a save under
the store's lock. A verify reads the spec, teaches it, takes the mutex, runs up
to three commands in a scratch session of its own, each of which may fail and
end the probe (`CheckShield`, `CheckNavigate`, `CheckEval`), and writes the spec
again. Boots overlap each other and everything else. `Delete` takes the store
and the jar map only, with or without a record and sessions, `Restart` keeps the
record only. A login is a number, storage the set of sites whose keys it holds.
Two histories name what the code does not prevent: `raced`, a session looked the
jar up between another's lookup and its insert; `outlived`, a session that had
its jar outlived the delete.

### RealmGuards.tla

The guards around the scripts of one realm. `job` is the entry the thread is in
(a script above or below 10 000 bytes, `evaluate`, `run_event_loop`), `run` how
far its script got; `dog` the guard thread of `execute_script_with_timeout`;
`term` V8's pending terminate; `limit`, `restore`, `pressured`, `tripped` and
`strikes` the state of the heap guard; `unwound` the flag
`termination_unwound`; `leaked` whether a terminated script left the
trampoline's bracket open. `Climb` is the callback V8 calls in an allocation,
`Recover` the safe point, `EnterLoop` the healing, `Retries`
`execute_script_retry_terminated`. A terminate that comes after the last point
where V8 looks for it stays pending; whether V8 keeps one that it has acted on
is free, as in `RuntimeLoop`.

### Gates.tla

Three memories, each a map behind a lock that nobody holds while the network
answers: `windows` (`DOMAINS`), `direct` (`DIRECT_FAILS`), `challenge`
(`CHALLENGE_SKIPS`). `now` is the monotonic clock of the windows, `wall` the
one that dates sentences and challenges, which `StepBack` may set back.
`CheckDomain` is `check_domain`, trim included; a search is `Search`, then
`ProbeWorks` or `ProbeFails`, then `ProxyAnswers` or `ProxyChallenged`, other
searches running in between. `recent` and `streak` are history.

### ModuleMap.tla

| Variables | Code |
|---|---|
| `registered` | `ModuleMapData.by_name` |
| `started`, `killed`, `released` | V8's module statuses and the awaits that came back (external) |
| `target`, `seen`, `fut` | a `RecursiveLoad`: its root, `visited`, `pending` and how far each fetch is |
| `promise`, `dynMap`, `waiters` | the user's promises, `dynamic_import_map`, `pending_tla_waiters` |
| `live`, `todo`, `keep` | `pending_dynamic_loads` and the locals of `drain_dynamic_loads` |
| `evals`, `taken`, `still`, `again` | `pending_dyn_evaluations` and the locals of `evaluate_dyn_imports` and `poll_progress` |
| `statics`, `flag`, `driving`, `outcome` | module scripts whose promise is pending, `pending_mod_evaluation`, the script `drive_module_eval` waits for, `module_evaluations` |
| `pc`, `micro`, `woken`, `host` | position in the pass, whether user code may run inside the step, the loop's task scheduled, how the host polls |

`Import` is the host callback with its fast path. A pass is `PassBegins`, one
action per load by what its poll says (`LoadWaits`, `LoadRegisters`,
`LoadFails`, `LoadFindsError`, `LoadEvaluates`), `DrainEnds`, one action per
evaluation (`StaysPending`, `Settles`) and `SettleEnds`. User code runs between
the actions whose code ends in a microtask checkpoint, so a settlement may
import again. `LoadKilled` and `BodyKilled` are the watchdog's terminate at the
places where the code handles it. A module script holds the realm from
`ScriptBegins` until its graph is there, then pumps the loop until `DriveEnds`.

Abstractions: a specifier is the module it resolves to; import maps,
`import.meta`, redirects and source text are left out; loads and their futures
are sets where the code polls a Vec in order. What V8 does with a graph (which
bodies run, which promise settles when) are operators over the graph. A body
that throws does so after its own await and those below it came back. An
evaluation that a module ends has begun what lies above that module, all of its
imports, and any siblings that were through before it (`Cuts`), since V8's order
of siblings is the source's. A body that imports a module of its own evaluation
finds it Evaluating and takes the load; any other started module is Evaluated to
V8 (`StillEvaluating`). `Settles` makes one step of the checkpoint of the
resolver and that of its waiters: code that runs between the two already finds
the evaluation off its list, as after both. Parts the loop and this
module share (terminate, waker) are modelled in each; `RuntimeLoop` takes the
outcome of `poll_modules`.

### Proof and instance modules

`MCSessionManager`, `MCRuntimeLoop`, `MCSessionActor`, `MCAccounts`, `MCGates`
and `MCModuleMap` name the model values and instances. `SessionManagerProofs`,
`RuntimeLoopProofs`, `SettlementProofs` (which builds on it),
`SessionActorProofs`, `AccountsProofs`, `RealmGuardsProofs`, `GatesProofs` and
`ModuleMapProofs` hold the theorems.

## 3. What each run checks

| Run (cfg) | Instance | Properties | Shows |
|---|---|---|---|
| fleet (`SessionManager_fleet`) | 1 caller, 2 ids, 2 threads, persistent and plain sessions, restart; thread symmetry | `TypeOK`, `LockDiscipline`, `OneHome`, `DoneMeansDone`, `FlushCoversFleet` | create, clone, use, expiry, close, flush, kill and restart in every order keep one home per id, resurrect nothing, and flush every live session |
| durable | 2 callers on 1 id, one login, channel of 1, symmetric | `AckedLoginIsDurable`, `SnapshotNeverRollsBack` | what a caller was told is done stays on disk across eviction, revival and restart, unless the session's idle time ran out under the call; it never goes backwards |
| live | 1 caller, 1 id, TTL 2, all four kinds, three restore modes, faults on, fair | `FlagsAgree`, `EveryCallReturns` | flags survive restarts; every call returns whatever dies |
| loop (`RuntimeLoop_loop`) | 3 op calls, 1 ring slot, 2 ids, batches of 2, one poisoned op, 1 task, 1 job, 1 rejection, 1 fault, fair | `TypeOK`, `OwnOutcome`, `OneBatchParked`, `NoLostWakeup`, `InOrder`, `EventuallyDecided`, `EventuallyFired` | every completion settles its own promise, once, in completion order, across overflow, id wrap, retries and poison; the loop never sleeps on a future without a waker; completions and rejections are dealt with in the end |
| lost (`RuntimeLoop_lost`) | 3 op calls, tasks posted by a worker | `NoTaskLost` violated | see section 6 |
| actor (`SessionActor_order`) | 2 commands of six kinds, 1 poll, 2 scales, budget of 1 page, 1 strike, 3 documents, panics anywhere, fair | `TypeOK`, `ServedWhileLoading`, `IndexesDieAtLanding`, `InArrivalOrder`, `EveryCallerHears` | answers keep arrival order; only a poll overtakes, and only a load in progress; an old frame is never from before an earlier navigation's reply; everyone hears |
| accounts (`Accounts_shared`) | 1 tab, 1 teaching verify, 1 site, 1 login, 1 delete, 1 crash, fair | `TypeOK`, `TeachingSurvives`, `OneDevice`, `ForksOnlyInARace`, `BackOnlyIfOutlived`, `LoginSurvives`, `EveryCheckEnds` | no write-back loses what a verify taught; one device; a second jar takes a lookup inside another's lookup and insert; old cookies come back only by a session that held its jar at the delete; but for those two events a login written back is in the record and in every later jar; a probe, whichever of its commands fails, never waits for itself |
| gone (`Accounts_gone`) | 2 tabs, 2 logins, 1 delete, 1 crash | `DeleteMeansGone` violated | see section 6 |
| guards (`RealmGuards_heal`) | lends of 8 and 1, 5 climbs, fair | `TypeOK`, `LimitComesBack`, `NoFalseStrike`, `NoSilentLeak` | memory lent comes back, strikes are earned, a torn bracket is announced |
| gates (`Gates_memory`) | 2 searches, 2 sites, maps of 1 entry, budget 2 per window of 2, threshold 2, sentences of 1, 2 ticks, a wall clock set back at will, symmetric | `TypeOK`, `TwoBudgetsAtMost`, `SentencedForCause` | at most two budgets of a site per window's length, trimmed map included; no host is skipped but for failures in a row, not even when a sentence that ran out runs again |
| modules (`ModuleMap_settle`) | 4 modules (one imports two, one of them another), 1 await, 1 body that throws, 1 flaky fetch, 2 imports, 2 module scripts, 1 kill anywhere, both hosts, fair | `TypeOK`, `LinkNeverMisses`, `NoOrphan`, `VerdictsAreEarned`, `EveryImportSettles` | linking finds the whole graph; no import is lost to another's failure or kill; verdicts are those of the module; imports settle |
| orphan (`ModuleMap_orphan`) | 2 imports and 1 kill in a body | `DeadAreDropped` violated | see section 6 |

Bounds and why they suffice. Two ids are what id reuse, clone and a flush over
several sessions need; two threads let an evicted session's old thread run
beside its successor; two callers let one caller's command queue between
another's command and capture. `MaxQueue` bounds only the commands callers add
to a channel, which is unbounded in the code; closes and reads always fit. One
is enough for `durable`: a command that would wait behind another is submitted
once that one is served, from then on the states are the same. `MaxLogin = 1`
distinguishes logged in from not, which is all that losing or rolling back
needs. One ring slot makes every second call an eviction; 3 calls over 2 ids
wrap; a batch of 2 out of 3 completions leaves a remainder; the poisoned op
fails its batch at each of the three attempts that drop it, the fault
terminates any other step. `RuntimeLoop_order` (section 6) has a fourth call
and three faults. In `SessionActor`, two commands and a poll are what parking,
replaying and overtaking take, three documents a boot and two navigations, a
budget of one page lets a second navigation be refused, two scales make a
published frame fit or not. In `Accounts`, a tab and the verify's scratch
session are two sessions with one record, the teaching verify a writer against
their write-backs and boots; one delete and one crash separate two lives of the
account. Five climbs are two strikes (a lend and a termination each) and one
more lend. Two searches let one's success come between the other's failure and
its note; maps of one entry are crowded by the second host. In `ModuleMap` two
imports are what sharing a dependency, waiting for the same evaluation and
surviving the other's kill take; the second script hears the first one's
outcome; the tree puts a module between the root and the await. The proofs are
for any graph.

Deadlock is checked in every run but `actor`, those of `Accounts` and those of
`ModuleMap`, where sessions end, checks finish, the loop goes idle and callers
have nothing left to ask.

No run and no theorem assumes that commands end within the idle timeout, that
boots of an account do not overlap or that nothing runs when it is deleted: the
code ensures none of the three. What goes wrong then is the run `gone` and the
configurations `SessionManager_overrun` and `Accounts_tabs` (section 6), and
`AckedLoginIsDurable`, `ForksOnlyInARace`, `BackOnlyIfOutlived` and
`LoginSurvives` say that nothing else does. `durable` and `fleet` leave out
faults (dead threads, failed reads, a flush cut short), under which a capture
is best effort; `live` has them.

## 4. Fairness

Session manager: `WF` of a running thread's service, because it loops over its
channel; `SF` of a handler's own progress, because tokio's mutex is a FIFO
queue (a waiter is not overtaken for ever) and a handler with its answer runs
on; `WF` of the flush's steps, each of which is under a timeout. Nothing is
assumed of callers (who may never send anything), pages, time, crashes or
boots. `EveryCallReturns` needs a dying thread to drop its channel, which
Rust's ownership guarantees.

Event loop: `WF` of a pass, which is straight-line code; `WF` of the pump,
because the session thread starts the next slice whenever it is idle; `WF` of
the pump's timeout while it is parked. The page, the reactor, V8's workers and
the watchdog are not fair: an op may never finish and a terminate may never
come or come at any moment.

Session thread: `WF` of the thread's own steps, because a load ends at its
deadline and a script at its watchdog's; `WF` of a caller that has begun to
send. Accounts: `WF` of a booting thread, of a write-back and of a verify's
steps. Guards: `WF` of a script that can end or be unwound and of the guard's
deadline; a script that spins may spin for ever. Modules: `WF` of the steps of
the realm's thread, a pass or a script's load, which are straight-line code
entered when the loop was woken or the host polls at a cadence; `WF` of the
answers to the requests that are out, because the client has a read timeout. An
await may never come back, user code may never import.

## 5. What is proved

All for every value of the constants allowed by the named assumptions of the
module concerned; what more a theorem assumes is in its statement. Every safety
property of a passing run has a theorem.

Session manager

* `TypeCorrect`: `Spec => []TypeOK`. `TypeOK` is inductive only together with
  `LockDiscipline`: an answer is written into the record of a call and a
  capture dereferences `live[id]`, so the types rest on who holds the mutex.
  `Typing` proves the conjunction; `LockDisciplineHolds` is its other half.
* `OneHomeHolds` and `DoneMeansDoneHolds`. Relative to the conjunction above,
  each action is shown to do one of four things to each id (it `Fades`,
  `Vanishes`, `Starts` anew or `ComesBack` from its snapshot), and lemma
  `SafeChange` derives both invariants from the four.
  The argument that a late capture cannot resurrect a closed session is exactly
  `LockDiscipline`: the save happens under the mutex on a session still in the
  map, so no close came between.
* `FlagsAgreeHolds`: relative to the types, each step keeps an id's flags
  wherever they are written or takes them from where they agreed.
* `NeverRollsBack`, under faults too. Three things must be known first. `Mail`:
  a command in a channel whose sender still waits is that sender's only one,
  lies with the thread its call names and is of the kind it waits for, so no
  answer is taken for another's. `Held`: the thread a capture asked still serves
  the session when it answers. `Own` and `Ahead`: no two sessions share a thread,
  and a running thread's page is never older than its id's snapshot. Every step
  then takes one of three courses (`Steady`, `Spawned`, `Saved`), none of which
  takes the disk back; an evicted session's old thread has nobody left who would
  save its answer.
* `FlushCoversFleetHolds` assumes `~Faults`: with a dead thread, a failed read
  or the deadline the flush goes on without that session, as the code intends.
  `Served` (the thread of a registered session runs and no close waits in its
  channel) and `Holder` (who is past the capture keeps the mutex) give `Swept`:
  while the flush runs, every anonymous session it is done with has a usable
  snapshot or is the one it waits for.
* `AckedLoginIsDurableHolds` assumes `~Faults`: a capture is best effort, so a
  caller is answered Ok although it failed. An Ok promises durability unless
  the session's idle time ran out under the call (`SessionManager_overrun`,
  section 6). The invariant `Timed` says where a login is between reply and
  capture: the id of a request that will promise durability stays, unexpired,
  with the thread the request was sent to, whose page is not behind what the
  request has seen (`Vow`); past the capture the snapshot is not behind either;
  what was promised is on disk (`Kept`).

Op pipeline and event loop

* `OneBatchParkedHolds`: the invariant alone is not inductive. `Queue` adds
  that a fresh batch is only in delivery while nothing is parked, and that a
  retried batch is the parked one; with it a failure either replaces the head
  or parks into an empty queue.
* `TypeOKHolds` needs that the steps inside a pass hold an isolate entry.
  `NoLostWakeupHolds`: every future is at one place of the driver's list and is
  asleep with its waker, or the loop was scheduled, or the drive has still to
  reach it (`Wakers`). Removing one future keeps the others' wakers because no
  op is at two places.
* `OwnOutcomeHolds` and `InOrderHolds` (`SettlementProofs`), from the invariant
  `Pipeline`. The completion order is one line: what has left the pipeline, the
  batch in delivery or parked, what is ready; what is decided is a prefix of it
  that ends in that batch (`Line(b, d)`). A batch that is delivered again walks
  over its decided part, whose ids are absorbed, because live ops have distinct
  ids (`Table`). The refinement follows: a drive that finds a result completes,
  a triplet settles or is absorbed, the third failure loses the rest of the
  batch, everything else stutters.

Session thread

* `ActorTypes`, `FramesAreServedWhileLoading` and `IndexesAreForgotten`.
  `LoadsInv` ties the flag and the published pair to the count of loads begun
  and over, at each of the two stores; `PollsInv` carries it to a poll between
  its two loads, who read the flag before the load ended.
* `ActorServesInOrder`: `SessionActor` implements `CommandServer`. `OrderInv`
  says that only a load has anything parked and that whoever is in line or was
  answered has sent; with it a sender arrives at the end of the line, taking a
  parked or queued command leaves everybody in place, parking moves the head of
  the channel to the end of the parked ones, an answered poll is taken out of
  the line behind the navigation, each arm answers the head, and each end of the
  thread (strikes, last sender, close, panic) answers the whole line.

Guards, gates, accounts, modules

* `RealmGuards`: `GuardTypes`, `CeilingNeverCreeps`, `StrikesAreEarned`,
  `LeaksAreAnnounced`. One inductive invariant: `Loan` (a flag is up exactly
  while there is a limit to go back to, and that is the real one) is what makes
  a second climb not take the first one's loan for the limit; `TermHasACause`
  and `LeakHasACause` say who may have sent a terminate and where a torn bracket
  is on its way to be announced.
* `Gates`: `SentencesAreEarned`. `Earned`, which counts a record's failures
  against the failures since the host's last good probe, is kept by every note
  of every search, however late, and by every eviction; a record with a deadline
  has had Threshold of them whether the deadline is past or not, so setting the
  wall clock back changes nothing. `TwoBudgetsHold`: the
  pages let through in the last window's length are a budget that the site's
  window may not know of, all of it no younger than the window's start, and what
  the window has counted (`Budget`); a restart finds the first part too old, and
  only a window that ran out is trimmed. `TypeOKHolds` completes the types.
* `Accounts`, without assumptions: `AccountTypes`, `TeachingIsKept`,
  `DeviceIsShared`; `ForksNeedTheRace`, from an invariant that says at most one
  session is between lookup and insert, and no jar is registered meanwhile,
  unless `raced`; `DeletedStaysGone`, which follows the age of a login from jar
  to copy to record to the next session's seed, and sees that none older than
  the delete is left on that way unless `outlived`; `AckedLoginSurvives`, the
  same way with newest for oldest. `LockInv` says a half done write-back belongs
  to the holder of the mutex; with it the jar of a write-back is the jar it has
  read.
* `ModuleMap`: `ModuleTypes`, `GraphIsHere`, `NothingIsForgotten`. `Explored`:
  each module a load has seen has a future or is registered with its imports
  seen as well. When no future is left the seen set is closed under imports, so
  it holds the graph; no order of fetches and no acyclicity is assumed.
  `NothingIsForgotten` needs `Bookkeeping`, that the locals of a pass are empty
  outside of it, because a pass that ends early hands them back.
  `VerdictsHold`: a load asks for nothing outside its root's graph (`Within`),
  and the graph of a module that has begun to run has begun as a whole, or one
  of its members failed (`Whole`), so a promise can only be rejected for a fault
  in its own graph, and one resolved after a wait has a graph that ran to its end.

Only model-checked: the liveness properties (`EveryCallReturns`,
`EveryCallerHears`, `EventuallyDecided`, `EventuallyFired`, `EveryCheckEnds`,
`EveryImportSettles`). Liveness under fairness and ENABLED are out of the
prover's reach.

## 6. Where code and documentation disagree

Three runs exhibit a disagreement; the quoted lines are in `PROJECT.json`.

* lost: `drain` stores the not-due tail by assignment under a second lock,
  overwriting a task posted meanwhile.
* gone: a session that outlives the delete writes its cookies back into a new
  record.
* orphan: a module body that the watchdog terminates leaves its resolver in
  `dynamic_import_map`, unlike a terminated compile or link, so the realm counts
  a pending import for the rest of its life.

Further configurations, kept beside the runs, each violated as shown; the first
five are disagreements of the same weight as those above:

| Configuration | Property | What it shows |
|---|---|---|
| `SessionManager_overrun` | `OkIsSaved` | only the sending of a command renews a session (`manager.rs:568`); one that outlasts the idle timeout logs in, is answered Ok, its session is dropped under it, the capture finds nobody to read (`manager.rs:644`) and nothing is on disk (`state.rs:257-260`: "snapshotted to the local store after every command") |
| `Accounts_tabs` | `OneJar` | `jar_for` inserts without looking again (`account.rs:62-83`): of two first sessions that boot together, the first works on a jar nobody else sees (`account.rs:10-11`: "Concurrent sessions on one account share the live jar") |
| `Accounts_torn` | `StorageStaysHome` | a write-back reads cookies and URL first and storage second (`persist.rs:55-63`); a navigation in between pairs one site's URL with another's storage, which the next session of the account injects into the wrong site (`account.rs:138-139`: "storage only belongs to the site it was captured from") |
| `ModuleMap_early` | `ResolvesOnCompletion` | an import of a module whose await is pending as somebody's dependency, or as a module script, resolves at once, only roots in `pending_dyn_evaluations` being waited for (`dynamic.rs:18-19`: "must resolve on completion"); `VerdictsAreEarned` therefore asks completion of the imports that waited, and of the others only that their graph was loaded and begun |
| `SessionActor_dead` | `DeadThreadServesNothing` | a thread that unwinds inside a load leaves `in_flight` raised, and polls are answered with the old frame instead of the thread's death (`state.rs:209-210`: "lowered after it lands or fails") |
| `SessionManager_close` | `CloseIsForGood` | `session_close` of an idle-evicted persistent session answers `ok: false` and leaves its snapshot, which the next command revives (`state.rs:260`: "`session_close` drops the snapshot") |
| `SessionManager_probe` | `ProbeWakesNobody` | a read-only probe of an expired or evicted persistent session falls through to revival and starts a browser (`manager.rs:122-124`) |
| `SessionManager_mutex` | `LockNeverWaitsBehindACommand` | the capture after a command awaits under the mutex behind whatever another caller queued on the session (`manager.rs:49-57`) |
| `RuntimeLoop_idle` | `IdleMeansDelivered` | the loop reports idle while more completions than one batch are queued (`settle.rs:71`) |
| `RuntimeLoop_entry` | `EntriesBalanced` | a throwing rejection listener returns through `?` between `enter` and `exit` (`vm.rs:1258`) |
| `SessionActor_frame` | `ServedPairMatches` | the published URL is read at the navigation, the frame was painted earlier: after a click that navigated, the old URL and the frame are two pages |
| `SessionActor_index` | `StaleIndexFails` | only Navigate and SetContent clear the index map; after a navigation of the page's own an index is used on a later document (`docs/API.md:1091`) |
| `Gates_cap` | `ThresholdSentences` | a crowded map drops a host's first failure, so it is not sentenced at the documented threshold (`dual_path.rs:38`) |
| `RealmGuards_rerun` | `RetryIsClean` | `execute_script_retry_terminated` takes every terminated script for one that had not begun; one the heap guard terminated midway is run again from its start (`watchdog.rs:411`: "the caller's expression itself didn't run yet") |
| `ModuleMap_cadence` | `NoCadenceNeeded` | a load kept after a registration is not polled again in its pass, so the fetches it has just queued hold no waker; a host that polls only when woken leaves the import pending (`vm.rs:1067`: "a parked host task needs no polling cadence of its own") |
| `ModuleMap_loaded` | `LoadedMeansRun` | `mod_evaluate` answers Ok at once for a module whose await is still pending, and that is cached as its outcome (`runtime.rs:1222`: "must not report the module as loaded") |

Six pass and hold what the runs leave out: `SessionManager_threads` (no
running thread without a session or a Close on its way, a probe renews nothing,
the flush ends), `RealmGuards_ends` (every script ends), `RuntimeLoop_order` (four
ops over three ids and three faults), `Accounts_relogin` (two logins),
`Gates_rate` (pages only, over windows and budgets of three and seven ticks) and
`ModuleMap_ring` (a cycle of three modules and an entry that does not compile).

Observed while reading, without a configuration: a read-only probe goes
through `dispatch` and hence `persist_after_success`; a session created while
the service drains, after the flush, is not flushed; a client disconnect
between reply and capture skips the capture; store failures are only logged;
the re-queued remainder of a rejection batch starts with the event whose
listener threw, so a listener that always throws is called on every pass and
nothing behind it fires (`vm.rs:1222`); `heap_guard_strikes` counts safe points
that found a termination, not terminations, so two in one window are one
strike; a guard's late fire can kill the reset script that
`heal_termination_at_loop_entry` runs, whose error is dropped (`watchdog.rs:454`),
and only the stall probe behind it rescues the bracket; a bare verify teaches
the spec it read before waiting for the mutex, so it can undo a newer one
(`account.rs:470-487`); a capture taken on about:blank replaces stored storage
with nothing.

## 7. Not modelled, and the plan

* Module map: import maps, `import.meta`, `main_module_id`, the panic belt of
  `drive_module_eval`; its composition with `RuntimeLoop` on one loop, where a
  wake for an op would also move a load.
* Patience escalation and the op-busy accounting of the pump's watchdog; the
  composition of that watchdog with the guards of `RealmGuards` on one isolate.
* Cookie import at create, the login wizard.
* The robots cache (off unless the operator asks for it) and the search cache.
* Inside `SessionActor`: the console ring, the recorder, idle GC, dialogs,
  waits; `last_nav_error`, which only words errors.
* Left out for good: parsing, rendering, layout, styling, network protocols and
  document generation, whose correctness is about data; the sequential page
  commands, recording, flows and captcha; HTTP parsing and formatting. They are
  most of the repository's lines.

Next proofs: none of a property that a run checks, liveness apart. What would say
more is a safety property of a composition above (a wake shared by ops and
loads, one watchdog and its guards on one isolate), each with its model first.
