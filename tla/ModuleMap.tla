----------------------------- MODULE ModuleMap -----------------------------
(***************************************************************************)
(* The module map of a realm (diting_runtime/src/modules): import() calls, *)
(* the graph loads they start, the page's own module scripts, and how the  *)
(* user's promises are settled.  Everything runs on the realm's thread;    *)
(* the interleavings come from fetches that answer between two polls, from *)
(* user code that runs inside a settlement and imports again, from the     *)
(* watchdog, and from a loop that is polled only when somebody wakes it.   *)
(*                                                                         *)
(* V8 is external: a module's status, the promise of an evaluation and the *)
(* top-level awaits of a graph are the operators under "V8".  Specifiers   *)
(* are modules already resolved; import maps, import.meta and source text  *)
(* are left out, and the futures of a load, a Vec polled in order, are a   *)
(* set.                                                                    *)
(***************************************************************************)
EXTENDS Naturals, FiniteSets

CONSTANTS
    Modules,
    Deps,        \* the import statements of each module
    Awaits,      \* modules with a top-level await
    Throws,      \* modules whose body throws, after the await if it has one
    Malformed,   \* modules that do not compile or import what does not resolve
    Local,       \* data: and blob: modules, loaded without a request
    Flaky,       \* modules whose fetch may fail
    Scripts,     \* modules a page has as <script type=module>
    MaxImports,  \* bound: import() calls
    MaxScripts,  \* bound: module scripts run
    MaxKills,    \* bound: times the watchdog terminates the realm
    KillAt,      \* where it may: "compile", "link", "body"
    Hosts,       \* "pumped": polled again and again; "reactor": when woken
    None

Imports == 1..MaxImports
Page == 0                    \* the load of a module script
Loads == Imports \cup {Page}

ASSUME GraphAssumption == /\ Deps \in [Modules -> SUBSET Modules]
                          /\ None \notin Modules
ASSUME TraitAssumption == Scripts \subseteq Modules
ASSUME BoundAssumption == MaxImports \in Nat /\ MaxScripts \in Nat /\ MaxKills \in Nat

VARIABLES
    registered,  \* ModuleMapData.by_name
    started,     \* modules V8 began to evaluate
    killed,      \* modules the watchdog stopped
    released,    \* top-level awaits that came back
    target,      \* the module a load or an import() asks for
    promise,     \* the user's promise of each import()
    dynMap,      \* dynamic_import_map
    waiters,     \* pending_tla_waiters
    seen,        \* RecursiveLoad.visited; empty before the first poll
    fut,         \* RecursiveLoad.pending, and how far each fetch is
    live,        \* pending_dynamic_loads
    todo, keep,  \* drain_dynamic_loads' locals
    evals,       \* pending_dyn_evaluations
    taken, still,\* evaluate_dyn_imports' locals
    again,       \* has_evaluated
    pc,          \* where the thread is
    micro,       \* None, or user code may run inside the current step: the bodies
                 \* of these modules and handlers
    woken,       \* the loop's task is scheduled
    host,        \* one of Hosts; a pumped one is always about to poll
    statics,     \* module scripts whose evaluation is pending
    flag,        \* pending_mod_evaluation
    driving,     \* the script drive_module_eval waits for
    outcome,     \* module_evaluations
    scripts, kills  \* counters for the bounds

v8Vars == <<started, killed, released>>
userVars == <<target, promise>>
loadVars == <<seen, fut>>
queueVars == <<live, todo, keep>>
evalVars == <<evals, taken, still>>
pageVars == <<statics, flag, driving, outcome, scripts>>
vars == <<registered, v8Vars, userVars, dynMap, waiters, loadVars, queueVars, evalVars,
          again, pc, micro, woken, host, pageVars, kills>>

\* ---------------------------------------------------------------------------
\* V8.

Closed(S) == \A m \in S : Deps[m] \subseteq S

\* The whole graph below a module.
Reach == [m \in Modules |->
            {x \in Modules : \A S \in SUBSET Modules : (m \in S /\ Closed(S)) => x \in S}]

Stopped(x, back) == x \in killed \/ (x \in Throws /\ Awaits \cap Reach[x] \subseteq back)

\* The state of an evaluation's promise, when the modules of run have begun and
\* the awaits of back have come back.
Verdict(m, run, back) ==
    IF \E x \in Reach[m] \cap run : Stopped(x, back) THEN "rejected"
    ELSE IF Awaits \cap Reach[m] \subseteq back THEN "fulfilled"
    ELSE "pending"

Outcome(m) == Verdict(m, started, released)

Errored(m) == m \in started /\ Outcome(m) = "rejected"

\* get_status also says Evaluated while a top-level await is pending.
Evaluated(m) == m \in started /\ Outcome(m) # "rejected"

\* An evaluation of m begins its graph, or what is begun when x ends it: those
\* above x, x after its imports, and siblings that were through before.
Begun(run) == run \cup started
Cuts(m, x) ==
    {run \in SUBSET (Reach[m] \ started) :
        /\ {m, x} \subseteq Begun(run) /\ (x \in run => Deps[x] \subseteq Begun(run))
        /\ \A y \in run \ {m} : \E z \in run : y \in Deps[z]
        /\ \A y \in run \ {x} :
             IF x \in Reach[y] THEN \E z \in Deps[y] \cap Begun(run) : x \in Reach[z]
             ELSE /\ Reach[y] \subseteq Begun(run)
                  /\ \A z \in Reach[y] : ~Stopped(z, released)}
Fatal(m) == {x \in Reach[m] : Stopped(x, released)}
Runs(m) == IF Fatal(m) = {} THEN {Reach[m]} ELSE UNION {Cuts(m, x) : x \in Fatal(m)}

\* ---------------------------------------------------------------------------
\* One step of a load.

Futures == [Modules -> {"none", "new", "sent", "ready", "failed"}]
Unfetched == [m \in Modules |-> "none"]

Pending(f) == {m \in Modules : f[m] # "none"}
Spawned(f, S) == [m \in Modules |-> IF m \in S THEN "new" ELSE f[m]]
Polled(f, S) == [m \in Modules |-> IF m \in S /\ f[m] = "new" THEN "sent" ELSE f[m]]

Source(f, m) == f[m] = "ready" \/ (f[m] = "new" /\ m \in Local)
Failure(f, m) == f[m] = "failed" \/ (f[m] = "new" /\ m \in Local \cap Flaky)
Answered(f) == {m \in Modules : Source(f, m) \/ Failure(f, m)}

\* Mutant: a registered dependency is taken to have its graph.
WalkedOnce(reg, old, m) == Deps[m] \ old

\* recurse_imports: what is newly seen from m, through registered modules.
Walked(reg, old, m) ==
    {x \in Modules : \A S \in SUBSET Modules :
        (Deps[m] \ old \subseteq S /\ \A y \in S \cap reg : Deps[y] \ old \subseteq S) => x \in S}

\* A load's visited set and futures once its first poll has opened it.
Seen(l) ==
    IF seen[l] # {} THEN seen[l]
    ELSE {target[l]} \cup (IF target[l] \in registered
                           THEN Walked(registered, {target[l]}, target[l]) ELSE {})
Fut(l) ==
    IF seen[l] # {} THEN fut[l]
    ELSE Spawned(Unfetched, IF target[l] \in registered THEN Seen(l) \ registered
                            ELSE {target[l]})

\* Futures polled before the one that answered.
Ahead(f) == SUBSET {x \in Modules \ Local : f[x] = "new"}

\* register: m's source reaches the map, and its imports the load.
Taught(l, m, old, f) ==
    LET reg == registered \cup {m}
        new == Walked(reg, old, m)
    IN /\ registered' = reg
       /\ seen' = [seen EXCEPT ![l] = old \cup new]
       /\ fut' = [fut EXCEPT ![l] = Spawned([f EXCEPT ![m] = "none"], new \ reg)]

Forgotten(l) == /\ seen' = [seen EXCEPT ![l] = {}]
                /\ fut' = [fut EXCEPT ![l] = Unfetched]

Compiles(m) == m \in registered \/ m \notin Malformed

\* ---------------------------------------------------------------------------
\* User code: script the host runs or a task of the pass that just ended (the
\* first is followed by a poll of the loop), and microtasks and module bodies
\* inside a step of a pass.

UserRuns(wakes) == /\ pc = "parked" \/ (micro # None /\ ~wakes)
                   /\ woken' = (woken \/ wakes)

Unborn(i) == promise[i] = "unborn" /\ \A j \in Imports : j < i => promise[j] # "unborn"

\* import() of what does not resolve rejects at once.
ImportRefused(i, wakes) ==
    /\ UserRuns(wakes) /\ Unborn(i)
    /\ promise' = [promise EXCEPT ![i] = "rejected"]
    /\ UNCHANGED <<registered, v8Vars, target, dynMap, waiters, loadVars, queueVars,
                   evalVars, again, pc, micro, host, pageVars, kills>>

\* Mutant: a registered module settles at once.
RegisteredIsEnough(m) == m \in registered

\* The fast path needs no load.
NeedsNoLoad(m) == m \in registered /\ Evaluated(m)

\* has_pending_tla
StillRunning(m) == \E j \in evals : target[j] = m

\* A body that imports from within an evaluation finds its module Evaluating.
StillEvaluating(m, wakes) == micro # None /\ m \in micro /\ ~wakes

\* import_module_dynamically.
Import(i, m, wakes) ==
    /\ UserRuns(wakes) /\ Unborn(i)
    /\ target' = [target EXCEPT ![i] = m]
    /\ \/ /\ NeedsNoLoad(m)
          /\ IF StillRunning(m)
             THEN /\ waiters' = [waiters EXCEPT ![m] = @ \cup {i}]
                  /\ promise' = [promise EXCEPT ![i] = "pending"]
             ELSE /\ promise' = [promise EXCEPT ![i] = "atOnce"]
                  /\ UNCHANGED waiters
          /\ UNCHANGED <<dynMap, live>>
       \/ /\ ~NeedsNoLoad(m) \/ StillEvaluating(m, wakes)
          /\ promise' = [promise EXCEPT ![i] = "pending"]
          /\ dynMap' = dynMap \cup {i}
          /\ live' = live \cup {i}
          /\ UNCHANGED waiters
    /\ UNCHANGED <<registered, v8Vars, loadVars, todo, keep, evalVars, again, pc, micro,
                   host, pageVars, kills>>

\* Mutant: a settled evaluation does not wake the loop.
WakesSilently(settled) == FALSE

\* wake_module, on_fulfilled and on_rejected wake the loop.
Wakes(settled) == settled

\* What a module awaits comes back; the promises that settle run their handlers.
Release(m) ==
    /\ pc = "parked" \/ micro # None
    /\ micro' = IF micro = None THEN None ELSE {}
    /\ m \in (Awaits \cap started) \ released
    /\ Awaits \cap (Reach[m] \ {m}) \subseteq released
    /\ Outcome(m) = "pending"
    /\ released' = released \cup {m}
    /\ LET settled == {x \in started : /\ Outcome(x) = "pending"
                                      /\ Verdict(x, started, released') # "pending"} IN
        /\ statics' = statics \ settled
        /\ flag' = (flag /\ statics \cap settled = {})
        /\ woken' = (woken \/ Wakes(\E x \in settled :
                        x \in statics \/ \E i \in evals \cup taken \cup still : target[i] = x))
    /\ UNCHANGED <<registered, started, killed, userVars, dynMap, waiters, loadVars, queueVars,
                   evalVars, again, pc, host, driving, outcome, scripts, kills>>

\* The network answers a request.
Fetched(l, m, verdict) ==
    /\ fut[l][m] = "sent"
    /\ verdict = "failed" => m \in Flaky
    /\ fut' = [fut EXCEPT ![l][m] = verdict]
    /\ woken' = TRUE
    /\ UNCHANGED <<registered, v8Vars, userVars, dynMap, waiters, seen, queueVars, evalVars,
                   again, pc, micro, host, pageVars, kills>>

\* ---------------------------------------------------------------------------
\* A pass: poll_progress.

PassBegins ==
    /\ pc = "parked" /\ woken
    /\ live # {} \/ evals # {} \/ host = "reactor"
    /\ pc' = "drain" /\ again' = FALSE
    /\ woken' = (host = "pumped")
    /\ todo' = live /\ live' = {}
    /\ micro' = None
    /\ UNCHANGED <<registered, v8Vars, userVars, dynMap, waiters, loadVars, keep, evalVars,
                   host, pageVars, kills>>

Draining(l) == pc = "drain" /\ l \in todo

\* Poll::Pending.
LoadWaits(l) ==
    /\ Draining(l)
    /\ Pending(Fut(l)) # {} /\ Answered(Fut(l)) = {}
    /\ seen' = [seen EXCEPT ![l] = Seen(l)]
    /\ fut' = [fut EXCEPT ![l] = Polled(Fut(l), Modules)]
    /\ todo' = todo \ {l} /\ keep' = keep \cup {l}
    /\ micro' = None
    /\ UNCHANGED <<registered, v8Vars, userVars, dynMap, waiters, live, evalVars, again, pc,
                   woken, host, pageVars, kills>>

\* A source arrived and is registered; the load is kept for another poll.
LoadRegisters(l, m) ==
    /\ Draining(l)
    /\ Source(Fut(l), m) /\ Compiles(m)
    /\ \E S \in Ahead(Fut(l)) : Taught(l, m, Seen(l), Polled(Fut(l), S))
    /\ todo' = todo \ {l} /\ keep' = keep \cup {l}
    /\ micro' = None
    /\ UNCHANGED <<v8Vars, userVars, dynMap, waiters, live, evalVars, again, pc, woken, host,
                   pageVars, kills>>

\* dynamic_import_reject: the load is gone, user code hears of it.
LoadRejected(l) ==
    /\ promise' = [promise EXCEPT ![l] = "rejected"]
    /\ dynMap' = dynMap \ {l}
    /\ todo' = todo \ {l}
    /\ Forgotten(l)
    /\ micro' = {}
    /\ UNCHANGED <<registered, v8Vars, target, waiters, live, keep, evalVars, again, pc,
                   woken, host, pageVars, kills>>

LoadFails(l) ==
    /\ Draining(l)
    /\ \E m \in Modules : \/ Failure(Fut(l), m)
                          \/ Source(Fut(l), m) /\ ~Compiles(m)
    /\ LoadRejected(l)

Loaded(l) == Pending(Fut(l)) = {}

\* The graph is complete, but the root failed in an earlier evaluation.
LoadFindsError(l) == Draining(l) /\ Loaded(l) /\ Errored(target[l]) /\ LoadRejected(l)

\* instantiate_module and dynamic_import_module_evaluate.
LoadEvaluates(l) ==
    /\ Draining(l) /\ Loaded(l)
    /\ LET root == target[l] IN
        /\ ~Errored(root)
        /\ IF root \in started THEN started' = started /\ micro' = None
           ELSE \E run \in Runs(root) : started' = started \cup run /\ micro' = run
    /\ evals' = evals \cup {l}
    /\ todo' = todo \ {l}
    /\ Forgotten(l)
    /\ UNCHANGED <<registered, killed, released, userVars, dynMap, waiters, live, keep, taken,
                   still, again, pc, woken, host, pageVars, kills>>

\* Mutant: the load of a module script is put back as well.
SurvivorsAndPage(l) == keep \cup (todo \ {l}) \cup {Page}

\* Mutant: a terminated drain loses the loads it had not polled.
SurvivorsKept(l) == keep

\* The loads a terminated drain puts back.
Survivors(l) == keep \cup (todo \ {l})

\* The pass ends with Err(Terminated), and so does what waits for the loop;
\* the host polls again when it next enters the loop.
Surfaced(l) ==
    /\ live' = live \cup Survivors(l)
    /\ todo' = {} /\ keep' = {}
    /\ pc' = "parked" /\ micro' = None /\ woken' = TRUE
    /\ promise' = [promise EXCEPT ![l] = "dead"]
    /\ Forgotten(l)
    /\ outcome' = [m \in Modules |-> IF m = driving THEN "failed" ELSE outcome[m]]
    /\ driving' = None
    /\ kills' = kills + 1

\* The compile of a source, or the linking of a graph, is terminated.
LoadKilled(l) ==
    /\ Draining(l) /\ kills < MaxKills
    /\ \/ /\ "compile" \in KillAt
          /\ \E m \in Modules \ registered : Source(Fut(l), m)
       \/ "link" \in KillAt /\ Loaded(l) /\ target[l] \notin started
    /\ dynMap' = dynMap \ {l}
    /\ Surfaced(l)
    /\ UNCHANGED <<registered, v8Vars, target, waiters, evalVars, again, host, statics, flag,
                   scripts>>

\* The body of a module is: the resolver stays in dynamic_import_map.
BodyKilled(l) ==
    /\ Draining(l) /\ kills < MaxKills
    /\ "body" \in KillAt
    /\ Loaded(l) /\ target[l] \notin started
    /\ \E x \in Reach[target[l]] \ started : \E run \in Cuts(target[l], x) :
        /\ killed' = killed \cup {x}
        /\ started' = started \cup run
    /\ Surfaced(l)
    /\ UNCHANGED <<registered, released, target, dynMap, waiters, evalVars, again, host,
                   statics, flag, scripts>>

\* Survivors go back behind what was imported meanwhile; evaluate_dyn_imports
\* takes its list.
DrainEnds ==
    /\ pc = "drain" /\ todo = {}
    /\ pc' = "settle" /\ micro' = None /\ again' = FALSE
    /\ live' = live \cup keep /\ keep' = {}
    /\ taken' = evals /\ evals' = {}
    /\ UNCHANGED <<registered, v8Vars, userVars, dynMap, waiters, loadVars, todo, still, woken,
                   host, pageVars, kills>>

StaysPending(i) ==
    /\ pc = "settle" /\ i \in taken
    /\ Outcome(target[i]) = "pending"
    /\ taken' = taken \ {i} /\ still' = still \cup {i}
    /\ micro' = None
    /\ UNCHANGED <<registered, v8Vars, userVars, dynMap, waiters, loadVars, queueVars, evals,
                   again, pc, woken, host, pageVars, kills>>

\* The import that loaded the module, and those that waited for it.
AnsweredBy(i) == (dynMap \cap {i}) \cup waiters[target[i]]

\* dynamic_import_resolve and resolve_tla_waiters, or their rejecting twins.
Settles(i) ==
    /\ pc = "settle" /\ i \in taken
    /\ Outcome(target[i]) # "pending"
    /\ promise' = [j \in Imports |->
                     IF j \notin AnsweredBy(i) THEN promise[j]
                     ELSE IF Outcome(target[i]) = "fulfilled" THEN "resolved" ELSE "rejected"]
    /\ dynMap' = dynMap \ {i}
    /\ waiters' = [waiters EXCEPT ![target[i]] = {}]
    /\ taken' = taken \ {i}
    /\ again' = TRUE /\ micro' = {}
    /\ UNCHANGED <<registered, v8Vars, target, loadVars, queueVars, evals, still, pc, woken,
                   host, pageVars, kills>>

\* What is still pending goes back; a settled import earns another round.
SettleEnds ==
    /\ pc = "settle" /\ taken = {}
    /\ evals' = evals \cup still /\ still' = {}
    /\ micro' = None
    /\ IF again
       THEN pc' = "drain" /\ todo' = live /\ live' = {}
       ELSE pc' = "parked" /\ UNCHANGED <<todo, live>>
    /\ UNCHANGED <<registered, v8Vars, userVars, dynMap, waiters, loadVars, keep, taken, again,
                   woken, host, pageVars, kills>>

\* ---------------------------------------------------------------------------
\* Module scripts: load_side_es_module_from_code holds the realm until its
\* graph is loaded, then drive_module_eval runs it and pumps the loop.

\* A script whose root does not compile leaves nothing behind.
ScriptBegins(m) ==
    /\ pc = "parked" /\ driving = None /\ scripts < MaxScripts
    /\ Compiles(m)
    /\ target' = [target EXCEPT ![Page] = m]
    /\ Taught(Page, m, {m}, Unfetched)
    /\ pc' = "side" /\ micro' = None
    /\ scripts' = scripts + 1
    /\ UNCHANGED <<v8Vars, promise, dynMap, waiters, queueVars, evalVars, again, woken, host,
                   statics, flag, driving, outcome, kills>>

ScriptPolls ==
    /\ pc = "side"
    /\ \E m \in Modules : fut[Page][m] = "new" /\ m \notin Local
    /\ fut' = [fut EXCEPT ![Page] = Polled(@, Modules \ Local)]
    /\ UNCHANGED <<registered, v8Vars, userVars, dynMap, waiters, seen, queueVars, evalVars,
                   again, pc, micro, woken, host, pageVars, kills>>

ScriptRegisters(m) ==
    /\ pc = "side"
    /\ Source(fut[Page], m) /\ Compiles(m)
    /\ Taught(Page, m, seen[Page], fut[Page])
    /\ UNCHANGED <<v8Vars, userVars, dynMap, waiters, queueVars, evalVars, again, pc, micro,
                   woken, host, pageVars, kills>>

\* The host goes on with the page, and enters the loop again in time.
HostGoesOn == pc' = "parked" /\ woken' = TRUE

\* A fetch failed, a source did not compile, the root failed before, or the
\* budget ran out.
ScriptFails ==
    /\ pc = "side"
    /\ Pending(fut[Page]) = {} => Errored(target[Page])
    /\ HostGoesOn /\ Forgotten(Page)
    /\ UNCHANGED <<registered, v8Vars, userVars, dynMap, waiters, queueVars, evalVars, again,
                   micro, host, pageVars, kills>>

GraphHere(m) == pc = "side" /\ m = target[Page] /\ Pending(fut[Page]) = {} /\ ~Errored(m)

\* module_evaluations already has the script's outcome.
ScriptKnown(m) ==
    /\ GraphHere(m) /\ outcome[m] # "none"
    /\ HostGoesOn /\ Forgotten(Page)
    /\ UNCHANGED <<registered, v8Vars, userVars, dynMap, waiters, queueVars, evalVars, again,
                   micro, host, pageVars, kills>>

\* mod_evaluate: an evaluated module answers at once; an evaluation that
\* settles in the call has already run its handlers.
ScriptEvaluates(m) ==
    /\ GraphHere(m) /\ outcome[m] = "none"
    /\ driving' = m
    /\ IF Evaluated(m)
       THEN UNCHANGED <<started, statics, flag, micro>>
       ELSE /\ \E run \in Runs(m) : started' = started \cup run /\ micro' = run
            /\ LET waits == Verdict(m, started', released) = "pending" IN
                /\ statics' = IF waits THEN statics \cup {m} ELSE statics
                /\ flag' = waits
    /\ HostGoesOn /\ Forgotten(Page)
    /\ UNCHANGED <<registered, killed, released, userVars, dynMap, waiters, queueVars, evalVars,
                   again, host, outcome, scripts, kills>>

ScriptKilled(m) ==
    /\ GraphHere(m) /\ outcome[m] = "none" /\ m \notin started
    /\ kills < MaxKills /\ "body" \in KillAt
    /\ \E x \in Reach[m] \ started : \E run \in Cuts(m, x) :
        /\ killed' = killed \cup {x}
        /\ started' = started \cup run
    /\ outcome' = [outcome EXCEPT ![m] = "failed"]
    /\ kills' = kills + 1
    /\ HostGoesOn /\ Forgotten(Page)
    /\ UNCHANGED <<registered, released, userVars, dynMap, waiters, queueVars, evalVars, again,
                   micro, host, statics, flag, driving, scripts>>

\* The receiver has a verdict, which says Ok of a rejection too, or the budget
\* is spent; either is what every later script of this module hears.
DriveEnds ==
    /\ pc = "parked" /\ driving # None
    /\ outcome' = [outcome EXCEPT ![driving] = IF driving \in statics THEN "failed" ELSE "ok"]
    /\ driving' = None
    /\ woken' = TRUE /\ micro' = None
    /\ UNCHANGED <<registered, v8Vars, userVars, dynMap, waiters, loadVars, queueVars, evalVars,
                   again, pc, host, statics, flag, scripts, kills>>

\* ---------------------------------------------------------------------------

Init ==
    /\ registered = {} /\ started = {} /\ killed = {} /\ released = {}
    /\ target = [l \in Loads |-> None] /\ promise = [i \in Imports |-> "unborn"]
    /\ dynMap = {} /\ waiters = [m \in Modules |-> {}]
    /\ seen = [l \in Loads |-> {}] /\ fut = [l \in Loads |-> Unfetched]
    /\ live = {} /\ todo = {} /\ keep = {}
    /\ evals = {} /\ taken = {} /\ still = {} /\ again = FALSE
    /\ pc = "parked" /\ micro = None /\ host \in Hosts /\ woken = (host = "pumped")
    /\ statics = {} /\ flag = FALSE /\ driving = None
    /\ outcome = [m \in Modules |-> "none"]
    /\ scripts = 0 /\ kills = 0

User == \/ \E i \in Imports, w \in BOOLEAN : \/ ImportRefused(i, w)
                                             \/ \E m \in Modules : Import(i, m, w)
        \/ \E m \in Modules : Release(m)

LoadStep == \E l \in Imports : \/ LoadWaits(l)
                               \/ \E m \in Modules : LoadRegisters(l, m)
                               \/ LoadFails(l)
                               \/ LoadFindsError(l)
                               \/ LoadEvaluates(l)

SettleStep == \E i \in Imports : StaysPending(i) \/ Settles(i)

Pass == PassBegins \/ LoadStep \/ DrainEnds \/ SettleStep \/ SettleEnds

Watchdog == \/ \E l \in Imports : LoadKilled(l) \/ BodyKilled(l)
            \/ \E m \in Scripts : ScriptKilled(m)

ScriptStep == \/ ScriptPolls
              \/ \E m \in Modules : ScriptRegisters(m)
              \/ ScriptFails
              \/ \E m \in Scripts : ScriptKnown(m) \/ ScriptEvaluates(m)

Network(l, m) == \E verdict \in {"ready", "failed"} : Fetched(l, m, verdict)

Next == \/ User \/ Pass \/ Watchdog \/ ScriptStep \/ DriveEnds
        \/ \E m \in Scripts : ScriptBegins(m)
        \/ \E l \in Loads, m \in Modules : Network(l, m)

Spec == Init /\ [][Next]_vars

\* The thread goes on with a pass or a script it is in, a pumped or woken host
\* polls, and some request is answered as long as one is out (the client's read
\* timeout); as a load sends finitely many, all of them are.
FairSpec == /\ Spec
            /\ WF_vars(Pass \/ ScriptStep)
            /\ WF_vars(\E l \in Loads, m \in Modules : Network(l, m))

\* ---------------------------------------------------------------------------
\* Properties.

InFlight == live \cup todo \cup keep
InEvaluation == evals \cup taken \cup still

\* Each variable of the module map stays within its type.
TypeOK ==
    /\ registered \subseteq Modules /\ started \subseteq Modules /\ killed \subseteq Modules
    /\ released \subseteq Modules /\ statics \subseteq Modules
    /\ target \in [Loads -> Modules \cup {None}]
    /\ promise \in [Imports -> {"unborn", "pending", "atOnce", "resolved", "rejected", "dead"}]
    /\ dynMap \subseteq Imports
    /\ live \subseteq Imports /\ todo \subseteq Imports /\ keep \subseteq Imports
    /\ evals \subseteq Imports /\ taken \subseteq Imports /\ still \subseteq Imports
    /\ waiters \in [Modules -> SUBSET Imports]
    /\ seen \in [Loads -> SUBSET Modules]
    /\ fut \in [Loads -> Futures]
    /\ micro \in (SUBSET Modules) \cup {None}
    /\ again \in BOOLEAN /\ woken \in BOOLEAN /\ flag \in BOOLEAN
    /\ pc \in {"parked", "drain", "settle", "side"}
    /\ host \in Hosts
    /\ driving \in Modules \cup {None}
    /\ outcome \in [Modules -> {"none", "ok", "failed"}]
    /\ scripts \in 0..MaxScripts /\ kills \in 0..MaxKills

\* "A miss is a broken graph invariant" (map.rs, module_resolve_callback):
\* when a load is done every module of its root's graph is registered, however
\* many loads fetched parts of it at the same time.
LinkNeverMisses ==
    /\ \A l \in todo : Loaded(l) => Reach[target[l]] \subseteq registered
    /\ pc = "side" /\ Pending(fut[Page]) = {} => Reach[target[Page]] \subseteq registered

\* Every unanswered import() is on a list something will settle it from: its
\* entry of dynamic_import_map has its load or its evaluation, a waiter an
\* evaluation of its module, pending_mod_evaluation a script.  Else the promise
\* hangs and the loop, which counts all three, is never idle.
NoOrphan ==
    /\ \A i \in dynMap : promise[i] = "pending" => i \in InFlight \cup InEvaluation
    /\ \A i \in Imports : promise[i] = "pending" => i \in dynMap \/ i \in waiters[target[i]]
    /\ \A m \in Modules : waiters[m] # {} => \E j \in InEvaluation : target[j] = m
    /\ flag => statics # {}

\* An import() is rejected only for a fault of its own graph.  One that waited
\* for an evaluation, its own or another's, is resolved only with a module whose
\* whole graph was loaded, begun and ran to its end, awaits included, with no
\* failure in it; one the fast path answers has at least its graph loaded and
\* begun - whatever happens to the imports beside it.
VerdictsAreEarned ==
    \A i \in Imports :
        /\ promise[i] = "rejected" /\ target[i] # None =>
             Reach[target[i]] \cap (Flaky \cup Malformed \cup Throws \cup killed) # {}
        /\ promise[i] \in {"resolved", "atOnce"} =>
             Reach[target[i]] \subseteq registered \cap started
        /\ promise[i] = "resolved" => Outcome(target[i]) = "fulfilled"

\* An import() is "Stalled" while its module awaits something.
Stalled(i) == target[i] \in started /\ Outcome(target[i]) = "pending"

Landed(i) == i \in evals /\ Outcome(target[i]) # "pending"

\* An import() is settled, unless the watchdog kills it or its module awaits,
\* if the host polls again and again; and once its evaluation came to an end
\* under any host, because the handlers wake the loop.
EveryImportSettles ==
    \A i \in Imports :
        promise[i] = "pending" /\ (host = "pumped" \/ Landed(i))
            ~> promise[i] # "pending" \/ Stalled(i)

\* The claim of poll_event_loop, "a parked host task needs no polling cadence
\* of its own" (vm.rs): no host has to poll unless it is woken.
NoCadenceNeeded ==
    \A i \in Imports : promise[i] = "pending" ~> promise[i] # "pending" \/ Stalled(i)

\* "The dead load's user promise can never settle - drop its bookkeeping so the
\* host loop's pending count doesn't pump forever" (dynamic.rs).
DeadAreDropped == \A i \in dynMap : promise[i] # "dead"

\* "a duplicate import() of a still-evaluating module must resolve on
\* completion" (dynamic.rs).  False: the fast path asks for V8's Evaluated, which
\* covers a pending await, and finds only evaluations that an import() began.
ResolvesOnCompletion ==
    \A i \in Imports : promise[i] \in {"resolved", "atOnce"} =>
        Awaits \cap Reach[target[i]] \subseteq released

\* "The caller may keep rendering, but must not report the module as loaded"
\* (runtime.rs, drive_module_eval).
LoadedMeansRun == \A m \in Modules : outcome[m] = "ok" => Outcome(m) # "pending"

=============================================================================
