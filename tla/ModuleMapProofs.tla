-------------------------- MODULE ModuleMapProofs --------------------------
(***************************************************************************)
(* Proofs about ModuleMap, for any module graph, cycles included, and any  *)
(* number of imports, scripts and terminations.                            *)
(***************************************************************************)
EXTENDS ModuleMap, TLAPS

\* ---------------------------------------------------------------------------
\* The graph operators.

LEMMA ReachIsModules ==
    ASSUME NEW m \in Modules
    PROVE  Reach[m] \subseteq Modules
BY DEF Reach

\* A set that holds a module and the imports of its members holds its graph.
LEMMA ClosedHoldsReach ==
    ASSUME NEW S \in SUBSET Modules, NEW m \in S, Closed(S)
    PROVE  Reach[m] \subseteq S
BY DEF Reach

LEMMA WalkedIsModules ==
    ASSUME NEW reg, NEW old, NEW m
    PROVE  Walked(reg, old, m) \subseteq Modules
BY DEF Walked

\* The walk finds m's imports, and those of every registered module it finds.
LEMMA WalkedIsClosed ==
    ASSUME NEW reg, NEW old, NEW m \in Modules
    PROVE  /\ Deps[m] \subseteq old \cup Walked(reg, old, m)
           /\ \A y \in Walked(reg, old, m) \cap reg :
                Deps[y] \subseteq old \cup Walked(reg, old, m)
<1>1. Deps[m] \subseteq Modules /\ \A y \in Modules : Deps[y] \subseteq Modules
  BY GraphAssumption
<1>2. \A x \in Deps[m] \ old : x \in Walked(reg, old, m)
  BY <1>1 DEF Walked
<1>3. ASSUME NEW y \in Walked(reg, old, m), y \in reg, NEW x \in Deps[y] \ old
      PROVE  x \in Walked(reg, old, m)
  <2>1. y \in Modules /\ x \in Modules
    BY <1>1, <1>3 DEF Walked
  <2>2. ASSUME NEW S \in SUBSET Modules, Deps[m] \ old \subseteq S,
               \A z \in S \cap reg : Deps[z] \ old \subseteq S
        PROVE  x \in S
    BY <1>3, <2>2 DEF Walked
  <2> QED BY <2>1, <2>2 DEF Walked
<1> QED BY <1>2, <1>3

LEMMA RunsAreModules ==
    ASSUME NEW m \in Modules, NEW run \in Runs(m)
    PROVE  run \subseteq Modules
BY ReachIsModules DEF Runs, Cuts, Fatal

LEMMA CutIsModules ==
    ASSUME NEW m \in Modules, NEW x, NEW run \in Cuts(m, x)
    PROVE  run \subseteq Modules
BY ReachIsModules DEF Cuts

\* ---------------------------------------------------------------------------
\* Types.

\* The locals of a pass are empty outside it, what is loaded or evaluated has a
\* module, and an import() that was not made yet is on no list.
Bookkeeping ==
    /\ pc # "drain" => todo = {} /\ keep = {}
    /\ pc # "settle" => taken = {} /\ still = {}
    /\ \A i \in InFlight \cup InEvaluation : target[i] \in Modules
    /\ pc = "side" => target[Page] \in Modules
    /\ \A i \in Imports : promise[i] = "unborn" =>
         i \notin InFlight \cup InEvaluation \cup dynMap /\ \A m \in Modules : i \notin waiters[m]

TypeInv == TypeOK /\ Bookkeeping

LEMMA LoadsAre == Imports \subseteq Loads /\ Page \in Loads /\ Page \notin Imports
BY BoundAssumption DEF Loads, Imports, Page

\* What a poll sees of a load is well typed.
LEMMA OpenedTypes ==
    ASSUME TypeInv, NEW l \in Loads, target[l] \in Modules
    PROVE  Seen(l) \subseteq Modules /\ Fut(l) \in Futures
<1>1. seen[l] \subseteq Modules /\ fut[l] \in Futures
  BY DEF TypeInv, TypeOK
<1>2. Seen(l) \subseteq Modules
  BY <1>1, WalkedIsModules DEF Seen
<1>3. Fut(l) \in Futures
  BY <1>1 DEF Fut, Futures, Spawned, Unfetched
<1> QED BY <1>2, <1>3

LEMMA PolledTypes ==
    ASSUME NEW f \in Futures, NEW S
    PROVE  Polled(f, S) \in Futures
BY DEF Polled, Futures

\* Registering keeps the map and the load well typed.
LEMMA TaughtTypes ==
    ASSUME TypeInv, NEW l \in Loads, NEW m \in Modules, NEW old \in SUBSET Modules,
           NEW f \in Futures, Taught(l, m, old, f)
    PROVE  /\ registered' \subseteq Modules
           /\ seen' \in [Loads -> SUBSET Modules]
           /\ fut' \in [Loads -> Futures]
<1> DEFINE new == Walked(registered \cup {m}, old, m)
           g == Spawned([f EXCEPT ![m] = "none"], new \ (registered \cup {m}))
<1>1. new \subseteq Modules
  BY WalkedIsModules
<1>2. g \in Futures
  BY DEF Futures, Spawned
<1>3. /\ registered' = registered \cup {m}
      /\ seen' = [seen EXCEPT ![l] = old \cup new]
      /\ fut' = [fut EXCEPT ![l] = g]
  BY DEF Taught
<1> HIDE DEF new, g
<1> QED BY <1>1, <1>2, <1>3 DEF TypeInv, TypeOK

LEMMA ForgottenTypes ==
    ASSUME TypeInv, NEW l \in Loads, Forgotten(l)
    PROVE  seen' \in [Loads -> SUBSET Modules] /\ fut' \in [Loads -> Futures]
BY DEF TypeInv, TypeOK, Forgotten, Unfetched, Futures

LEMMA TypeInit == Init => TypeInv
<1> SUFFICES ASSUME Init PROVE TypeInv
  OBVIOUS
<1>1. fut \in [Loads -> Futures]
  BY DEF Init, Futures, Unfetched
<1>2. target \in [Loads -> Modules \cup {None}] /\ seen \in [Loads -> SUBSET Modules]
  BY DEF Init
<1>3. /\ promise \in [Imports -> {"unborn", "pending", "atOnce", "resolved", "rejected", "dead"}]
      /\ waiters \in [Modules -> SUBSET Imports]
      /\ outcome \in [Modules -> {"none", "ok", "failed"}]
  BY DEF Init
<1>4. scripts \in 0..MaxScripts /\ kills \in 0..MaxKills
  BY BoundAssumption DEF Init
<1>5. host \in Hosts /\ pc \in {"parked", "drain", "settle", "side"} /\ driving \in Modules \cup {None}
  BY DEF Init
<1>6. /\ again \in BOOLEAN /\ woken \in BOOLEAN /\ flag \in BOOLEAN
      /\ micro \in (SUBSET Modules) \cup {None}
  BY Zenon DEF Init
<1>7. TypeOK
  BY <1>1, <1>2, <1>3, <1>4, <1>5, <1>6 DEF Init, TypeOK
<1>8. Bookkeeping
  BY DEF Init, Bookkeeping, InFlight, InEvaluation
<1> QED BY <1>7, <1>8 DEF TypeInv

\* Every step keeps the variables within their types.
LEMMA TypeStep ==
    ASSUME TypeInv, [Next]_vars
    PROVE  TypeOK'
<1> USE LoadsAre, TraitAssumption
<1>1. ASSUME NEW i \in Imports, NEW w \in BOOLEAN, ImportRefused(i, w) PROVE TypeOK'
  BY <1>1
    DEF TypeInv, TypeOK, ImportRefused, UserRuns, Unborn, v8Vars, userVars, loadVars,
        queueVars, evalVars, pageVars
<1>2. ASSUME NEW i \in Imports, NEW w \in BOOLEAN, NEW m \in Modules, Import(i, m, w)
      PROVE  TypeOK'
  BY <1>2
    DEF TypeInv, TypeOK, Import, UserRuns, Unborn, NeedsNoLoad, StillRunning, v8Vars,
        userVars, loadVars, queueVars, evalVars, pageVars
<1>3. ASSUME NEW m \in Modules, Release(m) PROVE TypeOK'
  BY <1>3
    DEF TypeInv, TypeOK, Release, v8Vars, userVars, loadVars, queueVars, evalVars, pageVars
<1>4. ASSUME PassBegins PROVE TypeOK'
  BY <1>4
    DEF TypeInv, TypeOK, PassBegins, v8Vars, userVars, loadVars, queueVars, evalVars,
        pageVars
<1>5. ASSUME NEW l \in Imports, LoadWaits(l) PROVE TypeOK'
  <2>1. Seen(l) \subseteq Modules /\ Polled(Fut(l), Modules) \in Futures
    BY <1>5, OpenedTypes, PolledTypes DEF TypeInv, Bookkeeping, InFlight, LoadWaits, Draining
  <2> QED
    BY <1>5, <2>1
      DEF TypeInv, TypeOK, LoadWaits, Draining, v8Vars, userVars, loadVars, queueVars,
          evalVars, pageVars
<1>6. ASSUME NEW l \in Imports, NEW m \in Modules, LoadRegisters(l, m) PROVE TypeOK'
  <2>1. Seen(l) \subseteq Modules /\ Fut(l) \in Futures
    BY <1>6, OpenedTypes DEF TypeInv, Bookkeeping, InFlight, LoadRegisters, Draining
  <2>2. registered' \subseteq Modules /\ seen' \in [Loads -> SUBSET Modules] /\ fut' \in [Loads -> Futures]
    BY <1>6, <2>1, PolledTypes, TaughtTypes DEF LoadRegisters
  <2> QED
    BY <1>6, <2>2
      DEF TypeInv, TypeOK, LoadRegisters, Draining, v8Vars, userVars, loadVars, queueVars,
          evalVars, pageVars
<1>7. ASSUME NEW l \in Imports, LoadFails(l) PROVE TypeOK'
  <2>1. seen' \in [Loads -> SUBSET Modules] /\ fut' \in [Loads -> Futures]
    BY <1>7, ForgottenTypes DEF LoadFails, LoadRejected, Draining
  <2> QED
    BY <1>7, <2>1
      DEF TypeInv, TypeOK, LoadFails, LoadRejected, Draining, v8Vars, userVars, loadVars,
          queueVars, evalVars, pageVars
<1>8. ASSUME NEW l \in Imports, LoadFindsError(l) PROVE TypeOK'
  <2>1. seen' \in [Loads -> SUBSET Modules] /\ fut' \in [Loads -> Futures]
    BY <1>8, ForgottenTypes DEF LoadFindsError, LoadRejected, Draining
  <2> QED
    BY <1>8, <2>1
      DEF TypeInv, TypeOK, LoadFindsError, LoadRejected, Draining, v8Vars, userVars,
          loadVars, queueVars, evalVars, pageVars
<1>9. ASSUME NEW l \in Imports, LoadEvaluates(l) PROVE TypeOK'
  <2>1. seen' \in [Loads -> SUBSET Modules] /\ fut' \in [Loads -> Futures]
    BY <1>9, ForgottenTypes DEF LoadEvaluates, Draining
  <2>2. target[l] \in Modules
    BY <1>9 DEF TypeInv, Bookkeeping, InFlight, LoadEvaluates, Draining
  <2>3. started' \subseteq Modules
    BY <1>9, <2>2, RunsAreModules DEF TypeInv, TypeOK, LoadEvaluates
  <2>4. evals' \subseteq Imports /\ todo' \subseteq Imports
    BY <1>9 DEF TypeInv, TypeOK, LoadEvaluates
  <2>5. micro' \in (SUBSET Modules) \cup {None}
    BY <1>9, <2>2, RunsAreModules DEF LoadEvaluates
  <2> QED
    BY <1>9, <2>1, <2>2, <2>3, <2>4, <2>5
      DEF TypeInv, TypeOK, LoadEvaluates, Draining, v8Vars, userVars, loadVars, queueVars,
          evalVars, pageVars
<1>10. ASSUME DrainEnds PROVE TypeOK'
  BY <1>10
    DEF TypeInv, TypeOK, DrainEnds, v8Vars, userVars, loadVars, queueVars, evalVars,
        pageVars
<1>11. ASSUME NEW i \in Imports, StaysPending(i) PROVE TypeOK'
  BY <1>11
    DEF TypeInv, TypeOK, StaysPending, v8Vars, userVars, loadVars, queueVars, evalVars,
        pageVars
<1>12. ASSUME NEW i \in Imports, Settles(i) PROVE TypeOK'
  BY <1>12
    DEF TypeInv, TypeOK, Settles, AnsweredBy, v8Vars, userVars, loadVars, queueVars,
        evalVars, pageVars
<1>13. ASSUME SettleEnds PROVE TypeOK'
  BY <1>13
    DEF TypeInv, TypeOK, SettleEnds, v8Vars, userVars, loadVars, queueVars, evalVars,
        pageVars
<1>14. ASSUME NEW l \in Imports, LoadKilled(l) PROVE TypeOK'
  <2>1. seen' \in [Loads -> SUBSET Modules] /\ fut' \in [Loads -> Futures]
    BY <1>14, ForgottenTypes DEF LoadKilled, Draining, Surfaced, Survivors
  <2>2. kills' \in 0..MaxKills /\ outcome' \in [Modules -> {"none", "ok", "failed"}]
    BY <1>14, BoundAssumption DEF TypeInv, TypeOK, LoadKilled, Draining, Surfaced, Survivors
  <2> QED
    BY <1>14, <2>1, <2>2
      DEF TypeInv, TypeOK, LoadKilled, Draining, Surfaced, Survivors, v8Vars, userVars,
          loadVars, queueVars, evalVars, pageVars
<1>15. ASSUME NEW l \in Imports, BodyKilled(l) PROVE TypeOK'
  <2>1. seen' \in [Loads -> SUBSET Modules] /\ fut' \in [Loads -> Futures]
    BY <1>15, ForgottenTypes DEF BodyKilled, Draining, Surfaced, Survivors
  <2>2. kills' \in 0..MaxKills /\ outcome' \in [Modules -> {"none", "ok", "failed"}]
    BY <1>15, BoundAssumption DEF TypeInv, TypeOK, BodyKilled, Draining, Surfaced, Survivors
  <2>3. target[l] \in Modules
    BY <1>15 DEF TypeInv, Bookkeeping, InFlight, BodyKilled, Draining
  <2>4. started' \subseteq Modules /\ killed' \subseteq Modules
    BY <1>15, <2>3, ReachIsModules, CutIsModules DEF TypeInv, TypeOK, BodyKilled
  <2> QED
    BY <1>15, <2>1, <2>2, <2>3, <2>4
      DEF TypeInv, TypeOK, BodyKilled, Draining, Surfaced, Survivors, v8Vars, userVars,
          loadVars, queueVars, evalVars, pageVars
<1>16. ASSUME NEW m \in Scripts, ScriptKilled(m) PROVE TypeOK'
  <2>1. seen' \in [Loads -> SUBSET Modules] /\ fut' \in [Loads -> Futures]
    BY <1>16, ForgottenTypes DEF ScriptKilled, HostGoesOn, GraphHere
  <2>2. kills' \in 0..MaxKills /\ outcome' \in [Modules -> {"none", "ok", "failed"}]
    BY <1>16, BoundAssumption DEF TypeInv, TypeOK, ScriptKilled, HostGoesOn, GraphHere
  <2>3. started' \subseteq Modules /\ killed' \subseteq Modules
    BY <1>16, ReachIsModules, CutIsModules DEF TypeInv, TypeOK, ScriptKilled
  <2> QED
    BY <1>16, <2>1, <2>2, <2>3
      DEF TypeInv, TypeOK, ScriptKilled, HostGoesOn, GraphHere, v8Vars, userVars, loadVars,
          queueVars, evalVars, pageVars
<1>17. ASSUME ScriptPolls PROVE TypeOK'
  <2>1. Polled(fut[Page], Modules \ Local) \in Futures
    BY PolledTypes DEF TypeInv, TypeOK
  <2> QED
    BY <1>17, <2>1
      DEF TypeInv, TypeOK, ScriptPolls, v8Vars, userVars, loadVars, queueVars, evalVars,
          pageVars
<1>18. ASSUME NEW m \in Modules, ScriptRegisters(m) PROVE TypeOK'
  <2>1. Unfetched \in Futures /\ seen[Page] \subseteq Modules /\ fut[Page] \in Futures
    BY DEF TypeInv, TypeOK, Unfetched, Futures
  <2>2. registered' \subseteq Modules /\ seen' \in [Loads -> SUBSET Modules] /\ fut' \in [Loads -> Futures]
    BY <1>18, <2>1, TaughtTypes DEF ScriptRegisters
  <2> QED
    BY <1>18, <2>2
      DEF TypeInv, TypeOK, ScriptRegisters, v8Vars, userVars, loadVars, queueVars,
          evalVars, pageVars
<1>19. ASSUME ScriptFails PROVE TypeOK'
  <2>1. seen' \in [Loads -> SUBSET Modules] /\ fut' \in [Loads -> Futures]
    BY <1>19, ForgottenTypes DEF ScriptFails, HostGoesOn
  <2> QED
    BY <1>19, <2>1
      DEF TypeInv, TypeOK, ScriptFails, HostGoesOn, v8Vars, userVars, loadVars, queueVars,
          evalVars, pageVars
<1>20. ASSUME NEW m \in Scripts, ScriptKnown(m) PROVE TypeOK'
  <2>1. seen' \in [Loads -> SUBSET Modules] /\ fut' \in [Loads -> Futures]
    BY <1>20, ForgottenTypes DEF ScriptKnown, HostGoesOn, GraphHere
  <2> QED
    BY <1>20, <2>1
      DEF TypeInv, TypeOK, ScriptKnown, HostGoesOn, GraphHere, v8Vars, userVars, loadVars,
          queueVars, evalVars, pageVars
<1>21. ASSUME NEW m \in Scripts, ScriptEvaluates(m) PROVE TypeOK'
  <2>1. seen' \in [Loads -> SUBSET Modules] /\ fut' \in [Loads -> Futures]
    BY <1>21, ForgottenTypes DEF ScriptEvaluates, HostGoesOn, GraphHere
  <2>2. started' \subseteq Modules
    BY <1>21, RunsAreModules DEF TypeInv, TypeOK, ScriptEvaluates
  <2>3. statics' \subseteq Modules
    BY <1>21 DEF TypeInv, TypeOK, ScriptEvaluates
  <2>4. flag' \in BOOLEAN
    BY <1>21 DEF TypeInv, TypeOK, ScriptEvaluates
  <2>5. micro' \in (SUBSET Modules) \cup {None}
    BY <1>21, RunsAreModules DEF TypeInv, TypeOK, ScriptEvaluates
  <2> QED
    BY <1>21, <2>1, <2>2, <2>3, <2>4, <2>5
      DEF TypeInv, TypeOK, ScriptEvaluates, HostGoesOn, GraphHere, v8Vars, userVars,
          loadVars, queueVars, evalVars, pageVars
<1>22. ASSUME DriveEnds PROVE TypeOK'
  BY <1>22
    DEF TypeInv, TypeOK, DriveEnds, v8Vars, userVars, loadVars, queueVars, evalVars,
        pageVars
<1>23. ASSUME NEW m \in Scripts, ScriptBegins(m) PROVE TypeOK'
  <2>1. Unfetched \in Futures
    BY DEF Unfetched, Futures
  <2>2. registered' \subseteq Modules /\ seen' \in [Loads -> SUBSET Modules] /\ fut' \in [Loads -> Futures]
    BY <1>23, <2>1, TaughtTypes DEF ScriptBegins
  <2>3. scripts' \in 0..MaxScripts
    BY <1>23, BoundAssumption DEF TypeInv, TypeOK, ScriptBegins
  <2>4. target' \in [Loads -> Modules \cup {None}]
    BY <1>23 DEF TypeInv, TypeOK, ScriptBegins
  <2> QED
    BY <1>23, <2>1, <2>2, <2>3, <2>4
      DEF TypeInv, TypeOK, ScriptBegins, v8Vars, userVars, loadVars, queueVars, evalVars,
          pageVars
<1>24. ASSUME NEW l \in Loads, NEW m \in Modules, Network(l, m) PROVE TypeOK'
  <2>1. PICK verdict \in {"ready", "failed"} : Fetched(l, m, verdict)
    BY <1>24 DEF Network
  <2> DEFINE f == [fut[l] EXCEPT ![m] = verdict]
  <2>2. f \in Futures
    BY DEF TypeInv, TypeOK, Futures
  <2>3. fut' = [fut EXCEPT ![l] = f]
    BY <2>1 DEF Fetched
  <2> HIDE DEF f
  <2>4. fut' \in [Loads -> Futures]
    BY <2>2, <2>3 DEF TypeInv, TypeOK
  <2> QED
    BY <2>1, <2>4
      DEF TypeInv, TypeOK, Network, Fetched, v8Vars, userVars, loadVars, queueVars,
          evalVars, pageVars
<1>25. ASSUME UNCHANGED vars PROVE TypeOK'
  BY <1>25
    DEF TypeInv, TypeOK, vars, v8Vars, userVars, loadVars, queueVars, evalVars, pageVars
<1> QED BY <1>1, <1>2, <1>3, <1>4, <1>5, <1>6, <1>7, <1>8, <1>9, <1>10, <1>11, <1>12,
           <1>13, <1>14, <1>15, <1>16, <1>17, <1>18, <1>19, <1>20, <1>21, <1>22, <1>23,
           <1>24, <1>25
       DEF Next, User, Pass, LoadStep, SettleStep, Watchdog, ScriptStep

\* Every step keeps the books.
LEMMA BookStep ==
    ASSUME TypeInv, [Next]_vars
    PROVE  Bookkeeping'
<1> USE LoadsAre, TraitAssumption
<1>1. ASSUME NEW i \in Imports, NEW w \in BOOLEAN, ImportRefused(i, w)
      PROVE  Bookkeeping'
  BY <1>1
    DEF TypeInv, TypeOK, Bookkeeping, InFlight, InEvaluation, ImportRefused, UserRuns,
        Unborn, v8Vars, userVars, loadVars, queueVars, evalVars, pageVars
<1>2. ASSUME NEW i \in Imports, NEW w \in BOOLEAN, NEW m \in Modules, Import(i, m, w)
      PROVE  Bookkeeping'
  BY <1>2
    DEF TypeInv, TypeOK, Bookkeeping, InFlight, InEvaluation, Import, UserRuns, Unborn,
        NeedsNoLoad, StillRunning, v8Vars, userVars, loadVars, queueVars, evalVars, pageVars
<1>3. ASSUME NEW m \in Modules, Release(m) PROVE Bookkeeping'
  BY <1>3
    DEF TypeInv, TypeOK, Bookkeeping, InFlight, InEvaluation, Release, v8Vars, userVars,
        loadVars, queueVars, evalVars, pageVars
<1>4. ASSUME PassBegins PROVE Bookkeeping'
  BY <1>4
    DEF TypeInv, TypeOK, Bookkeeping, InFlight, InEvaluation, PassBegins, v8Vars, userVars,
        loadVars, queueVars, evalVars, pageVars
<1>5. ASSUME NEW l \in Imports, LoadWaits(l) PROVE Bookkeeping'
  BY <1>5
    DEF TypeInv, TypeOK, Bookkeeping, InFlight, InEvaluation, LoadWaits, Draining, v8Vars,
        userVars, loadVars, queueVars, evalVars, pageVars
<1>6. ASSUME NEW l \in Imports, NEW m \in Modules, LoadRegisters(l, m)
      PROVE  Bookkeeping'
  BY <1>6
    DEF TypeInv, TypeOK, Bookkeeping, InFlight, InEvaluation, LoadRegisters, Draining,
        v8Vars, userVars, loadVars, queueVars, evalVars, pageVars
<1>7. ASSUME NEW l \in Imports, LoadFails(l) PROVE Bookkeeping'
  BY <1>7
    DEF TypeInv, TypeOK, Bookkeeping, InFlight, InEvaluation, LoadFails, LoadRejected,
        Draining, v8Vars, userVars, loadVars, queueVars, evalVars, pageVars
<1>8. ASSUME NEW l \in Imports, LoadFindsError(l) PROVE Bookkeeping'
  BY <1>8
    DEF TypeInv, TypeOK, Bookkeeping, InFlight, InEvaluation, LoadFindsError, LoadRejected,
        Draining, v8Vars, userVars, loadVars, queueVars, evalVars, pageVars
<1>9. ASSUME NEW l \in Imports, LoadEvaluates(l) PROVE Bookkeeping'
  BY <1>9
    DEF TypeInv, TypeOK, Bookkeeping, InFlight, InEvaluation, LoadEvaluates, Draining,
        v8Vars, userVars, loadVars, queueVars, evalVars, pageVars
<1>10. ASSUME DrainEnds PROVE Bookkeeping'
  BY <1>10
    DEF TypeInv, TypeOK, Bookkeeping, InFlight, InEvaluation, DrainEnds, v8Vars, userVars,
        loadVars, queueVars, evalVars, pageVars
<1>11. ASSUME NEW i \in Imports, StaysPending(i) PROVE Bookkeeping'
  BY <1>11
    DEF TypeInv, TypeOK, Bookkeeping, InFlight, InEvaluation, StaysPending, v8Vars,
        userVars, loadVars, queueVars, evalVars, pageVars
<1>12. ASSUME NEW i \in Imports, Settles(i) PROVE Bookkeeping'
  BY <1>12
    DEF TypeInv, TypeOK, Bookkeeping, InFlight, InEvaluation, Settles, AnsweredBy, v8Vars,
        userVars, loadVars, queueVars, evalVars, pageVars
<1>13. ASSUME SettleEnds PROVE Bookkeeping'
  BY <1>13
    DEF TypeInv, TypeOK, Bookkeeping, InFlight, InEvaluation, SettleEnds, v8Vars, userVars,
        loadVars, queueVars, evalVars, pageVars
<1>14. ASSUME NEW l \in Imports, LoadKilled(l) PROVE Bookkeeping'
  BY <1>14
    DEF TypeInv, TypeOK, Bookkeeping, InFlight, InEvaluation, LoadKilled, Draining,
        Surfaced, Survivors, v8Vars, userVars, loadVars, queueVars, evalVars, pageVars
<1>15. ASSUME NEW l \in Imports, BodyKilled(l) PROVE Bookkeeping'
  BY <1>15
    DEF TypeInv, TypeOK, Bookkeeping, InFlight, InEvaluation, BodyKilled, Draining,
        Surfaced, Survivors, v8Vars, userVars, loadVars, queueVars, evalVars, pageVars
<1>16. ASSUME NEW m \in Scripts, ScriptKilled(m) PROVE Bookkeeping'
  BY <1>16
    DEF TypeInv, TypeOK, Bookkeeping, InFlight, InEvaluation, ScriptKilled, HostGoesOn,
        GraphHere, v8Vars, userVars, loadVars, queueVars, evalVars, pageVars
<1>17. ASSUME ScriptPolls PROVE Bookkeeping'
  BY <1>17
    DEF TypeInv, TypeOK, Bookkeeping, InFlight, InEvaluation, ScriptPolls, v8Vars,
        userVars, loadVars, queueVars, evalVars, pageVars
<1>18. ASSUME NEW m \in Modules, ScriptRegisters(m) PROVE Bookkeeping'
  BY <1>18
    DEF TypeInv, TypeOK, Bookkeeping, InFlight, InEvaluation, ScriptRegisters, v8Vars,
        userVars, loadVars, queueVars, evalVars, pageVars
<1>19. ASSUME ScriptFails PROVE Bookkeeping'
  BY <1>19
    DEF TypeInv, TypeOK, Bookkeeping, InFlight, InEvaluation, ScriptFails, HostGoesOn,
        v8Vars, userVars, loadVars, queueVars, evalVars, pageVars
<1>20. ASSUME NEW m \in Scripts, ScriptKnown(m) PROVE Bookkeeping'
  BY <1>20
    DEF TypeInv, TypeOK, Bookkeeping, InFlight, InEvaluation, ScriptKnown, HostGoesOn,
        GraphHere, v8Vars, userVars, loadVars, queueVars, evalVars, pageVars
<1>21. ASSUME NEW m \in Scripts, ScriptEvaluates(m) PROVE Bookkeeping'
  BY <1>21
    DEF TypeInv, TypeOK, Bookkeeping, InFlight, InEvaluation, ScriptEvaluates, HostGoesOn,
        GraphHere, v8Vars, userVars, loadVars, queueVars, evalVars, pageVars
<1>22. ASSUME DriveEnds PROVE Bookkeeping'
  BY <1>22
    DEF TypeInv, TypeOK, Bookkeeping, InFlight, InEvaluation, DriveEnds, v8Vars, userVars,
        loadVars, queueVars, evalVars, pageVars
<1>23. ASSUME NEW m \in Scripts, ScriptBegins(m) PROVE Bookkeeping'
  BY <1>23
    DEF TypeInv, TypeOK, Bookkeeping, InFlight, InEvaluation, ScriptBegins, v8Vars,
        userVars, loadVars, queueVars, evalVars, pageVars
<1>24. ASSUME NEW l \in Loads, NEW m \in Modules, Network(l, m) PROVE Bookkeeping'
  BY <1>24
    DEF TypeInv, TypeOK, Bookkeeping, InFlight, InEvaluation, Network, Fetched, v8Vars,
        userVars, loadVars, queueVars, evalVars, pageVars
<1>25. ASSUME UNCHANGED vars PROVE Bookkeeping'
  BY <1>25
    DEF TypeInv, TypeOK, Bookkeeping, InFlight, InEvaluation, vars, v8Vars, userVars,
        loadVars, queueVars, evalVars, pageVars
<1> QED BY <1>1, <1>2, <1>3, <1>4, <1>5, <1>6, <1>7, <1>8, <1>9, <1>10, <1>11, <1>12,
           <1>13, <1>14, <1>15, <1>16, <1>17, <1>18, <1>19, <1>20, <1>21, <1>22, <1>23,
           <1>24, <1>25
       DEF Next, User, Pass, LoadStep, SettleStep, Watchdog, ScriptStep

\* The variables of a module map are well typed, for any graph of modules.
LEMMA TypeInvHolds == Spec => []TypeInv
<1>1. TypeInv /\ [Next]_vars => TypeInv'
  BY TypeStep, BookStep DEF TypeInv
<1> QED BY <1>1, TypeInit, PTL DEF Spec

\* Every variable of the module map stays within its type, whatever fetches,
\* imports, scripts and terminations interleave.
THEOREM ModuleTypes == Spec => []TypeOK
<1>1. TypeInv => TypeOK
  BY DEF TypeInv
<1> QED BY <1>1, TypeInvHolds, PTL

\* ---------------------------------------------------------------------------
\* A finished load has its whole graph.

\* What a load has seen of the graph below t: each module has a future, or is
\* registered with its imports seen as well.
Explored(t, S, f, reg) ==
    t \in S /\ \A x \in S : f[x] # "none" \/ (x \in reg /\ Deps[x] \subseteq S)

LoadInv ==
    /\ \A l \in Loads : seen[l] # {} => Explored(target[l], seen[l], fut[l], registered)
    /\ \A i \in Imports : promise[i] = "unborn" => seen[i] = {}
    /\ pc = "side" => seen[Page] # {}

LEMMA OpenedIsExplored ==
    ASSUME TypeInv, LoadInv, NEW l \in Loads, target[l] \in Modules
    PROVE  Explored(target[l], Seen(l), Fut(l), registered)
<1> DEFINE t == target[l]
<1>1. CASE seen[l] # {}
  BY <1>1 DEF LoadInv, Seen, Fut
<1>2. CASE seen[l] = {} /\ t \notin registered
  BY <1>2 DEF Seen, Fut, Explored, Spawned
<1>3. CASE seen[l] = {} /\ t \in registered
  <2> DEFINE W == Walked(registered, {t}, t)
  <2>1. Seen(l) = {t} \cup W /\ Fut(l) = Spawned(Unfetched, Seen(l) \ registered)
    BY <1>3 DEF Seen, Fut
  <2>2. Deps[t] \subseteq {t} \cup W /\ \A y \in W \cap registered : Deps[y] \subseteq {t} \cup W
    BY WalkedIsClosed
  <2>3. \A x \in Seen(l) \ registered : Fut(l)[x] = "new"
    <3>1. Seen(l) \subseteq Modules
      BY OpenedTypes
    <3> QED BY <2>1, <3>1 DEF Spawned
  <2>4. ASSUME NEW x \in Seen(l), x \in registered PROVE Deps[x] \subseteq Seen(l)
    BY <2>1, <2>2, <2>4
  <2>5. t \in Seen(l)
    BY <2>1
  <2> HIDE DEF W
  <2> QED BY <2>3, <2>4, <2>5 DEF Explored
<1> QED BY <1>1, <1>2, <1>3

LEMMA PollingIsExplored ==
    ASSUME NEW t, NEW S \in SUBSET Modules, NEW f \in Futures, NEW reg, NEW P,
           Explored(t, S, f, reg)
    PROVE  Explored(t, S, Polled(f, P), reg)
BY DEF Explored, Polled, Futures

\* Registering m explores the graph further, for this load and every other.
LEMMA TaughtIsExplored ==
    ASSUME TypeInv, NEW l \in Loads, NEW m \in Modules, NEW old \in SUBSET Modules,
           NEW f \in Futures, NEW t \in old, Taught(l, m, old, f),
           \A x \in old : x = m \/ f[x] # "none" \/ (x \in registered /\ Deps[x] \subseteq old)
    PROVE  /\ Explored(t, seen'[l], fut'[l], registered')
           /\ \A k \in Loads \ {l} : seen'[k] = seen[k] /\ fut'[k] = fut[k]
           /\ registered \subseteq registered'
<1> DEFINE reg == registered \cup {m}
           new == Walked(reg, old, m)
           S == old \cup new
           g == Spawned([f EXCEPT ![m] = "none"], new \ reg)
<1>1. /\ registered' = reg
      /\ seen' = [seen EXCEPT ![l] = S]
      /\ fut' = [fut EXCEPT ![l] = g]
  BY DEF Taught
<1>2. new \subseteq Modules
  BY WalkedIsModules
<1>3. Deps[m] \subseteq S /\ \A y \in new \cap reg : Deps[y] \subseteq S
  BY WalkedIsClosed
<1>4. \A x \in new \ reg : g[x] = "new"
  BY <1>2 DEF Spawned
<1>5. ASSUME NEW x \in old, x # m, f[x] # "none" PROVE g[x] # "none"
  BY <1>5 DEF Spawned, Futures
<1>6. ASSUME NEW x \in S PROVE g[x] # "none" \/ (x \in reg /\ Deps[x] \subseteq S)
  <2>1. CASE x \in new
    BY <2>1, <1>3, <1>4
  <2>2. CASE x = m
    BY <2>2, <1>3
  <2>3. CASE x \in old /\ x # m
    BY <2>3, <1>5
  <2> QED BY <2>1, <2>2, <2>3
<1>7. t \in S
  OBVIOUS
<1>8. seen'[l] = S /\ fut'[l] = g /\ \A k \in Loads \ {l} : seen'[k] = seen[k] /\ fut'[k] = fut[k]
  BY <1>1 DEF TypeInv, TypeOK
<1>9. registered \subseteq reg
  OBVIOUS
<1> HIDE DEF reg, new, S, g
<1> QED BY <1>1, <1>6, <1>7, <1>8, <1>9 DEF Explored

LEMMA MoreIsExplored ==
    ASSUME NEW t, NEW S, NEW f, NEW reg, NEW more, reg \subseteq more, Explored(t, S, f, reg)
    PROVE  Explored(t, S, f, more)
BY DEF Explored

\* Every step keeps what the loads have explored.
LEMMA LoadInvStep ==
    ASSUME TypeInv, LoadInv, [Next]_vars
    PROVE  LoadInv'
<1> USE LoadsAre, TraitAssumption
<1>1. ASSUME NEW i \in Imports, NEW w \in BOOLEAN, ImportRefused(i, w) PROVE LoadInv'
  BY <1>1
    DEF TypeInv, TypeOK, Bookkeeping, LoadInv, InFlight, Forgotten, ImportRefused,
        UserRuns, Unborn, v8Vars, userVars, loadVars, queueVars, evalVars, pageVars
<1>2. ASSUME NEW i \in Imports, NEW w \in BOOLEAN, NEW m \in Modules, Import(i, m, w)
      PROVE  LoadInv'
  BY <1>2
    DEF TypeInv, TypeOK, Bookkeeping, LoadInv, InFlight, Forgotten, Import, UserRuns,
        Unborn, NeedsNoLoad, StillRunning, v8Vars, userVars, loadVars, queueVars, evalVars,
        pageVars
<1>3. ASSUME NEW m \in Modules, Release(m) PROVE LoadInv'
  BY <1>3
    DEF TypeInv, TypeOK, Bookkeeping, LoadInv, InFlight, Forgotten, Release, v8Vars,
        userVars, loadVars, queueVars, evalVars, pageVars
<1>4. ASSUME PassBegins PROVE LoadInv'
  BY <1>4
    DEF TypeInv, TypeOK, Bookkeeping, LoadInv, InFlight, Forgotten, PassBegins, v8Vars,
        userVars, loadVars, queueVars, evalVars, pageVars
<1>5. ASSUME NEW l \in Imports, LoadWaits(l) PROVE LoadInv'
  <2>1. Seen(l) \subseteq Modules /\ Fut(l) \in Futures /\ target[l] \in Modules
    BY <1>5, OpenedTypes DEF TypeInv, Bookkeeping, InFlight, LoadWaits, Draining
  <2> DEFINE f == Polled(Fut(l), Modules)
  <2>2. Explored(target[l], Seen(l), f, registered)
    BY <2>1, OpenedIsExplored, PollingIsExplored
  <2>3. seen' = [seen EXCEPT ![l] = Seen(l)] /\ fut' = [fut EXCEPT ![l] = f]
    BY <1>5 DEF LoadWaits
  <2> HIDE DEF f
  <2>4. promise[l] # "unborn" /\ pc = "drain"
    BY <1>5 DEF TypeInv, Bookkeeping, InFlight, LoadWaits, Draining
  <2>5. UNCHANGED <<registered, target, promise, pc>>
    BY <1>5 DEF LoadWaits, userVars
  <2> QED BY <2>2, <2>3, <2>4, <2>5 DEF LoadInv, TypeInv, TypeOK
<1>6. ASSUME NEW l \in Imports, NEW m \in Modules, LoadRegisters(l, m) PROVE LoadInv'
  <2>1. Seen(l) \subseteq Modules /\ Fut(l) \in Futures /\ target[l] \in Modules
    BY <1>6, OpenedTypes DEF TypeInv, Bookkeeping, InFlight, LoadRegisters, Draining
  <2>2. PICK P : Taught(l, m, Seen(l), Polled(Fut(l), P))
    BY <1>6 DEF LoadRegisters
  <2>3. Explored(target[l], Seen(l), Polled(Fut(l), P), registered)
    BY <2>1, OpenedIsExplored, PollingIsExplored
  <2>4. Polled(Fut(l), P) \in Futures
    BY <2>1, PolledTypes
  <2> DEFINE f == Polled(Fut(l), P)
  <2>5. /\ target[l] \in Seen(l)
        /\ \A x \in Seen(l) : x = m \/ f[x] # "none" \/ (x \in registered /\ Deps[x] \subseteq Seen(l))
    BY <2>3 DEF Explored
  <2>6. f \in Futures /\ Taught(l, m, Seen(l), f)
    BY <2>2, <2>4
  <2> HIDE DEF f
  <2>7. /\ Explored(target[l], seen'[l], fut'[l], registered')
        /\ \A k \in Loads \ {l} : seen'[k] = seen[k] /\ fut'[k] = fut[k]
        /\ registered \subseteq registered'
    BY <2>1, <2>5, <2>6, TaughtIsExplored
  <2>8. \A k \in Loads : seen'[k] # {} => Explored(target[k], seen'[k], fut'[k], registered')
    BY <2>7, MoreIsExplored DEF LoadInv
  <2>9. promise[l] # "unborn" /\ pc = "drain"
    BY <1>6 DEF TypeInv, Bookkeeping, InFlight, LoadRegisters, Draining
  <2>10. UNCHANGED <<target, promise, pc>>
    BY <1>6 DEF LoadRegisters, userVars
  <2> QED BY <2>7, <2>8, <2>9, <2>10 DEF LoadInv
<1>7. ASSUME NEW l \in Imports, LoadFails(l) PROVE LoadInv'
  BY <1>7
    DEF TypeInv, TypeOK, Bookkeeping, LoadInv, InFlight, Forgotten, LoadFails,
        LoadRejected, Draining, v8Vars, userVars, loadVars, queueVars, evalVars, pageVars
<1>8. ASSUME NEW l \in Imports, LoadFindsError(l) PROVE LoadInv'
  BY <1>8
    DEF TypeInv, TypeOK, Bookkeeping, LoadInv, InFlight, Forgotten, LoadFindsError,
        LoadRejected, Draining, v8Vars, userVars, loadVars, queueVars, evalVars, pageVars
<1>9. ASSUME NEW l \in Imports, LoadEvaluates(l) PROVE LoadInv'
  BY <1>9
    DEF TypeInv, TypeOK, Bookkeeping, LoadInv, InFlight, Forgotten, LoadEvaluates,
        Draining, v8Vars, userVars, loadVars, queueVars, evalVars, pageVars
<1>10. ASSUME DrainEnds PROVE LoadInv'
  BY <1>10
    DEF TypeInv, TypeOK, Bookkeeping, LoadInv, InFlight, Forgotten, DrainEnds, v8Vars,
        userVars, loadVars, queueVars, evalVars, pageVars
<1>11. ASSUME NEW i \in Imports, StaysPending(i) PROVE LoadInv'
  BY <1>11
    DEF TypeInv, TypeOK, Bookkeeping, LoadInv, InFlight, Forgotten, StaysPending, v8Vars,
        userVars, loadVars, queueVars, evalVars, pageVars
<1>12. ASSUME NEW i \in Imports, Settles(i) PROVE LoadInv'
  BY <1>12
    DEF TypeInv, TypeOK, Bookkeeping, LoadInv, InFlight, Forgotten, Settles, AnsweredBy,
        v8Vars, userVars, loadVars, queueVars, evalVars, pageVars
<1>13. ASSUME SettleEnds PROVE LoadInv'
  BY <1>13
    DEF TypeInv, TypeOK, Bookkeeping, LoadInv, InFlight, Forgotten, SettleEnds, v8Vars,
        userVars, loadVars, queueVars, evalVars, pageVars
<1>14. ASSUME NEW l \in Imports, LoadKilled(l) PROVE LoadInv'
  BY <1>14
    DEF TypeInv, TypeOK, Bookkeeping, LoadInv, InFlight, Forgotten, LoadKilled, Draining,
        Surfaced, Survivors, v8Vars, userVars, loadVars, queueVars, evalVars, pageVars
<1>15. ASSUME NEW l \in Imports, BodyKilled(l) PROVE LoadInv'
  BY <1>15
    DEF TypeInv, TypeOK, Bookkeeping, LoadInv, InFlight, Forgotten, BodyKilled, Draining,
        Surfaced, Survivors, v8Vars, userVars, loadVars, queueVars, evalVars, pageVars
<1>16. ASSUME NEW m \in Scripts, ScriptKilled(m) PROVE LoadInv'
  BY <1>16
    DEF TypeInv, TypeOK, Bookkeeping, LoadInv, InFlight, Forgotten, ScriptKilled,
        HostGoesOn, GraphHere, v8Vars, userVars, loadVars, queueVars, evalVars, pageVars
<1>17. ASSUME ScriptPolls PROVE LoadInv'
  <2> DEFINE f == Polled(fut[Page], Modules \ Local)
  <2>1. seen[Page] \subseteq Modules /\ fut[Page] \in Futures
    BY DEF TypeInv, TypeOK
  <2>2. seen[Page] # {} => Explored(target[Page], seen[Page], f, registered)
    BY <2>1, PollingIsExplored DEF LoadInv
  <2>3. fut' = [fut EXCEPT ![Page] = f]
    BY <1>17 DEF ScriptPolls
  <2>4. UNCHANGED <<registered, target, promise, seen, pc>>
    BY <1>17 DEF ScriptPolls, userVars
  <2> HIDE DEF f
  <2> QED BY <2>2, <2>3, <2>4 DEF LoadInv, TypeInv, TypeOK
<1>18. ASSUME NEW m \in Modules, ScriptRegisters(m) PROVE LoadInv'
  <2>1. target[Page] \in Modules /\ seen[Page] \subseteq Modules /\ fut[Page] \in Futures
    BY <1>18 DEF TypeInv, TypeOK, Bookkeeping, ScriptRegisters
  <2>2. Explored(target[Page], seen[Page], fut[Page], registered)
    BY <1>18 DEF LoadInv, ScriptRegisters
  <2>3. /\ Explored(target[Page], seen'[Page], fut'[Page], registered')
        /\ \A k \in Loads \ {Page} : seen'[k] = seen[k] /\ fut'[k] = fut[k]
        /\ registered \subseteq registered'
    BY <1>18, <2>1, <2>2, TaughtIsExplored DEF Explored, ScriptRegisters
  <2>4. \A k \in Loads : seen'[k] # {} => Explored(target[k], seen'[k], fut'[k], registered')
    BY <2>3, MoreIsExplored DEF LoadInv
  <2>5. UNCHANGED <<target, promise, pc>>
    BY <1>18 DEF ScriptRegisters, userVars
  <2>6. seen'[Page] # {} /\ \A i \in Imports : seen'[i] = seen[i]
    BY <2>3 DEF Explored
  <2> QED BY <2>4, <2>5, <2>6 DEF LoadInv
<1>19. ASSUME ScriptFails PROVE LoadInv'
  BY <1>19
    DEF TypeInv, TypeOK, Bookkeeping, LoadInv, InFlight, Forgotten, ScriptFails,
        HostGoesOn, v8Vars, userVars, loadVars, queueVars, evalVars, pageVars
<1>20. ASSUME NEW m \in Scripts, ScriptKnown(m) PROVE LoadInv'
  BY <1>20
    DEF TypeInv, TypeOK, Bookkeeping, LoadInv, InFlight, Forgotten, ScriptKnown,
        HostGoesOn, GraphHere, v8Vars, userVars, loadVars, queueVars, evalVars, pageVars
<1>21. ASSUME NEW m \in Scripts, ScriptEvaluates(m) PROVE LoadInv'
  BY <1>21
    DEF TypeInv, TypeOK, Bookkeeping, LoadInv, InFlight, Forgotten, ScriptEvaluates,
        HostGoesOn, GraphHere, v8Vars, userVars, loadVars, queueVars, evalVars, pageVars
<1>22. ASSUME DriveEnds PROVE LoadInv'
  BY <1>22
    DEF TypeInv, TypeOK, Bookkeeping, LoadInv, InFlight, Forgotten, DriveEnds, v8Vars,
        userVars, loadVars, queueVars, evalVars, pageVars
<1>23. ASSUME NEW m \in Scripts, ScriptBegins(m) PROVE LoadInv'
  <2>1. Unfetched \in Futures
    BY DEF Unfetched, Futures
  <2>2. /\ Explored(m, seen'[Page], fut'[Page], registered')
        /\ \A k \in Loads \ {Page} : seen'[k] = seen[k] /\ fut'[k] = fut[k]
        /\ registered \subseteq registered'
    <3>1. Taught(Page, m, {m}, Unfetched) /\ m \in Modules
      BY <1>23 DEF ScriptBegins
    <3> QED BY <2>1, <3>1, TaughtIsExplored
  <2>3. target'[Page] = m /\ \A k \in Loads \ {Page} : target'[k] = target[k]
    BY <1>23 DEF ScriptBegins, TypeInv, TypeOK
  <2>4. \A k \in Loads : seen'[k] # {} => Explored(target'[k], seen'[k], fut'[k], registered')
    BY <2>2, <2>3, MoreIsExplored DEF LoadInv
  <2>5. promise' = promise
    BY <1>23 DEF ScriptBegins
  <2>6. seen'[Page] # {} /\ \A i \in Imports : seen'[i] = seen[i]
    BY <2>2 DEF Explored
  <2> QED BY <2>4, <2>5, <2>6 DEF LoadInv
<1>24. ASSUME NEW l \in Loads, NEW m \in Modules, Network(l, m) PROVE LoadInv'
  <2>1. PICK verdict \in {"ready", "failed"} : Fetched(l, m, verdict)
    BY <1>24 DEF Network
  <2> DEFINE f == [fut[l] EXCEPT ![m] = verdict]
  <2>2. seen[l] # {} => Explored(target[l], seen[l], f, registered)
    BY DEF LoadInv, Explored, TypeInv, TypeOK, Futures
  <2>3. fut' = [fut EXCEPT ![l] = f]
    BY <2>1 DEF Fetched
  <2>4. UNCHANGED <<registered, target, promise, seen, pc>>
    BY <2>1 DEF Fetched, userVars
  <2> HIDE DEF f
  <2> QED BY <2>2, <2>3, <2>4 DEF LoadInv, TypeInv, TypeOK
<1>25. ASSUME UNCHANGED vars PROVE LoadInv'
  BY <1>25
    DEF TypeInv, TypeOK, Bookkeeping, LoadInv, InFlight, Forgotten, vars, v8Vars, userVars,
        loadVars, queueVars, evalVars, pageVars
<1> QED BY <1>1, <1>2, <1>3, <1>4, <1>5, <1>6, <1>7, <1>8, <1>9, <1>10, <1>11, <1>12,
           <1>13, <1>14, <1>15, <1>16, <1>17, <1>18, <1>19, <1>20, <1>21, <1>22, <1>23,
           <1>24, <1>25
       DEF Next, User, Pass, LoadStep, SettleStep, Watchdog, ScriptStep

\* ---------------------------------------------------------------------------

LEMMA LoadInvInit == Init => LoadInv
<1> SUFFICES ASSUME Init PROVE LoadInv
  OBVIOUS
<1>1. (\A l \in Loads : seen[l] = {}) /\ pc = "parked"
  BY DEF Init
<1> QED BY <1>1, LoadsAre DEF LoadInv

LEMMA LoadInvHolds == Spec => [](TypeInv /\ LoadInv)
<1>1. TypeInv /\ LoadInv /\ [Next]_vars => LoadInv'
  BY LoadInvStep
<1> QED BY <1>1, LoadInvInit, TypeInvHolds, PTL DEF Spec

\* Explored without futures is the whole graph.
LEMMA ExploredHasReach ==
    ASSUME NEW t \in Modules, NEW S \in SUBSET Modules, NEW f, NEW reg,
           Explored(t, S, f, reg), Pending(f) = {}
    PROVE  Reach[t] \subseteq reg
<1>1. S \subseteq reg /\ \A x \in S : Deps[x] \subseteq S
  BY DEF Explored, Pending
<1>2. t \in S /\ Closed(S)
  BY <1>1 DEF Explored, Closed
<1> QED BY <1>1, <1>2, ClosedHoldsReach

\* V8's resolve callback never misses: when a load, of an import() or of a
\* module script, is done, the whole graph of its root is registered, for any
\* graph and any interleaving of loads that fetch parts of it.
THEOREM GraphIsHere == Spec => []LinkNeverMisses
<1>1. TypeInv /\ LoadInv => LinkNeverMisses
  <2> SUFFICES ASSUME TypeInv, LoadInv PROVE LinkNeverMisses
    OBVIOUS
  <2>1. ASSUME NEW l \in todo, Loaded(l) PROVE Reach[target[l]] \subseteq registered
    <3>1. l \in Loads /\ target[l] \in Modules
      BY LoadsAre DEF TypeInv, TypeOK, Bookkeeping, InFlight
    <3>2. Explored(target[l], Seen(l), Fut(l), registered) /\ Seen(l) \subseteq Modules
      BY <3>1, OpenedIsExplored, OpenedTypes
    <3> QED BY <2>1, <3>1, <3>2, ExploredHasReach DEF Loaded
  <2>2. ASSUME pc = "side", Pending(fut[Page]) = {} PROVE Reach[target[Page]] \subseteq registered
    <3>1. target[Page] \in Modules /\ seen[Page] \subseteq Modules
      BY <2>2, LoadsAre DEF TypeInv, TypeOK, Bookkeeping
    <3>2. Explored(target[Page], seen[Page], fut[Page], registered)
      BY <2>2, LoadsAre DEF LoadInv
    <3> QED BY <2>2, <3>1, <3>2, ExploredHasReach
  <2> QED BY <2>1, <2>2 DEF LinkNeverMisses
<1> QED BY <1>1, LoadInvHolds, PTL

\* ---------------------------------------------------------------------------
\* No import() is forgotten.

\* Every step leaves each import() an owner.
LEMMA NoOrphanStep ==
    ASSUME TypeInv, NoOrphan, [Next]_vars
    PROVE  NoOrphan'
<1> USE LoadsAre, TraitAssumption
<1>1. ASSUME NEW i \in Imports, NEW w \in BOOLEAN, ImportRefused(i, w)
      PROVE  NoOrphan'
  BY <1>1
    DEF TypeInv, TypeOK, Bookkeeping, NoOrphan, InFlight, InEvaluation, ImportRefused,
        UserRuns, Unborn, v8Vars, userVars, loadVars, queueVars, evalVars, pageVars
<1>2. ASSUME NEW i \in Imports, NEW w \in BOOLEAN, NEW m \in Modules, Import(i, m, w)
      PROVE  NoOrphan'
  <2>1. Unborn(i) /\ promise[i] = "unborn"
    BY <1>2 DEF Import, Unborn
  <2>2. /\ i \notin InFlight \cup InEvaluation \cup dynMap
        /\ \A x \in Modules : i \notin waiters[x]
    BY <2>1 DEF TypeInv, Bookkeeping
  <2>3. target' = [target EXCEPT ![i] = m] /\ UNCHANGED <<todo, keep, evalVars, flag, statics>>
    BY <1>2 DEF Import, pageVars
  <2>4. target'[i] = m /\ \A j \in Imports \ {i} : target'[j] = target[j]
    BY <2>3 DEF TypeInv, TypeOK
  <2>5. InEvaluation' = InEvaluation /\ InEvaluation \subseteq Imports \ {i}
    BY <2>2, <2>3 DEF InEvaluation, evalVars, TypeInv, TypeOK
  <2>6. CASE /\ StillRunning(m)
             /\ waiters' = [waiters EXCEPT ![m] = @ \cup {i}]
             /\ promise' = [promise EXCEPT ![i] = "pending"]
             /\ UNCHANGED <<dynMap, live>>
    <3>1. \E j \in InEvaluation : target[j] = m
      BY <2>6 DEF StillRunning, InEvaluation
    <3>2. \A x \in Modules : waiters'[x] # {} => \E j \in InEvaluation' : target'[j] = x
      BY <2>4, <2>5, <2>6, <3>1 DEF NoOrphan, TypeInv, TypeOK
    <3>3. \A j \in dynMap' : promise'[j] = "pending" => j \in InFlight' \cup InEvaluation'
      BY <2>2, <2>3, <2>5, <2>6 DEF NoOrphan, InFlight, TypeInv, TypeOK
    <3>4. \A j \in Imports : promise'[j] = "pending" => j \in dynMap' \/ j \in waiters'[target'[j]]
      BY <2>3, <2>4, <2>6 DEF NoOrphan, TypeInv, TypeOK
    <3> QED BY <2>3, <3>2, <3>3, <3>4 DEF NoOrphan
  <2>7. CASE promise' = [promise EXCEPT ![i] = "atOnce"] /\ UNCHANGED <<dynMap, live, waiters>>
    BY <2>2, <2>3, <2>4, <2>5, <2>7 DEF NoOrphan, InFlight, TypeInv, TypeOK
  <2>8. CASE /\ promise' = [promise EXCEPT ![i] = "pending"]
             /\ dynMap' = dynMap \cup {i} /\ live' = live \cup {i} /\ UNCHANGED waiters
    BY <2>2, <2>3, <2>4, <2>5, <2>8 DEF NoOrphan, InFlight, TypeInv, TypeOK
  <2>9. \/ /\ StillRunning(m)
           /\ waiters' = [waiters EXCEPT ![m] = @ \cup {i}]
           /\ promise' = [promise EXCEPT ![i] = "pending"]
           /\ UNCHANGED <<dynMap, live>>
        \/ promise' = [promise EXCEPT ![i] = "atOnce"] /\ UNCHANGED <<dynMap, live, waiters>>
        \/ /\ promise' = [promise EXCEPT ![i] = "pending"]
           /\ dynMap' = dynMap \cup {i} /\ live' = live \cup {i} /\ UNCHANGED waiters
    BY <1>2 DEF Import
  <2> QED BY <2>6, <2>7, <2>8, <2>9
<1>3. ASSUME NEW m \in Modules, Release(m) PROVE NoOrphan'
  <2>1. UNCHANGED <<userVars, dynMap, waiters, queueVars, evalVars>>
    BY <1>3 DEF Release
  <2>2. PICK settled \in SUBSET started :
          statics' = statics \ settled /\ flag' = (flag /\ statics \cap settled = {})
    BY <1>3 DEF Release
  <2>3. flag' => statics' # {}
    BY <2>2 DEF NoOrphan
  <2> QED
    BY <2>1, <2>3 DEF NoOrphan, InFlight, InEvaluation, userVars, queueVars, evalVars
<1>4. ASSUME PassBegins PROVE NoOrphan'
  BY <1>4
    DEF TypeInv, TypeOK, Bookkeeping, NoOrphan, InFlight, InEvaluation, PassBegins, v8Vars,
        userVars, loadVars, queueVars, evalVars, pageVars
<1>5. ASSUME NEW l \in Imports, LoadWaits(l) PROVE NoOrphan'
  BY <1>5
    DEF TypeInv, TypeOK, Bookkeeping, NoOrphan, InFlight, InEvaluation, LoadWaits,
        Draining, v8Vars, userVars, loadVars, queueVars, evalVars, pageVars
<1>6. ASSUME NEW l \in Imports, NEW m \in Modules, LoadRegisters(l, m)
      PROVE  NoOrphan'
  BY <1>6
    DEF TypeInv, TypeOK, Bookkeeping, NoOrphan, InFlight, InEvaluation, LoadRegisters,
        Draining, v8Vars, userVars, loadVars, queueVars, evalVars, pageVars
<1>7. ASSUME NEW l \in Imports, LoadFails(l) PROVE NoOrphan'
  BY <1>7
    DEF TypeInv, TypeOK, Bookkeeping, NoOrphan, InFlight, InEvaluation, LoadFails,
        LoadRejected, Draining, v8Vars, userVars, loadVars, queueVars, evalVars, pageVars
<1>8. ASSUME NEW l \in Imports, LoadFindsError(l) PROVE NoOrphan'
  BY <1>8
    DEF TypeInv, TypeOK, Bookkeeping, NoOrphan, InFlight, InEvaluation, LoadFindsError,
        LoadRejected, Draining, v8Vars, userVars, loadVars, queueVars, evalVars, pageVars
<1>9. ASSUME NEW l \in Imports, LoadEvaluates(l) PROVE NoOrphan'
  BY <1>9
    DEF TypeInv, TypeOK, Bookkeeping, NoOrphan, InFlight, InEvaluation, LoadEvaluates,
        Draining, v8Vars, userVars, loadVars, queueVars, evalVars, pageVars
<1>10. ASSUME DrainEnds PROVE NoOrphan'
  BY <1>10
    DEF TypeInv, TypeOK, Bookkeeping, NoOrphan, InFlight, InEvaluation, DrainEnds, v8Vars,
        userVars, loadVars, queueVars, evalVars, pageVars
<1>11. ASSUME NEW i \in Imports, StaysPending(i) PROVE NoOrphan'
  BY <1>11
    DEF TypeInv, TypeOK, Bookkeeping, NoOrphan, InFlight, InEvaluation, StaysPending,
        v8Vars, userVars, loadVars, queueVars, evalVars, pageVars
<1>12. ASSUME NEW i \in Imports, Settles(i) PROVE NoOrphan'
  BY <1>12
    DEF TypeInv, TypeOK, Bookkeeping, NoOrphan, InFlight, InEvaluation, Settles,
        AnsweredBy, v8Vars, userVars, loadVars, queueVars, evalVars, pageVars
<1>13. ASSUME SettleEnds PROVE NoOrphan'
  BY <1>13
    DEF TypeInv, TypeOK, Bookkeeping, NoOrphan, InFlight, InEvaluation, SettleEnds, v8Vars,
        userVars, loadVars, queueVars, evalVars, pageVars
<1>14. ASSUME NEW l \in Imports, LoadKilled(l) PROVE NoOrphan'
  BY <1>14
    DEF TypeInv, TypeOK, Bookkeeping, NoOrphan, InFlight, InEvaluation, LoadKilled,
        Draining, Surfaced, Survivors, v8Vars, userVars, loadVars, queueVars, evalVars,
        pageVars
<1>15. ASSUME NEW l \in Imports, BodyKilled(l) PROVE NoOrphan'
  BY <1>15
    DEF TypeInv, TypeOK, Bookkeeping, NoOrphan, InFlight, InEvaluation, BodyKilled,
        Draining, Surfaced, Survivors, v8Vars, userVars, loadVars, queueVars, evalVars,
        pageVars
<1>16. ASSUME NEW m \in Scripts, ScriptKilled(m) PROVE NoOrphan'
  BY <1>16
    DEF TypeInv, TypeOK, Bookkeeping, NoOrphan, InFlight, InEvaluation, ScriptKilled,
        HostGoesOn, GraphHere, v8Vars, userVars, loadVars, queueVars, evalVars, pageVars
<1>17. ASSUME ScriptPolls PROVE NoOrphan'
  BY <1>17
    DEF TypeInv, TypeOK, Bookkeeping, NoOrphan, InFlight, InEvaluation, ScriptPolls,
        v8Vars, userVars, loadVars, queueVars, evalVars, pageVars
<1>18. ASSUME NEW m \in Modules, ScriptRegisters(m) PROVE NoOrphan'
  BY <1>18
    DEF TypeInv, TypeOK, Bookkeeping, NoOrphan, InFlight, InEvaluation, ScriptRegisters,
        v8Vars, userVars, loadVars, queueVars, evalVars, pageVars
<1>19. ASSUME ScriptFails PROVE NoOrphan'
  BY <1>19
    DEF TypeInv, TypeOK, Bookkeeping, NoOrphan, InFlight, InEvaluation, ScriptFails,
        HostGoesOn, v8Vars, userVars, loadVars, queueVars, evalVars, pageVars
<1>20. ASSUME NEW m \in Scripts, ScriptKnown(m) PROVE NoOrphan'
  BY <1>20
    DEF TypeInv, TypeOK, Bookkeeping, NoOrphan, InFlight, InEvaluation, ScriptKnown,
        HostGoesOn, GraphHere, v8Vars, userVars, loadVars, queueVars, evalVars, pageVars
<1>21. ASSUME NEW m \in Scripts, ScriptEvaluates(m) PROVE NoOrphan'
  <2>1. flag' => statics' # {}
    <3>1. CASE Evaluated(m)
      BY <1>21, <3>1 DEF ScriptEvaluates, NoOrphan
    <3>2. CASE ~Evaluated(m)
      BY <1>21, <3>2 DEF ScriptEvaluates
    <3> QED BY <3>1, <3>2
  <2>2. UNCHANGED <<userVars, dynMap, waiters, queueVars, evalVars>>
    BY <1>21 DEF ScriptEvaluates
  <2> QED BY <2>1, <2>2 DEF NoOrphan, InFlight, InEvaluation, userVars, queueVars, evalVars
<1>22. ASSUME DriveEnds PROVE NoOrphan'
  BY <1>22
    DEF TypeInv, TypeOK, Bookkeeping, NoOrphan, InFlight, InEvaluation, DriveEnds, v8Vars,
        userVars, loadVars, queueVars, evalVars, pageVars
<1>23. ASSUME NEW m \in Scripts, ScriptBegins(m) PROVE NoOrphan'
  BY <1>23
    DEF TypeInv, TypeOK, Bookkeeping, NoOrphan, InFlight, InEvaluation, ScriptBegins,
        v8Vars, userVars, loadVars, queueVars, evalVars, pageVars
<1>24. ASSUME NEW l \in Loads, NEW m \in Modules, Network(l, m) PROVE NoOrphan'
  BY <1>24
    DEF TypeInv, TypeOK, Bookkeeping, NoOrphan, InFlight, InEvaluation, Network, Fetched,
        v8Vars, userVars, loadVars, queueVars, evalVars, pageVars
<1>25. ASSUME UNCHANGED vars PROVE NoOrphan'
  BY <1>25
    DEF TypeInv, TypeOK, Bookkeeping, NoOrphan, InFlight, InEvaluation, vars, v8Vars,
        userVars, loadVars, queueVars, evalVars, pageVars
<1> QED BY <1>1, <1>2, <1>3, <1>4, <1>5, <1>6, <1>7, <1>8, <1>9, <1>10, <1>11, <1>12,
           <1>13, <1>14, <1>15, <1>16, <1>17, <1>18, <1>19, <1>20, <1>21, <1>22, <1>23,
           <1>24, <1>25
       DEF Next, User, Pass, LoadStep, SettleStep, Watchdog, ScriptStep

\* Every unanswered import() is on a list that something settles it from, and
\* the loop is kept busy only by what has an owner, whatever is imported, fetched
\* or terminated in whatever order.
THEOREM NothingIsForgotten == Spec => []NoOrphan
<1>1. Init => NoOrphan
  BY DEF Init, NoOrphan, InFlight, InEvaluation
<1>2. TypeInv /\ NoOrphan /\ [Next]_vars => NoOrphan'
  BY NoOrphanStep
<1> QED BY <1>1, <1>2, TypeInvHolds, PTL DEF Spec

\* ---------------------------------------------------------------------------
\* Every verdict is earned.

LEMMA ReachIsClosed ==
    ASSUME NEW m \in Modules
    PROVE  m \in Reach[m] /\ Closed(Reach[m])
<1>1. m \in Reach[m]
  BY DEF Reach
<1>2. ASSUME NEW y \in Reach[m], NEW z \in Deps[y] PROVE z \in Reach[m]
  <2>1. y \in Modules /\ z \in Modules
    BY GraphAssumption DEF Reach
  <2>2. ASSUME NEW S \in SUBSET Modules, m \in S, Closed(S) PROVE z \in S
    <3>1. y \in S
      BY <2>2 DEF Reach
    <3> QED BY <2>2, <3>1 DEF Closed
  <2> QED BY <2>1, <2>2 DEF Reach
<1> QED BY <1>1, <1>2 DEF Closed

\* The graph of a module holds the graphs of its members.
LEMMA ReachHoldsReach ==
    ASSUME NEW m \in Modules, NEW y \in Reach[m]
    PROVE  y \in Modules /\ Reach[y] \subseteq Reach[m]
<1>1. Reach[m] \in SUBSET Modules /\ Closed(Reach[m])
  BY ReachIsModules, ReachIsClosed
<1> QED BY <1>1, ClosedHoldsReach

\* A walk stays within the graph that it starts from.
LEMMA WalkedInside ==
    ASSUME NEW reg, NEW old, NEW t \in Modules, NEW m \in Reach[t]
    PROVE  Walked(reg, old, m) \subseteq Reach[t]
<1>1. Reach[t] \in SUBSET Modules /\ \A y \in Reach[t] : Deps[y] \subseteq Reach[t]
  BY ReachIsModules, ReachIsClosed DEF Closed
<1>2. Deps[m] \ old \subseteq Reach[t]
      /\ \A y \in Reach[t] \cap reg : Deps[y] \ old \subseteq Reach[t]
  BY <1>1
<1> QED BY <1>1, <1>2 DEF Walked

\* A load for r asks for nothing outside r's graph, and fails only where a
\* fetch may fail.
Inside(r, S, f) ==
    /\ \A x \in S \cup Pending(f) : r \in Modules /\ x \in Reach[r]
    /\ \A x \in Modules : f[x] = "failed" => x \in Flaky

Within == \A l \in Loads : Inside(target[l], seen[l], fut[l])

LEMMA NothingInside ==
    ASSUME NEW r PROVE Inside(r, {}, Unfetched)
BY DEF Inside, Pending, Unfetched

LEMMA SpawnedInside ==
    ASSUME NEW r \in Modules, NEW S \in SUBSET Reach[r], NEW N \in SUBSET Reach[r],
           NEW f \in Futures, \A x \in Pending(f) : x \in Reach[r],
           \A x \in Modules : f[x] = "failed" => x \in Flaky
    PROVE  Inside(r, S, Spawned(f, N))
<1>1. \A x \in Modules : Spawned(f, N)[x] = IF x \in N THEN "new" ELSE f[x]
  BY DEF Spawned
<1>2. \A x \in Pending(Spawned(f, N)) : x \in N \/ x \in Pending(f)
  BY <1>1 DEF Pending
<1> QED BY <1>1, <1>2 DEF Inside

LEMMA PolledInside ==
    ASSUME NEW r, NEW S, NEW f \in Futures, NEW P, Inside(r, S, f)
    PROVE  Inside(r, S, Polled(f, P))
<1>1. \A x \in Modules : \/ Polled(f, P)[x] = f[x]
                         \/ f[x] = "new" /\ Polled(f, P)[x] = "sent"
  BY DEF Polled
<1>2. Pending(Polled(f, P)) = Pending(f)
  BY <1>1 DEF Pending
<1> QED BY <1>1, <1>2 DEF Inside

LEMMA OpenedInside ==
    ASSUME TypeInv, Within, NEW l \in Loads, target[l] \in Modules
    PROVE  Inside(target[l], Seen(l), Fut(l))
<1> DEFINE r == target[l]
<1>1. CASE seen[l] # {}
  BY <1>1 DEF Within, Seen, Fut
<1>2. CASE seen[l] = {}
  <2>1. r \in Reach[r] /\ Reach[r] \subseteq Modules
    BY ReachIsClosed, ReachIsModules
  <2>2. Seen(l) \subseteq Reach[r]
    BY <1>2, <2>1, WalkedInside DEF Seen
  <2> DEFINE N == IF r \in registered THEN Seen(l) \ registered ELSE {r}
  <2>3. Fut(l) = Spawned(Unfetched, N) /\ N \subseteq Reach[r]
    BY <1>2, <2>1, <2>2 DEF Fut
  <2>4. /\ Unfetched \in Futures /\ Pending(Unfetched) = {}
        /\ \A x \in Modules : Unfetched[x] # "failed"
    BY DEF Unfetched, Futures, Pending
  <2> HIDE DEF N
  <2> QED BY <2>2, <2>3, <2>4, SpawnedInside
<1> QED BY <1>1, <1>2

LEMMA TaughtInside ==
    ASSUME TypeInv, NEW l \in Loads, NEW r \in Modules, NEW m \in Reach[r],
           NEW old \in SUBSET Modules, NEW f \in Futures, Inside(r, old, f),
           Taught(l, m, old, f)
    PROVE  /\ Inside(r, seen'[l], fut'[l])
           /\ \A k \in Loads \ {l} : seen'[k] = seen[k] /\ fut'[k] = fut[k]
<1> DEFINE reg == registered \cup {m}
           new == Walked(reg, old, m)
           h == [f EXCEPT ![m] = "none"]
           g == Spawned(h, new \ reg)
           S == old \cup new
<1>1. seen' = [seen EXCEPT ![l] = S] /\ fut' = [fut EXCEPT ![l] = g]
  BY DEF Taught
<1>2. new \subseteq Reach[r]
  BY WalkedInside
<1>3. S \subseteq Reach[r]
  BY <1>2 DEF Inside
<1>4. h \in Futures /\ \A x \in Modules : h[x] = f[x] \/ h[x] = "none"
  BY DEF Futures
<1> HIDE DEF h
<1>5. /\ \A x \in Pending(h) : x \in Reach[r]
      /\ \A x \in Modules : h[x] = "failed" => x \in Flaky
  BY <1>4 DEF Pending, Inside
<1>6. new \ reg \in SUBSET Reach[r] /\ S \in SUBSET Reach[r]
  BY <1>2, <1>3
<1> HIDE DEF new, reg, S
<1>7. Inside(r, S, g)
  BY <1>4, <1>5, <1>6, SpawnedInside
<1>8. /\ seen'[l] = S /\ fut'[l] = g
      /\ \A k \in Loads \ {l} : seen'[k] = seen[k] /\ fut'[k] = fut[k]
  BY <1>1 DEF TypeInv, TypeOK
<1> QED BY <1>7, <1>8

\* The root of an import() that has not been made is nothing, and who waits for
\* a module asked for it.
Targets ==
    /\ \A i \in Imports : promise[i] = "unborn" => target[i] = None
    /\ \A m \in Modules : \A i \in waiters[m] : target[i] = m

LEMMA WithinStays ==
    ASSUME Within, UNCHANGED <<target, seen, fut>> PROVE Within'
BY DEF Within

LEMMA WithinForgets ==
    ASSUME TypeInv, Within, NEW l \in Loads, Forgotten(l), UNCHANGED target PROVE Within'
<1>1. ASSUME NEW k \in Loads PROVE Inside(target'[k], seen'[k], fut'[k])
  <2>1. CASE k = l
    <3>1. seen'[k] = {} /\ fut'[k] = Unfetched
      BY <2>1 DEF Forgotten, TypeInv, TypeOK
    <3> QED BY <3>1, NothingInside
  <2>2. CASE k # l
    <3>1. seen'[k] = seen[k] /\ fut'[k] = fut[k] /\ target'[k] = target[k]
      BY <2>2 DEF Forgotten, TypeInv, TypeOK
    <3> QED BY <3>1 DEF Within
  <2> QED BY <2>1, <2>2
<1> QED BY <1>1 DEF Within

\* One load goes on, the others stay as they are.
LEMMA WithinMoves ==
    ASSUME Within, NEW l \in Loads, Inside(target'[l], seen'[l], fut'[l]),
           \A k \in Loads \ {l} : /\ seen'[k] = seen[k] /\ fut'[k] = fut[k]
                                 /\ target'[k] = target[k]
    PROVE  Within'
<1>1. ASSUME NEW k \in Loads PROVE Inside(target'[k], seen'[k], fut'[k])
  <2>1. CASE k = l
    BY <2>1
  <2>2. CASE k # l
    BY <2>2 DEF Within
  <2> QED BY <2>1, <2>2
<1> QED BY <1>1 DEF Within

\* Every step keeps each load within its graph.
LEMMA WithinStep ==
    ASSUME TypeInv, Targets, Within, [Next]_vars
    PROVE  Within'
<1> USE LoadsAre, TraitAssumption DEF Within
<1>1. ASSUME NEW i \in Imports, NEW w \in BOOLEAN, ImportRefused(i, w) PROVE Within'
  BY <1>1, WithinStays DEF ImportRefused, loadVars
<1>2. ASSUME NEW i \in Imports, NEW w \in BOOLEAN, NEW m \in Modules, Import(i, m, w)
      PROVE  Within'
  <2>1. /\ UNCHANGED <<seen, fut>>
        /\ target' = [target EXCEPT ![i] = m]
    BY <1>2 DEF Import, loadVars
  <2>2. target[i] = None
    BY <1>2 DEF Import, Unborn, Targets
  <2>3. Inside(None, seen[i], fut[i])
    BY <2>2
  <2>4. seen[i] \cup Pending(fut[i]) = {} /\ \A x \in Modules : fut[i][x] = "failed" => x \in Flaky
    BY <2>3, GraphAssumption DEF Inside
  <2>5. Inside(target'[i], seen'[i], fut'[i])
    BY <2>1, <2>4 DEF Inside
  <2>6. \A k \in Loads \ {i} : target'[k] = target[k]
    BY <2>1 DEF TypeInv, TypeOK
  <2> QED BY <2>1, <2>5, <2>6, WithinMoves
<1>3. ASSUME NEW m \in Modules, Release(m) PROVE Within'
  BY <1>3, WithinStays DEF Release, loadVars, userVars
<1>4. ASSUME PassBegins PROVE Within'
  BY <1>4, WithinStays DEF PassBegins, loadVars, userVars
<1>5. ASSUME NEW l \in Imports, LoadWaits(l) PROVE Within'
  <2>1. target[l] \in Modules /\ Fut(l) \in Futures
    BY <1>5, OpenedTypes DEF TypeInv, Bookkeeping, InFlight, LoadWaits, Draining
  <2>2. Inside(target[l], Seen(l), Polled(Fut(l), Modules))
    BY <2>1, OpenedInside, PolledInside
  <2>3. /\ seen' = [seen EXCEPT ![l] = Seen(l)]
        /\ fut' = [fut EXCEPT ![l] = Polled(Fut(l), Modules)]
        /\ target' = target
    BY <1>5 DEF LoadWaits, userVars
  <2>4. /\ seen'[l] = Seen(l) /\ fut'[l] = Polled(Fut(l), Modules)
        /\ \A k \in Loads \ {l} : seen'[k] = seen[k] /\ fut'[k] = fut[k]
    BY <2>3 DEF TypeInv, TypeOK
  <2> QED BY <2>2, <2>3, <2>4, WithinMoves
<1>6. ASSUME NEW l \in Imports, NEW m \in Modules, LoadRegisters(l, m) PROVE Within'
  <2>1. target[l] \in Modules /\ Fut(l) \in Futures /\ Seen(l) \in SUBSET Modules
    BY <1>6, OpenedTypes DEF TypeInv, Bookkeeping, InFlight, LoadRegisters, Draining
  <2>2. target' = target /\ Source(Fut(l), m)
    BY <1>6 DEF LoadRegisters, userVars
  <2>3. PICK S : Taught(l, m, Seen(l), Polled(Fut(l), S))
    BY <1>6 DEF LoadRegisters
  <2>4. Inside(target[l], Seen(l), Fut(l))
    BY <2>1, OpenedInside
  <2>5. m \in Reach[target[l]]
    BY <2>2, <2>4 DEF Inside, Pending, Source
  <2>6. /\ Polled(Fut(l), S) \in Futures
        /\ Inside(target[l], Seen(l), Polled(Fut(l), S))
    BY <2>1, <2>4, PolledTypes, PolledInside
  <2>7. /\ Inside(target[l], seen'[l], fut'[l])
        /\ \A k \in Loads \ {l} : seen'[k] = seen[k] /\ fut'[k] = fut[k]
    BY <2>1, <2>3, <2>5, <2>6, TaughtInside
  <2> QED BY <2>2, <2>7, WithinMoves
<1>7. ASSUME NEW l \in Imports, LoadFails(l) PROVE Within'
  BY <1>7, WithinForgets DEF LoadFails, LoadRejected
<1>8. ASSUME NEW l \in Imports, LoadFindsError(l) PROVE Within'
  BY <1>8, WithinForgets DEF LoadFindsError, LoadRejected
<1>9. ASSUME NEW l \in Imports, LoadEvaluates(l) PROVE Within'
  BY <1>9, WithinForgets DEF LoadEvaluates, userVars
<1>10. ASSUME DrainEnds PROVE Within'
  BY <1>10, WithinStays DEF DrainEnds, loadVars, userVars
<1>11. ASSUME NEW i \in Imports, StaysPending(i) PROVE Within'
  BY <1>11, WithinStays DEF StaysPending, loadVars, userVars
<1>12. ASSUME NEW i \in Imports, Settles(i) PROVE Within'
  BY <1>12, WithinStays DEF Settles, loadVars
<1>13. ASSUME SettleEnds PROVE Within'
  BY <1>13, WithinStays DEF SettleEnds, loadVars, userVars
<1>14. ASSUME NEW l \in Imports, LoadKilled(l) PROVE Within'
  BY <1>14, WithinForgets DEF LoadKilled, Surfaced
<1>15. ASSUME NEW l \in Imports, BodyKilled(l) PROVE Within'
  BY <1>15, WithinForgets DEF BodyKilled, Surfaced
<1>16. ASSUME NEW m \in Scripts, ScriptKilled(m) PROVE Within'
  BY <1>16, WithinForgets DEF ScriptKilled, userVars
<1>17. ASSUME ScriptPolls PROVE Within'
  <2>1. fut[Page] \in Futures /\ Inside(target[Page], seen[Page], fut[Page])
    BY DEF TypeInv, TypeOK
  <2>2. Inside(target[Page], seen[Page], Polled(fut[Page], Modules \ Local))
    BY <2>1, PolledInside
  <2>3. /\ fut' = [fut EXCEPT ![Page] = Polled(fut[Page], Modules \ Local)]
        /\ seen' = seen /\ target' = target
    BY <1>17 DEF ScriptPolls, userVars
  <2>4. /\ fut'[Page] = Polled(fut[Page], Modules \ Local)
        /\ \A k \in Loads \ {Page} : fut'[k] = fut[k]
    BY <2>3 DEF TypeInv, TypeOK
  <2> QED BY <2>2, <2>3, <2>4, WithinMoves
<1>18. ASSUME NEW m \in Modules, ScriptRegisters(m) PROVE Within'
  <2>1. /\ target[Page] \in Modules
        /\ fut[Page] \in Futures /\ seen[Page] \in SUBSET Modules
        /\ Inside(target[Page], seen[Page], fut[Page])
    BY <1>18 DEF TypeInv, TypeOK, Bookkeeping, ScriptRegisters
  <2>2. m \in Reach[target[Page]]
    BY <1>18, <2>1 DEF ScriptRegisters, Source, Inside, Pending
  <2>3. Taught(Page, m, seen[Page], fut[Page]) /\ target' = target
    BY <1>18 DEF ScriptRegisters, userVars
  <2>4. /\ Inside(target[Page], seen'[Page], fut'[Page])
        /\ \A k \in Loads \ {Page} : seen'[k] = seen[k] /\ fut'[k] = fut[k]
    BY <2>1, <2>2, <2>3, TaughtInside
  <2> QED BY <2>3, <2>4, WithinMoves
<1>19. ASSUME ScriptFails PROVE Within'
  BY <1>19, WithinForgets DEF ScriptFails, userVars
<1>20. ASSUME NEW m \in Scripts, ScriptKnown(m) PROVE Within'
  BY <1>20, WithinForgets DEF ScriptKnown, userVars
<1>21. ASSUME NEW m \in Scripts, ScriptEvaluates(m) PROVE Within'
  BY <1>21, WithinForgets DEF ScriptEvaluates, userVars
<1>22. ASSUME DriveEnds PROVE Within'
  BY <1>22, WithinStays DEF DriveEnds, loadVars, userVars
<1>23. ASSUME NEW m \in Scripts, ScriptBegins(m) PROVE Within'
  <2>1. /\ m \in Modules /\ {m} \in SUBSET Modules
        /\ Unfetched \in Futures /\ m \in Reach[m]
    BY ReachIsClosed DEF Unfetched, Futures
  <2>2. Inside(m, {m}, Unfetched)
    BY <2>1 DEF Inside, Pending, Unfetched
  <2>3. Taught(Page, m, {m}, Unfetched) /\ target' = [target EXCEPT ![Page] = m]
    BY <1>23 DEF ScriptBegins
  <2>4. /\ Inside(m, seen'[Page], fut'[Page])
        /\ \A k \in Loads \ {Page} : seen'[k] = seen[k] /\ fut'[k] = fut[k]
    BY <2>1, <2>2, <2>3, TaughtInside
  <2>5. target'[Page] = m /\ \A k \in Loads \ {Page} : target'[k] = target[k]
    BY <2>3 DEF TypeInv, TypeOK
  <2> QED BY <2>4, <2>5, WithinMoves
<1>24. ASSUME NEW l \in Loads, NEW m \in Modules, Network(l, m) PROVE Within'
  <2>1. PICK verdict \in {"ready", "failed"} : Fetched(l, m, verdict)
    BY <1>24 DEF Network
  <2>2. /\ fut[l][m] = "sent" /\ (verdict = "failed" => m \in Flaky)
        /\ fut' = [fut EXCEPT ![l][m] = verdict]
        /\ seen' = seen /\ target' = target
    BY <2>1 DEF Fetched, userVars
  <2>3. /\ \A x \in Modules : fut'[l][x] = IF x = m THEN verdict ELSE fut[l][x]
        /\ \A k \in Loads \ {l} : fut'[k] = fut[k]
    BY <2>2 DEF TypeInv, TypeOK, Futures
  <2>4. Pending(fut'[l]) = Pending(fut[l])
    BY <2>2, <2>3 DEF Pending
  <2>5. Inside(target[l], seen[l], fut'[l])
    BY <2>2, <2>3, <2>4 DEF Inside
  <2> QED BY <2>2, <2>3, <2>5, WithinMoves
<1>25. ASSUME UNCHANGED vars PROVE Within'
  BY <1>25, WithinStays DEF vars, loadVars, userVars
<1> QED BY <1>1, <1>2, <1>3, <1>4, <1>5, <1>6, <1>7, <1>8, <1>9, <1>10, <1>11, <1>12,
           <1>13, <1>14, <1>15, <1>16, <1>17, <1>18, <1>19, <1>20, <1>21, <1>22, <1>23,
           <1>24, <1>25
       DEF Next, User, Pass, LoadStep, SettleStep, Watchdog, ScriptStep

\* Who asks for which module, step by step.
LEMMA TargetSteps ==
    ASSUME TypeInv, [Next]_vars
    PROVE  \A i \in Imports :
             /\ promise'[i] = "unborn" => promise[i] = "unborn"
             /\ promise[i] # "unborn" \/ promise'[i] = promise[i] => target'[i] = target[i]
             /\ \A m \in Modules : i \in waiters'[m] =>
                  i \in waiters[m] \/ (promise[i] = "unborn" /\ target'[i] = m)
<1> USE LoadsAre, TraitAssumption
<1> DEFINE Goal ==
      \A i \in Imports :
        /\ promise'[i] = "unborn" => promise[i] = "unborn"
        /\ promise[i] # "unborn" \/ promise'[i] = promise[i] => target'[i] = target[i]
        /\ \A m \in Modules : i \in waiters'[m] =>
             i \in waiters[m] \/ (promise[i] = "unborn" /\ target'[i] = m)
<1>1. ASSUME NEW i \in Imports, NEW w \in BOOLEAN, ImportRefused(i, w) PROVE Goal
  BY <1>1
    DEF TypeInv, TypeOK, ImportRefused, UserRuns, Unborn, userVars
<1>2. ASSUME NEW i \in Imports, NEW w \in BOOLEAN, NEW m \in Modules, Import(i, m, w) PROVE Goal
  <2>1. /\ promise[i] = "unborn" /\ target' = [target EXCEPT ![i] = m]
        /\ waiters' = waiters \/ waiters' = [waiters EXCEPT ![m] = @ \cup {i}]
        /\ \E p \in {"pending", "atOnce"} : promise' = [promise EXCEPT ![i] = p]
    BY <1>2 DEF Import, Unborn
  <2> QED BY <2>1 DEF TypeInv, TypeOK
<1>3. ASSUME NEW m \in Modules, Release(m) PROVE Goal
  BY <1>3
    DEF TypeInv, TypeOK, Release, userVars
<1>4. ASSUME PassBegins PROVE Goal
  BY <1>4
    DEF TypeInv, TypeOK, PassBegins, userVars
<1>5. ASSUME NEW l \in Imports, LoadWaits(l) PROVE Goal
  BY <1>5
    DEF TypeInv, TypeOK, LoadWaits, Draining, userVars
<1>6. ASSUME NEW l \in Imports, NEW m \in Modules, LoadRegisters(l, m) PROVE Goal
  BY <1>6
    DEF TypeInv, TypeOK, LoadRegisters, Draining, userVars
<1>7. ASSUME NEW l \in Imports, LoadFails(l) PROVE Goal
  BY <1>7
    DEF TypeInv, TypeOK, LoadFails, LoadRejected, Draining, userVars
<1>8. ASSUME NEW l \in Imports, LoadFindsError(l) PROVE Goal
  BY <1>8
    DEF TypeInv, TypeOK, LoadFindsError, LoadRejected, Draining, userVars
<1>9. ASSUME NEW l \in Imports, LoadEvaluates(l) PROVE Goal
  BY <1>9
    DEF TypeInv, TypeOK, LoadEvaluates, Draining, userVars
<1>10. ASSUME DrainEnds PROVE Goal
  BY <1>10
    DEF TypeInv, TypeOK, DrainEnds, userVars
<1>11. ASSUME NEW i \in Imports, StaysPending(i) PROVE Goal
  BY <1>11
    DEF TypeInv, TypeOK, StaysPending, userVars
<1>12. ASSUME NEW i \in Imports, Settles(i) PROVE Goal
  BY <1>12
    DEF TypeInv, TypeOK, Settles, userVars
<1>13. ASSUME SettleEnds PROVE Goal
  BY <1>13
    DEF TypeInv, TypeOK, SettleEnds, userVars
<1>14. ASSUME NEW l \in Imports, LoadKilled(l) PROVE Goal
  BY <1>14
    DEF TypeInv, TypeOK, LoadKilled, Draining, Surfaced, userVars
<1>15. ASSUME NEW l \in Imports, BodyKilled(l) PROVE Goal
  BY <1>15
    DEF TypeInv, TypeOK, BodyKilled, Draining, Surfaced, userVars
<1>16. ASSUME NEW m \in Scripts, ScriptKilled(m) PROVE Goal
  BY <1>16
    DEF TypeInv, TypeOK, ScriptKilled, userVars
<1>17. ASSUME ScriptPolls PROVE Goal
  BY <1>17
    DEF TypeInv, TypeOK, ScriptPolls, userVars
<1>18. ASSUME NEW m \in Modules, ScriptRegisters(m) PROVE Goal
  BY <1>18
    DEF TypeInv, TypeOK, ScriptRegisters, userVars
<1>19. ASSUME ScriptFails PROVE Goal
  BY <1>19
    DEF TypeInv, TypeOK, ScriptFails, userVars
<1>20. ASSUME NEW m \in Scripts, ScriptKnown(m) PROVE Goal
  BY <1>20
    DEF TypeInv, TypeOK, ScriptKnown, userVars
<1>21. ASSUME NEW m \in Scripts, ScriptEvaluates(m) PROVE Goal
  BY <1>21
    DEF TypeInv, TypeOK, ScriptEvaluates, userVars
<1>22. ASSUME DriveEnds PROVE Goal
  BY <1>22
    DEF TypeInv, TypeOK, DriveEnds, userVars
<1>23. ASSUME NEW m \in Scripts, ScriptBegins(m) PROVE Goal
  BY <1>23
    DEF TypeInv, TypeOK, ScriptBegins, userVars
<1>24. ASSUME NEW l \in Loads, NEW m \in Modules, Network(l, m) PROVE Goal
  BY <1>24
    DEF TypeInv, TypeOK, Network, Fetched, userVars
<1>25. ASSUME UNCHANGED vars PROVE Goal
  BY <1>25
    DEF TypeInv, TypeOK, vars, userVars
<1> HIDE DEF Goal
<1> QED
  <2>1. Goal
    BY <1>1, <1>2, <1>3, <1>4, <1>5, <1>6, <1>7, <1>8, <1>9, <1>10, <1>11, <1>12, <1>13,
       <1>14, <1>15, <1>16, <1>17, <1>18, <1>19, <1>20, <1>21, <1>22, <1>23, <1>24, <1>25
      DEF Next, User, Pass, LoadStep, SettleStep, Watchdog, ScriptStep
  <2> QED BY <2>1 DEF Goal

LEMMA TargetsStep ==
    ASSUME TypeInv, Targets, [Next]_vars
    PROVE  Targets'
<1>1. ASSUME NEW i \in Imports, promise'[i] = "unborn" PROVE target'[i] = None
  BY <1>1, TargetSteps DEF Targets
<1>2. ASSUME NEW m \in Modules, NEW i \in waiters'[m] PROVE target'[i] = m
  <2>1. i \in Imports
    BY TypeStep DEF TypeOK
  <2>2. i \in waiters[m] => promise[i] # "unborn"
    BY <2>1 DEF TypeInv, Bookkeeping
  <2> QED BY <2>1, <2>2, TargetSteps DEF Targets
<1> QED BY <1>1, <1>2 DEF Targets

\* ---------------------------------------------------------------------------
\* What ran.

\* With st begun, kd stopped and back come back: the graph of a module that has
\* begun has begun as a whole, or one of its members failed.
Whole(st, kd, back) ==
    \A m \in st : \/ Reach[m] \subseteq st
                  \/ \E x \in Reach[m] \cap st :
                        x \in kd \/ (x \in Throws /\ Awaits \cap Reach[x] \subseteq back)

Ran == /\ started \subseteq registered
       /\ Whole(started, killed, released)
       /\ \A i \in InEvaluation : target[i] \in started

LEMMA WholeGrows ==
    ASSUME NEW st, NEW kd, NEW back, NEW kdd, NEW later,
           Whole(st, kd, back), kd \subseteq kdd, back \subseteq later
    PROVE  Whole(st, kdd, later)
BY DEF Whole

\* A whole graph runs.
LEMMA GraphRuns ==
    ASSUME NEW st \in SUBSET Modules, NEW kd, NEW back, Whole(st, kd, back), NEW m \in Modules
    PROVE  Whole(st \cup Reach[m], kd, back)
<1>1. ASSUME NEW y \in Reach[m] PROVE Reach[y] \subseteq Reach[m]
  BY ReachHoldsReach
<1> QED BY <1>1 DEF Whole

\* A graph runs up to a member that fails.
LEMMA GraphIsCut ==
    ASSUME TypeInv, NEW kd, NEW back, Whole(started, kd, back),
           NEW m \in Modules, NEW x \in Reach[m], NEW run \in Cuts(m, x),
           x \in kd \/ (x \in Throws /\ Awaits \cap Reach[x] \subseteq back)
    PROVE  Whole(started \cup run, kd, back)
<1>1. x \in Reach[x]
  BY ReachIsClosed, ReachIsModules
<1>2. x \in started \cup run
  BY DEF Cuts, Begun
<1>3. ASSUME NEW y \in run, x \notin Reach[y] PROVE Reach[y] \subseteq started \cup run
  BY <1>1, <1>3 DEF Cuts, Begun
<1> QED BY <1>2, <1>3 DEF Whole

\* An evaluation begins at its root and stays in its graph.
LEMMA CutIsRooted ==
    ASSUME NEW m \in Modules \ started, NEW x, NEW run \in Cuts(m, x)
    PROVE  m \in run /\ run \subseteq Reach[m]
BY DEF Cuts, Begun

LEMMA RunIsWhole ==
    ASSUME TypeInv, Ran, NEW m \in Modules \ started, NEW run \in Runs(m)
    PROVE  Whole(started \cup run, killed, released) /\ m \in run /\ run \subseteq Reach[m]
<1>1. started \in SUBSET Modules /\ Whole(started, killed, released)
  BY DEF TypeInv, TypeOK, Ran
<1>2. m \in Reach[m]
  BY ReachIsClosed
<1>3. CASE run = Reach[m]
  BY <1>1, <1>2, <1>3, GraphRuns
<1>4. CASE \E x \in Fatal(m) : run \in Cuts(m, x)
  <2>1. PICK x \in Fatal(m) : run \in Cuts(m, x)
    BY <1>4
  <2>2. x \in Reach[m]
        /\ (x \in killed \/ (x \in Throws /\ Awaits \cap Reach[x] \subseteq released))
    BY DEF Fatal, Stopped
  <2>3. Whole(started \cup run, killed, released)
    BY <1>1, <2>1, <2>2, GraphIsCut
  <2> QED BY <2>1, <2>3, CutIsRooted
<1> QED BY <1>3, <1>4 DEF Runs

\* The watchdog stops x while m's graph runs.
LEMMA KillIsWhole ==
    ASSUME TypeInv, Ran, NEW m \in Modules \ started, NEW x \in Reach[m], NEW run \in Cuts(m, x)
    PROVE  Whole(started \cup run, killed \cup {x}, released) /\ run \subseteq Reach[m]
<1>1. Whole(started, killed \cup {x}, released)
  BY WholeGrows DEF Ran
<1>2. x \in killed \cup {x}
  OBVIOUS
<1> QED BY <1>1, <1>2, GraphIsCut, CutIsRooted

\* Nothing of a graph that began failed: all of it began.
LEMMA NotFailedIsWhole ==
    ASSUME TypeInv, Ran, NEW m \in started, Outcome(m) # "rejected"
    PROVE  Reach[m] \subseteq registered \cap started
<1>1. ~\E x \in Reach[m] \cap started :
         x \in killed \/ (x \in Throws /\ Awaits \cap Reach[x] \subseteq released)
  BY DEF Outcome, Verdict, Stopped
<1>2. Reach[m] \subseteq started
  BY <1>1 DEF Ran, Whole
<1> QED BY <1>2 DEF Ran

\* A failed evaluation has a member to blame.
LEMMA FailedIsBlamed ==
    ASSUME TypeInv, NEW m \in Modules, Outcome(m) = "rejected"
    PROVE  Reach[m] \cap (Throws \cup killed) # {}
<1>1. CASE \E x \in Reach[m] \cap started : Stopped(x, released)
  BY <1>1 DEF Stopped
<1>2. CASE ~\E x \in Reach[m] \cap started : Stopped(x, released)
  <2>1. Outcome(m) # "rejected"
    BY <1>2 DEF Outcome, Verdict
  <2> QED BY <2>1
<1> QED BY <1>1, <1>2

LEMMA RanMoves ==
    ASSUME TypeInv, Ran, [Next]_vars,
           Whole(started', killed', released'), started' \subseteq registered',
           started \subseteq started',
           \A i \in InEvaluation' : i \in InEvaluation \/ target'[i] \in started'
    PROVE  Ran'
<1>1. ASSUME NEW i \in InEvaluation PROVE target'[i] \in started'
  <2>1. i \in Imports /\ promise[i] # "unborn"
    BY DEF TypeInv, TypeOK, Bookkeeping, InEvaluation
  <2>2. target'[i] = target[i]
    BY <2>1, TargetSteps
  <2> QED BY <2>2 DEF Ran
<1>2. \A i \in InEvaluation' : target'[i] \in started'
  BY <1>1
<1> QED BY <1>2 DEF Ran

\* Steps that run nothing.
LEMMA RanStays ==
    ASSUME TypeInv, Ran, [Next]_vars, UNCHANGED <<started, killed>>,
           registered \subseteq registered', released \subseteq released',
           InEvaluation' \subseteq InEvaluation
    PROVE  Ran'
<1>1. Whole(started', killed', released')
  BY WholeGrows DEF Ran
<1> QED BY <1>1, RanMoves DEF Ran

\* Every step keeps the account of what ran.
LEMMA RanStep ==
    ASSUME TypeInv, LinkNeverMisses, Ran, [Next]_vars
    PROVE  Ran'
<1> USE LoadsAre, TraitAssumption
<1> DEFINE Quiet == /\ UNCHANGED <<started, killed>>
                    /\ registered \subseteq registered' /\ released \subseteq released'
                    /\ InEvaluation' \subseteq InEvaluation
<1>1. ASSUME NEW i \in Imports, NEW w \in BOOLEAN, ImportRefused(i, w) PROVE Quiet
  BY <1>1
    DEF InEvaluation, v8Vars, evalVars, ImportRefused
<1>2. ASSUME NEW i \in Imports, NEW w \in BOOLEAN, NEW m \in Modules, Import(i, m, w) PROVE Quiet
  BY <1>2
    DEF InEvaluation, v8Vars, evalVars, Import
<1>3. ASSUME NEW m \in Modules, Release(m) PROVE Quiet
  BY <1>3
    DEF InEvaluation, v8Vars, evalVars, Release
<1>4. ASSUME PassBegins PROVE Quiet
  BY <1>4
    DEF InEvaluation, v8Vars, evalVars, PassBegins
<1>5. ASSUME NEW l \in Imports, LoadWaits(l) PROVE Quiet
  BY <1>5
    DEF InEvaluation, v8Vars, evalVars, LoadWaits
<1>6. ASSUME NEW l \in Imports, NEW m \in Modules, LoadRegisters(l, m) PROVE Quiet
  BY <1>6
    DEF InEvaluation, v8Vars, evalVars, LoadRegisters, Taught
<1>7. ASSUME NEW l \in Imports, LoadFails(l) PROVE Quiet
  BY <1>7
    DEF InEvaluation, v8Vars, evalVars, LoadFails, LoadRejected
<1>8. ASSUME NEW l \in Imports, LoadFindsError(l) PROVE Quiet
  BY <1>8
    DEF InEvaluation, v8Vars, evalVars, LoadFindsError, LoadRejected
<1>9. ASSUME NEW l \in Imports, LoadEvaluates(l) PROVE Ran'
  <2> DEFINE root == target[l]
  <2>1. root \in Modules /\ Reach[root] \subseteq registered
    BY <1>9 DEF TypeInv, Bookkeeping, InFlight, LoadEvaluates, Draining, LinkNeverMisses
  <2>2. /\ UNCHANGED <<registered, killed, released, taken, still>>
        /\ target' = target /\ evals' = evals \cup {l}
    BY <1>9 DEF LoadEvaluates, userVars
  <2>3. PICK run \in IF root \in started THEN {{}} ELSE Runs(root) : started' = started \cup run
    BY <1>9 DEF LoadEvaluates
  <2>4. /\ Whole(started', killed', released') /\ root \in started'
        /\ started' \subseteq registered'
    <3>1. CASE root \in started
      <4>1. started' = started
        BY <2>3, <3>1
      <4> QED BY <2>2, <3>1, <4>1 DEF Ran
    <3>2. CASE root \notin started
      BY <2>1, <2>2, <2>3, <3>2, RunIsWhole DEF Ran
    <3> QED BY <3>1, <3>2
  <2>5. \A i \in InEvaluation' : i \in InEvaluation \/ target'[i] \in started'
    BY <2>2, <2>4 DEF InEvaluation
  <2> QED BY <2>3, <2>4, <2>5, RanMoves
<1>10. ASSUME DrainEnds PROVE Quiet
  BY <1>10
    DEF InEvaluation, v8Vars, evalVars, DrainEnds
<1>11. ASSUME NEW i \in Imports, StaysPending(i) PROVE Quiet
  BY <1>11
    DEF InEvaluation, v8Vars, evalVars, StaysPending
<1>12. ASSUME NEW i \in Imports, Settles(i) PROVE Quiet
  BY <1>12
    DEF InEvaluation, v8Vars, evalVars, Settles
<1>13. ASSUME SettleEnds PROVE Quiet
  BY <1>13
    DEF InEvaluation, v8Vars, evalVars, SettleEnds
<1>14. ASSUME NEW l \in Imports, LoadKilled(l) PROVE Quiet
  BY <1>14
    DEF InEvaluation, v8Vars, evalVars, LoadKilled, Surfaced
<1>15. ASSUME NEW l \in Imports, BodyKilled(l) PROVE Ran'
  <2>1. target[l] \in Modules /\ Reach[target[l]] \subseteq registered
    BY <1>15 DEF TypeInv, Bookkeeping, InFlight, BodyKilled, Draining, LinkNeverMisses
  <2>2. UNCHANGED <<registered, released, evals, taken, still>>
    BY <1>15 DEF BodyKilled, Surfaced, evalVars
  <2>3. target[l] \in Modules \ started
    BY <1>15, <2>1 DEF BodyKilled
  <2>4. PICK x \in Reach[target[l]], run \in SUBSET Modules :
          /\ run \in Cuts(target[l], x)
          /\ killed' = killed \cup {x} /\ started' = started \cup run
    BY <1>15, <2>3, CutIsModules DEF BodyKilled
  <2>5. Whole(started', killed', released') /\ started' \subseteq registered'
    BY <2>1, <2>2, <2>3, <2>4, KillIsWhole DEF Ran
  <2> QED BY <2>2, <2>4, <2>5, RanMoves DEF InEvaluation
<1>16. ASSUME NEW m \in Scripts, ScriptKilled(m) PROVE Ran'
  <2>1. m \in Modules /\ Reach[m] \subseteq registered
    BY <1>16 DEF ScriptKilled, GraphHere, LinkNeverMisses
  <2>2. UNCHANGED <<registered, released, evals, taken, still>>
    BY <1>16 DEF ScriptKilled, evalVars
  <2>3. m \in Modules \ started
    BY <1>16, <2>1 DEF ScriptKilled
  <2>4. PICK x \in Reach[m], run \in SUBSET Modules :
          /\ run \in Cuts(m, x)
          /\ killed' = killed \cup {x} /\ started' = started \cup run
    BY <1>16, <2>3, CutIsModules DEF ScriptKilled
  <2>5. Whole(started', killed', released') /\ started' \subseteq registered'
    BY <2>1, <2>2, <2>3, <2>4, KillIsWhole DEF Ran
  <2> QED BY <2>2, <2>4, <2>5, RanMoves DEF InEvaluation
<1>17. ASSUME ScriptPolls PROVE Quiet
  BY <1>17
    DEF InEvaluation, v8Vars, evalVars, ScriptPolls
<1>18. ASSUME NEW m \in Modules, ScriptRegisters(m) PROVE Quiet
  BY <1>18
    DEF InEvaluation, v8Vars, evalVars, ScriptRegisters, Taught
<1>19. ASSUME ScriptFails PROVE Quiet
  BY <1>19
    DEF InEvaluation, v8Vars, evalVars, ScriptFails
<1>20. ASSUME NEW m \in Scripts, ScriptKnown(m) PROVE Quiet
  BY <1>20
    DEF InEvaluation, v8Vars, evalVars, ScriptKnown
<1>21. ASSUME NEW m \in Scripts, ScriptEvaluates(m) PROVE Ran'
  <2>1. m \in Modules /\ Reach[m] \subseteq registered
    BY <1>21 DEF ScriptEvaluates, GraphHere, LinkNeverMisses
  <2>2. UNCHANGED <<registered, killed, released, evals, taken, still>>
    BY <1>21 DEF ScriptEvaluates, evalVars
  <2>3. CASE started' = started
    BY <2>2, <2>3, RanStays DEF InEvaluation
  <2>4. CASE ~Evaluated(m) /\ \E run \in Runs(m) : started' = started \cup run
    <3>0. m \notin started
      BY <1>21, <2>4 DEF ScriptEvaluates, GraphHere, Evaluated, Errored
    <3>1. Whole(started', killed', released') /\ started' \subseteq registered'
      BY <2>1, <2>2, <2>4, <3>0, RunIsWhole DEF Ran
    <3> QED BY <2>2, <2>4, <3>1, RanMoves DEF InEvaluation
  <2> QED BY <1>21, <2>3, <2>4 DEF ScriptEvaluates
<1>22. ASSUME DriveEnds PROVE Quiet
  BY <1>22
    DEF InEvaluation, v8Vars, evalVars, DriveEnds
<1>23. ASSUME NEW m \in Scripts, ScriptBegins(m) PROVE Quiet
  BY <1>23
    DEF InEvaluation, v8Vars, evalVars, ScriptBegins, Taught
<1>24. ASSUME NEW l \in Loads, NEW m \in Modules, Network(l, m) PROVE Quiet
  BY <1>24
    DEF InEvaluation, v8Vars, evalVars, Network, Fetched
<1>25. ASSUME UNCHANGED vars PROVE Quiet
  BY <1>25
    DEF InEvaluation, v8Vars, evalVars, vars
<1>26. ASSUME Quiet PROVE Ran'
  BY <1>26, RanStays
<1> HIDE DEF Quiet
<1> QED BY <1>1, <1>2, <1>3, <1>4, <1>5, <1>6, <1>7, <1>8, <1>9, <1>10, <1>11, <1>12,
           <1>13, <1>14, <1>15, <1>16, <1>17, <1>18, <1>19, <1>20, <1>21, <1>22, <1>23,
           <1>24, <1>25, <1>26
       DEF Next, User, Pass, LoadStep, SettleStep, Watchdog, ScriptStep

\* ---------------------------------------------------------------------------
\* What an import() is told.

\* The graph of r, all of it begun, came to its end without a failure.
Ended(r, kd, back) == Reach[r] \cap (Throws \cup kd) = {} /\ Awaits \cap Reach[r] \subseteq back

\* The verdict p on a module r is earned.
Earned(p, r, reg, st, kd, back) ==
    /\ p = "rejected" /\ r # None =>
         Reach[r] \cap (Flaky \cup Malformed \cup Throws \cup kd) # {}
    /\ p \in {"resolved", "atOnce"} => r \in Modules /\ Reach[r] \subseteq reg \cap st
    /\ p = "resolved" => Ended(r, kd, back)

Told == \A i \in Imports : Earned(promise[i], target[i], registered, started, killed, released)

\* What has ended stays so: only what is about to begin can be stopped.
LEMMA ToldIsEarned == TypeInv /\ Told => VerdictsAreEarned
<1> SUFFICES ASSUME TypeInv, Told, NEW i \in Imports, promise[i] = "resolved"
             PROVE  Outcome(target[i]) = "fulfilled"
  BY DEF Told, Earned, VerdictsAreEarned
<1> DEFINE r == target[i]
<1>1. r \in Modules /\ Ended(r, killed, released)
  BY DEF Told, Earned
<1>2. \A x \in Reach[r] : x \notin killed /\ x \notin Throws
  BY <1>1 DEF Ended
<1> QED BY <1>1, <1>2 DEF Outcome, Verdict, Stopped, Ended

\* A fulfilled evaluation ended.
LEMMA FulfilledIsEnded ==
    ASSUME TypeInv, Ran, NEW r \in started, Outcome(r) = "fulfilled"
    PROVE  Ended(r, killed, released)
<1>1. r \in Modules /\ Reach[r] \subseteq started
  BY NotFailedIsWhole DEF TypeInv, TypeOK
<1>2. Awaits \cap Reach[r] \subseteq released /\ \A x \in Reach[r] : ~Stopped(x, released)
  BY <1>1 DEF Outcome, Verdict
<1>3. ASSUME NEW x \in Reach[r] PROVE x \notin Throws /\ x \notin killed
  <2>1. Reach[x] \subseteq Reach[r]
    BY <1>1, ReachHoldsReach
  <2> QED BY <1>2, <2>1 DEF Stopped
<1> QED BY <1>2, <1>3 DEF Ended

\* What ran stays, and what is stopped had not begun.
Onward == /\ registered \subseteq registered' /\ started \subseteq started'
          /\ killed \subseteq killed' /\ released \subseteq released'
          /\ (killed' \ killed) \cap started = {}

\* Verdicts stay earned, and new ones are.
LEMMA VerdictsMove ==
    ASSUME Told, Onward,
           \A i \in Imports :
             \/ promise'[i] = promise[i] /\ target'[i] = target[i]
             \/ promise'[i] \notin {"rejected", "resolved", "atOnce"}
             \/ Earned(promise'[i], target'[i], registered', started', killed', released')
    PROVE  Told'
<1>1. ASSUME NEW i \in Imports
      PROVE  Earned(promise'[i], target'[i], registered', started', killed', released')
  <2>1. CASE promise'[i] = promise[i] /\ target'[i] = target[i]
    <3>1. Earned(promise[i], target[i], registered, started, killed, released)
      BY DEF Told
    <3>2. promise[i] = "resolved" => Ended(target[i], killed', released')
      BY <3>1 DEF Onward, Earned, Ended
    <3> QED BY <2>1, <3>1, <3>2 DEF Earned, Onward
  <2>2. CASE promise'[i] \notin {"rejected", "resolved", "atOnce"}
    BY <2>2 DEF Earned
  <2> QED BY <2>1, <2>2
<1> QED BY <1>1 DEF Told

\* Nobody is told anything.
LEMMA VerdictsStay ==
    ASSUME TypeInv, Told, [Next]_vars, promise' = promise, Onward
    PROVE  Told'
<1>1. \A i \in Imports : promise'[i] = promise[i] /\ target'[i] = target[i]
  BY TargetSteps
<1> QED BY <1>1, VerdictsMove

\* A load that fails has a member of its graph to blame.
LEMMA FailureIsBlamed ==
    ASSUME TypeInv, Within, NEW l \in Imports, target[l] \in Modules,
           NEW m \in Modules,
           Failure(Fut(l), m) \/ (Source(Fut(l), m) /\ ~Compiles(m))
    PROVE  Reach[target[l]] \cap (Flaky \cup Malformed) # {}
<1>1. l \in Loads
  BY LoadsAre
<1>2. Inside(target[l], Seen(l), Fut(l))
  BY <1>1, OpenedInside
<1>3. m \in Reach[target[l]]
  BY <1>2 DEF Inside, Pending, Failure, Source
<1>4. m \in Flaky \cup Malformed
  BY <1>2 DEF Inside, Failure, Compiles
<1> QED BY <1>3, <1>4

\* Every step tells only what is earned.
LEMMA VerdictsStep ==
    ASSUME TypeInv, Targets, Within, Ran, Told, [Next]_vars
    PROVE  Told'
<1> USE LoadsAre, TraitAssumption
<1> DEFINE Quiet == /\ promise' = promise
                    /\ Onward
<1>1. ASSUME NEW i \in Imports, NEW w \in BOOLEAN, ImportRefused(i, w) PROVE Told'
  <2>1. /\ promise' = [promise EXCEPT ![i] = "rejected"] /\ target' = target
        /\ UNCHANGED <<registered, started, killed, released>> /\ target[i] = None
    BY <1>1 DEF ImportRefused, Unborn, Targets, v8Vars
  <2>2. Earned(promise'[i], target'[i], registered', started', killed', released')
    BY <2>1 DEF Earned, TypeInv, TypeOK
  <2>3. \A j \in Imports \ {i} : promise'[j] = promise[j] /\ target'[j] = target[j]
    BY <2>1 DEF TypeInv, TypeOK
  <2> QED BY <2>1, <2>2, <2>3, VerdictsMove DEF Onward
<1>2. ASSUME NEW i \in Imports, NEW w \in BOOLEAN, NEW m \in Modules, Import(i, m, w)
      PROVE  Told'
  <2>1. UNCHANGED <<registered, started, killed, released>> /\ target' = [target EXCEPT ![i] = m]
    BY <1>2 DEF Import, v8Vars
  <2>2. \/ promise' = [promise EXCEPT ![i] = "pending"]
        \/ NeedsNoLoad(m) /\ promise' = [promise EXCEPT ![i] = "atOnce"]
    BY <1>2 DEF Import
  <2>3. \A j \in Imports \ {i} : promise'[j] = promise[j] /\ target'[j] = target[j]
    BY <2>1, <2>2 DEF TypeInv, TypeOK
  <2>4. CASE promise'[i] = "pending"
    BY <2>1, <2>3, <2>4, VerdictsMove DEF Onward
  <2>5. CASE NeedsNoLoad(m) /\ promise'[i] = "atOnce"
    <3>1. Reach[m] \subseteq registered \cap started
      BY <2>5, NotFailedIsWhole DEF NeedsNoLoad, Evaluated
    <3>2. target'[i] = m
      BY <2>1 DEF TypeInv, TypeOK
    <3>3. Earned(promise'[i], target'[i], registered', started', killed', released')
      BY <2>1, <2>5, <3>1, <3>2 DEF Earned
    <3> QED BY <2>1, <2>3, <3>3, VerdictsMove DEF Onward
  <2> QED BY <2>2, <2>4, <2>5 DEF TypeInv, TypeOK
<1>3. ASSUME NEW m \in Modules, Release(m) PROVE Quiet
  BY <1>3
    DEF v8Vars, Onward, userVars, Release
<1>4. ASSUME PassBegins PROVE Quiet
  BY <1>4
    DEF v8Vars, Onward, userVars, PassBegins
<1>5. ASSUME NEW l \in Imports, LoadWaits(l) PROVE Quiet
  BY <1>5
    DEF v8Vars, Onward, userVars, LoadWaits
<1>6. ASSUME NEW l \in Imports, NEW m \in Modules, LoadRegisters(l, m) PROVE Quiet
  BY <1>6
    DEF v8Vars, Onward, userVars, LoadRegisters, Taught
<1>7. ASSUME NEW l \in Imports, LoadFails(l) PROVE Told'
  <2>1. /\ target[l] \in Modules
        /\ promise' = [promise EXCEPT ![l] = "rejected"] /\ target' = target
        /\ UNCHANGED <<registered, started, killed, released>>
    BY <1>7 DEF LoadFails, LoadRejected, Draining, TypeInv, Bookkeeping, InFlight, v8Vars
  <2>2. Reach[target[l]] \cap (Flaky \cup Malformed \cup Throws \cup killed) # {}
    BY <1>7, <2>1, FailureIsBlamed DEF LoadFails
  <2>3. Earned(promise'[l], target'[l], registered', started', killed', released')
    BY <2>1, <2>2 DEF Earned, TypeInv, TypeOK
  <2>4. \A j \in Imports \ {l} : promise'[j] = promise[j] /\ target'[j] = target[j]
    BY <2>1 DEF TypeInv, TypeOK
  <2> QED BY <2>1, <2>3, <2>4, VerdictsMove DEF Onward
<1>8. ASSUME NEW l \in Imports, LoadFindsError(l) PROVE Told'
  <2>1. /\ target[l] \in Modules
        /\ promise' = [promise EXCEPT ![l] = "rejected"] /\ target' = target
        /\ UNCHANGED <<registered, started, killed, released>>
    BY <1>8 DEF LoadFindsError, LoadRejected, Draining, TypeInv, Bookkeeping, InFlight, v8Vars
  <2>2. Reach[target[l]] \cap (Flaky \cup Malformed \cup Throws \cup killed) # {}
    BY <1>8, <2>1, FailedIsBlamed DEF LoadFindsError, Errored
  <2>3. Earned(promise'[l], target'[l], registered', started', killed', released')
    BY <2>1, <2>2 DEF Earned, TypeInv, TypeOK
  <2>4. \A j \in Imports \ {l} : promise'[j] = promise[j] /\ target'[j] = target[j]
    BY <2>1 DEF TypeInv, TypeOK
  <2> QED BY <2>1, <2>3, <2>4, VerdictsMove DEF Onward
<1>9. ASSUME NEW l \in Imports, LoadEvaluates(l) PROVE Quiet
  BY <1>9
    DEF v8Vars, Onward, userVars, LoadEvaluates
<1>10. ASSUME DrainEnds PROVE Quiet
  BY <1>10
    DEF v8Vars, Onward, userVars, DrainEnds
<1>11. ASSUME NEW i \in Imports, StaysPending(i) PROVE Quiet
  BY <1>11
    DEF v8Vars, Onward, userVars, StaysPending
<1>12. ASSUME NEW i \in Imports, Settles(i) PROVE Told'
  <2> DEFINE r == target[i]
  <2>1. /\ r \in started /\ r \in Modules
        /\ target' = target /\ UNCHANGED <<registered, started, killed, released>>
    BY <1>12 DEF Settles, Ran, InEvaluation, TypeInv, TypeOK, v8Vars
  <2>2. Outcome(r) # "pending"
    BY <1>12 DEF Settles
  <2>3. ASSUME NEW j \in Imports, j \notin AnsweredBy(i)
        PROVE  promise'[j] = promise[j] /\ target'[j] = target[j]
    BY <1>12, <2>1, <2>3 DEF Settles
  <2>4. ASSUME NEW j \in Imports, j \in AnsweredBy(i)
        PROVE  Earned(promise'[j], target'[j], registered', started', killed', released')
    <3>1. target'[j] = r
      BY <2>1, <2>4 DEF AnsweredBy, Targets
    <3>2. CASE Outcome(r) = "fulfilled"
      <4>1. promise'[j] = "resolved"
        BY <1>12, <2>4, <3>2 DEF Settles
      <4>2. Reach[r] \subseteq registered \cap started
        BY <2>1, <3>2, NotFailedIsWhole
      <4>3. Ended(r, killed, released)
        BY <2>1, <3>2, FulfilledIsEnded
      <4> QED BY <2>1, <3>1, <4>1, <4>2, <4>3 DEF Earned
    <3>3. CASE Outcome(r) = "rejected"
      <4>1. promise'[j] = "rejected"
        BY <1>12, <2>4, <3>3 DEF Settles
      <4>2. Reach[r] \cap (Throws \cup killed) # {}
        BY <2>1, <3>3, FailedIsBlamed
      <4> QED BY <2>1, <3>1, <4>1, <4>2 DEF Earned
    <3> QED BY <2>2, <3>2, <3>3 DEF Outcome, Verdict
  <2> HIDE DEF r
  <2> QED BY <2>1, <2>3, <2>4, VerdictsMove DEF Onward
<1>13. ASSUME SettleEnds PROVE Quiet
  BY <1>13
    DEF v8Vars, Onward, userVars, SettleEnds
<1>14. ASSUME NEW l \in Imports, LoadKilled(l) PROVE Told'
  <2>1. /\ promise' = [promise EXCEPT ![l] = "dead"] /\ target' = target
        /\ Onward
    BY <1>14 DEF LoadKilled, Surfaced, v8Vars, Onward
  <2>2. promise'[l] = "dead" /\ \A j \in Imports \ {l} : promise'[j] = promise[j]
    BY <2>1 DEF TypeInv, TypeOK
  <2>3. \A j \in Imports : \/ promise'[j] = promise[j] /\ target'[j] = target[j]
                           \/ promise'[j] \notin {"rejected", "resolved", "atOnce"}
    BY <2>1, <2>2
  <2> QED BY <2>1, <2>3, VerdictsMove DEF Onward
<1>15. ASSUME NEW l \in Imports, BodyKilled(l) PROVE Told'
  <2>1. /\ promise' = [promise EXCEPT ![l] = "dead"] /\ target' = target
        /\ Onward
    BY <1>15 DEF BodyKilled, Surfaced, v8Vars, Onward
  <2>2. promise'[l] = "dead" /\ \A j \in Imports \ {l} : promise'[j] = promise[j]
    BY <2>1 DEF TypeInv, TypeOK
  <2>3. \A j \in Imports : \/ promise'[j] = promise[j] /\ target'[j] = target[j]
                           \/ promise'[j] \notin {"rejected", "resolved", "atOnce"}
    BY <2>1, <2>2
  <2> QED BY <2>1, <2>3, VerdictsMove DEF Onward
<1>16. ASSUME NEW m \in Scripts, ScriptKilled(m) PROVE Quiet
  BY <1>16
    DEF v8Vars, Onward, userVars, ScriptKilled
<1>17. ASSUME ScriptPolls PROVE Quiet
  BY <1>17
    DEF v8Vars, Onward, userVars, ScriptPolls
<1>18. ASSUME NEW m \in Modules, ScriptRegisters(m) PROVE Quiet
  BY <1>18
    DEF v8Vars, Onward, userVars, ScriptRegisters, Taught
<1>19. ASSUME ScriptFails PROVE Quiet
  BY <1>19
    DEF v8Vars, Onward, userVars, ScriptFails
<1>20. ASSUME NEW m \in Scripts, ScriptKnown(m) PROVE Quiet
  BY <1>20
    DEF v8Vars, Onward, userVars, ScriptKnown
<1>21. ASSUME NEW m \in Scripts, ScriptEvaluates(m) PROVE Quiet
  BY <1>21
    DEF v8Vars, Onward, userVars, ScriptEvaluates
<1>22. ASSUME DriveEnds PROVE Quiet
  BY <1>22
    DEF v8Vars, Onward, userVars, DriveEnds
<1>23. ASSUME NEW m \in Scripts, ScriptBegins(m) PROVE Quiet
  BY <1>23
    DEF v8Vars, Onward, userVars, ScriptBegins, Taught
<1>24. ASSUME NEW l \in Loads, NEW m \in Modules, Network(l, m) PROVE Quiet
  BY <1>24
    DEF v8Vars, Onward, userVars, Network, Fetched
<1>25. ASSUME UNCHANGED vars PROVE Quiet
  BY <1>25
    DEF v8Vars, Onward, userVars, vars
<1>26. ASSUME Quiet PROVE Told'
  BY <1>26, VerdictsStay
<1> HIDE DEF Quiet
<1> QED BY <1>1, <1>2, <1>3, <1>4, <1>5, <1>6, <1>7, <1>8, <1>9, <1>10, <1>11, <1>12,
           <1>13, <1>14, <1>15, <1>16, <1>17, <1>18, <1>19, <1>20, <1>21, <1>22, <1>23,
           <1>24, <1>25, <1>26
       DEF Next, User, Pass, LoadStep, SettleStep, Watchdog, ScriptStep

LEMMA VerdictsInit == Init => Targets /\ Within /\ Ran /\ Told
<1> SUFFICES ASSUME Init PROVE Targets /\ Within /\ Ran /\ Told
  OBVIOUS
<1>1. Targets
  BY LoadsAre DEF Init, Targets
<1>2. \A l \in Loads : seen[l] = {} /\ fut[l] = Unfetched
  BY DEF Init
<1>3. Within
  BY <1>2, NothingInside DEF Within
<1>4. Ran /\ Told
  BY DEF Init, Ran, Whole, InEvaluation, Told, Earned
<1> QED BY <1>1, <1>3, <1>4

\* An import() is rejected only for a fault in its own graph, resolved only with
\* a module whose graph was loaded and ran to its end without a failure, and
\* answered at once only with a graph that began as a whole: no load, script or
\* termination beside it tells it anything else.
THEOREM VerdictsHold == Spec => []VerdictsAreEarned
<1>1. TypeInv /\ LinkNeverMisses /\ Targets /\ Within /\ Ran /\ Told /\ [Next]_vars
      => Targets' /\ Within' /\ Ran' /\ Told'
  BY TargetsStep, WithinStep, RanStep, VerdictsStep
<1> QED BY <1>1, VerdictsInit, ToldIsEarned, TypeInvHolds, GraphIsHere, PTL DEF Spec
=============================================================================
