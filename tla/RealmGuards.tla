---------------------------- MODULE RealmGuards ----------------------------
(***************************************************************************)
(* The guards around the scripts of one realm (JsRuntime).  A long script  *)
(* runs under a guard thread that terminates it at its deadline; the heap  *)
(* guard, called by V8 in the middle of an allocation, first lends memory  *)
(* and then terminates; the safe points at the entry of evaluate and of    *)
(* run_event_loop give the memory back, count the strike and heal what the *)
(* termination tore (the trampoline bracket of an open dispatch window).   *)
(*                                                                         *)
(* A script is what it may do to the guards: end, spin, climb to the heap  *)
(* limit, leave a bracket open when it is terminated.  The limit is what   *)
(* is lent on top of the real one.  Left out: the pump's own watchdog and  *)
(* what the event loop delivers (RuntimeLoop).                             *)
(***************************************************************************)
EXTENDS Naturals

CONSTANTS
    Pressure,   \* HEAP_PRESSURE_HEADROOM_BYTES (512 MB)
    Recovery,   \* HEAP_LIMIT_RECOVERY_HEADROOM_BYTES (64 MB)
    MaxClimbs,  \* bound: times a script reaches the limit
    None

ASSUME SizeAssumption == /\ Pressure \in Nat \ {0}
                         /\ Recovery \in Nat \ {0}
                         /\ MaxClimbs \in Nat
ASSUME NameAssumption == None \notin Nat

VARIABLES
    job,        \* what the realm's thread is in
    run,        \* how far its script got
    endless,    \* the script never ends by itself
    retried,    \* evaluate ran it a second time
    dog,        \* the guard thread
    term,       \* V8's terminate request is pending
    limit,      \* memory lent on top of the heap limit
    restore,    \* HeapLimitState.restore_limit
    pressured, tripped, strikes,  \* the rest of HeapLimitState
    unwound,    \* termination_unwound
    leaked,     \* a bracket was left open by a terminated script
    climbs,     \* counter for MaxClimbs
    rerun,      \* a script that had begun was run again (history)
    stray       \* a terminate outlived the script it was meant for (history)

scriptVars == <<job, run, endless, retried>>
heapVars == <<limit, restore, pressured, tripped, strikes>>
historyVars == <<climbs, rerun, stray>>
vars == <<scriptVars, dog, term, heapVars, unwound, leaked, historyVars>>

Entries == {"long", "short", "eval", "loop"}

\* Mutant: evaluate arms a guard of this kind too.
GuardedTwice(j) == j \in {"long", "eval"}

\* execute_script_guarded: below 10 000 bytes a script runs without a guard.
Guarded(j) == j = "long"

Begin(j) ==
    /\ job = "none"
    /\ job' = j
    /\ run' = "entered"
    /\ endless' \in {FALSE, j = "long"}
    /\ retried' = FALSE
    /\ dog' = IF Guarded(j) THEN "armed" ELSE "none"

\* The page's own scripts run without a safe point.
EnterScript ==
    /\ \E j \in {"long", "short"} : Begin(j)
    /\ UNCHANGED <<term, heapVars, unwound, leaked, historyVars>>

\* Mutant: a pressure collection counts as a strike.
AnyRecoveryStrikes == pressured \/ tripped

Strikes == tripped

\* recover_heap_limit: a termination is cancelled, counted and forwarded; what
\* was lent is given back.
Recover ==
    /\ strikes' = strikes + (IF Strikes THEN 1 ELSE 0)
    /\ pressured' = FALSE
    /\ tripped' = FALSE
    /\ limit' = IF (pressured \/ tripped) /\ restore # None THEN restore ELSE limit
    /\ restore' = IF pressured \/ tripped THEN None ELSE restore

StillPending == term /\ ~tripped

EnterEval ==
    /\ Begin("eval")
    /\ Recover
    /\ term' = StillPending
    /\ unwound' = (unwound \/ tripped)
    /\ UNCHANGED <<leaked, historyVars>>

\* heal_termination_at_loop_entry: an unwind that was announced resets the
\* bracket, unless a stray terminate kills the reset; the stall probe, an
\* evaluate, clears that one and may find the leak.
EnterLoop ==
    /\ Begin("loop")
    /\ Recover
    /\ leaked' \in IF (unwound \/ tripped) /\ ~StillPending THEN {FALSE} ELSE {FALSE, leaked}
    /\ unwound' = FALSE
    /\ term' = FALSE
    /\ UNCHANGED historyVars

Running == job # "none" /\ run = "running"

\* V8 looks for a terminate before the first statement.
Starts == /\ job # "none" /\ run = "entered" /\ ~term
          /\ run' = "running"
          /\ UNCHANGED <<job, endless, retried, dog, term, heapVars, unwound, leaked,
                         historyVars>>

\* A script without an end goes on.
Spins == /\ Running /\ endless
         /\ UNCHANGED vars

\* Mutant: the last limit seen is the one to restore.
LastLimit == limit

FirstLimit == IF restore = None THEN limit ELSE restore

\* near_heap_limit_thunk: lend once, then terminate.
Climb ==
    /\ Running
    /\ climbs < MaxClimbs
    /\ climbs' = climbs + 1
    /\ restore' = FirstLimit
    /\ pressured' = TRUE
    /\ \/ /\ ~pressured
          /\ limit' = limit + Pressure
          /\ UNCHANGED <<tripped, term>>
       \/ /\ pressured
          /\ limit' = limit + Recovery
          /\ tripped' = TRUE
          /\ term' = TRUE
    /\ UNCHANGED <<scriptVars, dog, strikes, unwound, leaked, rerun, stray>>

\* The guard's deadline.  It holds the lock it is cancelled under, so the
\* script may have ended by the time the terminate is out.
DogFires ==
    /\ dog = "armed"
    /\ dog' = "fired"
    /\ term' = TRUE
    /\ UNCHANGED <<scriptVars, heapVars, unwound, leaked, historyVars>>

\* A terminate that comes after the last place V8 looks for it stays pending.
Ends == /\ Running
        /\ ~endless
        /\ run' = "ok"
        /\ UNCHANGED <<job, endless, retried, dog, term, heapVars, unwound, leaked,
                       historyVars>>

\* The terminate lands: no finally block runs, and an open bracket stays open.
\* V8 may keep the request.
Unwinds ==
    /\ job # "none"
    /\ term
    /\ \/ /\ run = "running"
          /\ run' = "terminated"
          /\ leaked' \in {leaked, TRUE}
       \/ /\ run = "entered"
          /\ run' = "beheaded"
          /\ UNCHANGED leaked
    /\ term' \in BOOLEAN
    /\ UNCHANGED <<job, endless, retried, dog, heapVars, unwound, historyVars>>

Killed == run \in {"terminated", "beheaded"}

Returns == /\ job # "none" /\ (run = "ok" \/ Killed)
           /\ job' = "none"
           /\ UNCHANGED <<run, endless, retried, heapVars, leaked, climbs, rerun>>

\* Mutant: the unwind is not announced.
Unannounced == unwound

Announced == TRUE

\* execute_script_with_timeout joins its guard, then revives a killed realm.
GuardedReturns ==
    /\ job = "long"
    /\ Returns
    /\ dog' = "none"
    /\ \/ /\ Killed
          /\ term' = FALSE
          /\ unwound' = Announced
          /\ UNCHANGED stray
       \/ /\ run = "ok"
          /\ stray' = (stray \/ (term /\ ~tripped))
          /\ UNCHANGED <<term, unwound>>

BareReturns == /\ job \in {"short", "loop"} \/ (job = "eval" /\ (run = "ok" \/ retried))
               /\ Returns
               /\ UNCHANGED <<dog, term, unwound, stray>>

\* execute_script_retry_terminated: revive and run it once more.
Retries == /\ job = "eval" /\ Killed /\ ~retried
           /\ run' = "entered"
           /\ retried' = TRUE
           /\ term' = FALSE
           /\ rerun' = (rerun \/ run = "terminated")
           /\ UNCHANGED <<job, endless, dog, heapVars, unwound, leaked, climbs, stray>>

Init == /\ job = "none" /\ run = "ok" /\ endless = FALSE /\ retried = FALSE
        /\ dog = "none" /\ term = FALSE
        /\ limit = 0 /\ restore = None
        /\ pressured = FALSE /\ tripped = FALSE /\ strikes = 0
        /\ unwound = FALSE /\ leaked = FALSE
        /\ climbs = 0 /\ rerun = FALSE /\ stray = FALSE

Script == Starts \/ Ends \/ Unwinds \/ GuardedReturns \/ BareReturns \/ Retries

Next == \/ EnterScript \/ EnterEval \/ EnterLoop
        \/ Climb
        \/ DogFires
        \/ Spins
        \/ Script

Spec == Init /\ [][Next]_vars

\* A script that can end or be unwound is, and a deadline comes.
FairSpec == Spec /\ WF_vars(Script) /\ WF_vars(DogFires)

\* ---------------------------------------------------------------------------
\* Properties.

TypeOK ==
    /\ job \in Entries \cup {"none"}
    /\ run \in {"entered", "running", "ok", "terminated", "beheaded"}
    /\ endless \in BOOLEAN /\ retried \in BOOLEAN
    /\ dog \in {"none", "armed", "fired"}
    /\ dog # "none" => job = "long"
    /\ term \in BOOLEAN
    /\ limit \in Nat
    /\ restore \in Nat \cup {None}
    /\ pressured \in BOOLEAN /\ tripped \in BOOLEAN
    /\ tripped => pressured
    /\ strikes \in Nat
    /\ unwound \in BOOLEAN /\ leaked \in BOOLEAN
    /\ climbs \in 0..MaxClimbs
    /\ rerun \in BOOLEAN /\ stray \in BOOLEAN

\* However often a realm climbs between two safe points, the safe point gives
\* all that was lent back: the ceiling never creeps up.
LimitComesBack == /\ ~(pressured \/ tripped) => limit = 0 /\ restore = None
                  /\ restore # None => restore = 0

\* A strike costs a realm two climbs of the limit without a safe point between
\* them: memory lent, collected and given back never drops a realm.
NoFalseStrike == 2 * strikes + (IF tripped THEN 2 ELSE IF pressured THEN 1 ELSE 0) <= climbs

\* A bracket torn by a guard is announced to the next loop entry, so that no
\* later timer or fetch waits behind it forever (issue 227).  Only a terminate
\* that outlived its script can spend the announcement on a reset that dies.
NoSilentLeak == job = "none" /\ leaked => unwound \/ tripped \/ stray

\* A guarded script ends, spinning or not, and so does the one after it.
EveryScriptEnds == (job # "none") ~> (job = "none")

\* evaluate's retry is clean: "the caller's expression itself didn't run yet"
\* (execute_script_retry_terminated).
RetryIsClean == ~rerun
=============================================================================
