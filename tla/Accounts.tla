------------------------------ MODULE Accounts ------------------------------
(***************************************************************************)
(* One named login identity: its record in the store, its jar in LIVE_JARS *)
(* and the sessions that run as it - tabs that callers create, and the     *)
(* scratch session each account_verify opens and closes.  Session threads  *)
(* boot without the manager's mutex; write-backs and probes hold it; a     *)
(* delete, a persona draw and a verify teach take the store's lock alone.  *)
(*                                                                         *)
(* A login is a number, newer is larger, and stands for the cookies of it. *)
(* Web storage is, per site, the set of sites whose keys are in it.  One   *)
(* (owner, name) is enough: nothing is shared between two of them.  Left   *)
(* out: what a manager does around a command (SessionManager), cookies     *)
(* imported at create, account_login and what a predicate computes.        *)
(***************************************************************************)
EXTENDS Naturals

CONSTANTS
    Tabs,          \* sessions callers create as the account
    Checks,        \* account_verify calls, each with its scratch session
    Teachers,      \* those that bring a spec; the others run the stored one
    Sites,         \* origins a page may be on
    MaxLogins,     \* bound: logins performed
    MaxDeletes,    \* bound: deletes of the account
    MaxRestarts,   \* bound: crashes of the service
    Blank,         \* about:blank
    None

Users == Tabs \cup Checks

ASSUME SetAssumption == Tabs \cap Checks = {} /\ Teachers \subseteq Checks
ASSUME BoundAssumption == /\ MaxLogins \in Nat
                          /\ MaxDeletes \in Nat
                          /\ MaxRestarts \in Nat
ASSUME NameAssumption == None \notin Users /\ Blank \notin Sites

VARIABLES
    record,    \* the stored record, or None
    live,      \* whose jar LIVE_JARS holds, or None
    jars,      \* login in the jar each session made
    stage,     \* where each session thread is
    jarOf,     \* whose jar its browser uses
    device,    \* its persona
    page,      \* the page it shows
    shelf,     \* web storage of its page, by site
    pending,   \* pending_storage
    dirty,     \* a command ran whose write-back is outstanding
    lock,      \* who holds SESSIONS: a session's write-back or a check
    copy,      \* the login state read so far by the write-back
    check,     \* how far each verify got
    spec,      \* the spec it works with
    logins, deletes, restarts,  \* counters
    acked,     \* newest login written back (history)
    purged,    \* newest login when the account was deleted (history)
    taught,    \* spec the last verify wrote (history)
    raced,     \* a session looked the jar up while another made one (history)
    outlived,  \* a session that had its jar outlived the last delete (history)
    since      \* deletes when the session took its persona (history)

storeVars == <<record, live>>
threadVars == <<stage, jarOf, device, since>>
pageVars == <<page, shelf, pending>>
checkVars == <<check, spec>>
counters == <<logins, deletes, restarts>>
history == <<acked, purged, taught, raced, outlived>>
vars == <<storeVars, jars, threadVars, pageVars, dirty, lock, copy, checkVars,
          counters, history>>

Pages == Sites \cup {Blank}
Record == [cookies : 0..MaxLogins, url : Pages, storage : SUBSET Sites,
           spec : Checks \cup {None}, persona : Users \cup {None}]
ASSUME RecordAssumption == None \notin Record

\* mutate_account starts from {"version": 1} when there is no record.
Fresh == [cookies |-> 0, url |-> Blank, storage |-> {}, spec |-> None, persona |-> None]
Stored == IF record = None THEN Fresh ELSE record

Booting == {"persona", "jar", "seed", "register", "storage", "land"}
ProbeSteps == {"probe", "navigate", "eval", "verdict"}
Running(u) == stage[u] \in Booting \cup {"up"}

\* The stages between a lookup that found no jar and the insertion of a new one,
\* and those from which a session's browser has one.
Making == {"seed", "register"}
Using == {"storage", "land", "up"}

\* ---------------------------------------------------------------------------
\* The boot of a session thread.

\* Mutant: every session draws its own persona.
WithOwnPersona(u) == [Stored EXCEPT !.persona = u]

\* persona_for: drawn once, under the store's lock; a user stands for the
\* device it draws.
WithPersona(u) == IF Stored.persona = None THEN [Stored EXCEPT !.persona = u] ELSE Stored

Starts(u, from) == /\ stage[u] = from
                   /\ lock = None
                   /\ stage' = [stage EXCEPT ![u] = "persona"]

\* The create handler teaches the persona before it asks for the mutex ...
TeachPersona(u) == /\ u \in Tabs
                   /\ stage[u] = "none"
                   /\ record' = WithPersona(u)
                   /\ stage' = [stage EXCEPT ![u] = "create"]
                   /\ UNCHANGED <<live, jars, jarOf, device, since, pageVars, dirty, lock,
                                  copy, checkVars, counters, history>>

\* ... and spawns the thread under it.
CreateTab(u) == /\ u \in Tabs
                /\ Starts(u, "create")
                /\ UNCHANGED <<storeVars, jars, jarOf, device, since, pageVars, dirty, lock,
                               copy, checkVars, counters, history>>

\* Mutant: the boot needs the manager's mutex.
BootsUnderLock(u) == lock = None

\* The boot takes LIVE_JARS and the store's lock, never SESSIONS.
BootsFreely(u) == u \in Users

TakePersona(u) == /\ stage[u] = "persona"
                  /\ BootsFreely(u)
                  /\ record' = WithPersona(u)
                  /\ device' = [device EXCEPT ![u] = WithPersona(u).persona]
                  /\ since' = [since EXCEPT ![u] = deletes]
                  /\ stage' = [stage EXCEPT ![u] = "jar"]
                  /\ UNCHANGED <<live, jars, jarOf, pageVars, dirty, lock, copy, checkVars,
                                 counters, history>>

\* Mutant: the lookup misses.
Missed == None

Found == live

\* jar_for looks the live jar up and lets go of the map's lock ...
LookUpJar(u) == /\ stage[u] = "jar"
                /\ jarOf' = [jarOf EXCEPT ![u] = IF Found # None THEN Found ELSE u]
                /\ stage' = [stage EXCEPT ![u] = IF Found # None THEN "storage" ELSE "seed"]
                /\ raced' = (raced \/ (Found = None /\ \E v \in Users : stage[v] \in Making))
                /\ UNCHANGED <<storeVars, jars, device, since, pageVars, dirty, lock, copy,
                               checkVars, counters, acked, purged, taught, outlived>>

\* Mutant: a new jar is not seeded.
Unseeded == 0

Seed == Stored.cookies

\* ... seeds a new one from the record ...
SeedJar(u) == /\ stage[u] = "seed"
              /\ jars' = [jars EXCEPT ![u] = Seed]
              /\ stage' = [stage EXCEPT ![u] = "register"]
              /\ UNCHANGED <<storeVars, jarOf, device, since, pageVars, dirty, lock, copy,
                             checkVars, counters, history>>

\* ... and inserts it without looking again.
RegisterJar(u) == /\ stage[u] = "register"
                  /\ live' = u
                  /\ stage' = [stage EXCEPT ![u] = "storage"]
                  /\ UNCHANGED <<record, jars, jarOf, device, since, pageVars, dirty, lock,
                                 copy, checkVars, counters, history>>

\* Mutant: storage is replayed wherever it was taken.
ReplaysAnywhere == Stored.storage # {}

\* record_storage: nothing to replay if it was empty or not taken on a site.
Replays == Stored.storage # {} /\ Stored.url # Blank

ReadStorage(u) ==
    /\ stage[u] = "storage"
    /\ pending' = [pending EXCEPT ![u] =
            IF Replays THEN [storage |-> Stored.storage, origin |-> Stored.url] ELSE None]
    /\ stage' = [stage EXCEPT ![u] = "land"]
    /\ UNCHANGED <<storeVars, jars, jarOf, device, since, page, shelf, dirty, lock, copy,
                   checkVars, counters, history>>

\* try_inject_storage on a landing.
Lands(u, p) ==
    /\ page' = [page EXCEPT ![u] = p]
    /\ IF pending[u] # None /\ pending[u].origin = p
       THEN /\ shelf' = [shelf EXCEPT ![u][p] = @ \cup pending[u].storage]
            /\ pending' = [pending EXCEPT ![u] = None]
       ELSE UNCHANGED <<shelf, pending>>

\* The start URL, or about:blank where there is none or it failed.
Boot(u, p) == /\ stage[u] = "land"
              /\ Lands(u, p)
              /\ stage' = [stage EXCEPT ![u] = "up"]
              /\ UNCHANGED <<storeVars, jars, jarOf, device, since, dirty, lock, copy,
                             checkVars, counters, history>>

\* ---------------------------------------------------------------------------
\* Commands.  Their callers left the mutex before they sent them, so they run
\* between any two reads of a write-back.

Idle == UNCHANGED <<storeVars, threadVars, lock, copy, checkVars, deletes, restarts, history>>

\* Also any command that leaves the page where it is: p is then its page.
Navigate(u, p) == /\ u \in Tabs
                  /\ stage[u] = "up"
                  /\ Lands(u, p)
                  /\ dirty' = [dirty EXCEPT ![u] = TRUE]
                  /\ UNCHANGED <<jars, logins>>
                  /\ Idle

\* The page logs in: new cookies, and keys in the storage of its site.
LogIn(u) == /\ u \in Tabs
            /\ stage[u] = "up"
            /\ page[u] # Blank
            /\ logins < MaxLogins
            /\ logins' = logins + 1
            /\ jars' = [jars EXCEPT ![jarOf[u]] = logins + 1]
            /\ shelf' = [shelf EXCEPT ![u][page[u]] = @ \cup {page[u]}]
            /\ dirty' = [dirty EXCEPT ![u] = TRUE]
            /\ UNCHANGED <<page, pending>>
            /\ Idle

\* Closed or evicted: an outstanding write-back will find no session.
EndTab(u) == /\ u \in Tabs
             /\ stage[u] = "up"
             /\ lock = None
             /\ stage' = [stage EXCEPT ![u] = "gone"]
             /\ dirty' = [dirty EXCEPT ![u] = FALSE]
             /\ UNCHANGED <<storeVars, jars, jarOf, device, since, pageVars, lock, copy,
                            checkVars, counters, history>>

\* ---------------------------------------------------------------------------
\* capture_account, under SESSIONS: the cookies and the URL are one read of
\* the session, its storage is another, the save is a step of the store.

HasLock(u) == lock = u /\ copy = None

ReadCookies(u) ==
    /\ stage[u] = "up"
    /\ dirty[u]
    /\ IF u \in Tabs THEN lock = None ELSE HasLock(u)
    /\ lock' = u
    /\ copy' = [cookies |-> jars[jarOf[u]], url |-> page[u], storage |-> {},
                at |-> "storage", seen |-> Stored.spec]
    /\ UNCHANGED <<storeVars, jars, threadVars, pageVars, dirty, checkVars, counters, history>>

ReadShelf(u) ==
    /\ lock = u
    /\ copy # None /\ copy.at = "storage"
    /\ copy' = [copy EXCEPT !.storage = IF page[u] = Blank THEN {} ELSE shelf[u][page[u]],
                            !.at = "save"]
    /\ UNCHANGED <<storeVars, jars, threadVars, pageVars, dirty, lock, checkVars, counters,
                   history>>

\* Mutant: load, merge, save, with the load before the reads.
LoadedBefore(c) == [cookies |-> c.cookies, url |-> c.url, storage |-> c.storage,
                    spec |-> c.seen, persona |-> Stored.persona]

\* The record's verify and persona survive, read under the store's lock.
Merged(c) == [cookies |-> c.cookies, url |-> c.url, storage |-> c.storage,
              spec |-> Stored.spec, persona |-> Stored.persona]

Save(u) == /\ lock = u
           /\ copy # None /\ copy.at = "save"
           /\ record' = Merged(copy)
           /\ acked' = IF copy.cookies > acked THEN copy.cookies ELSE acked
           /\ dirty' = [dirty EXCEPT ![u] = FALSE]
           /\ copy' = None
           /\ lock' = IF u \in Tabs THEN None ELSE u
           /\ UNCHANGED <<live, jars, threadVars, pageVars, checkVars, counters, purged,
                          taught, raced, outlived>>

\* ---------------------------------------------------------------------------
\* account_verify.

\* The spec is read before any lock.
CheckLoad(k) == /\ check[k] = "new"
                /\ spec' = [spec EXCEPT ![k] = IF k \in Teachers THEN k ELSE Stored.spec]
                /\ check' = [check EXCEPT ![k] = IF k \in Teachers \/ Stored.spec # None
                                                 THEN "teach" ELSE "done"]
                /\ UNCHANGED <<storeVars, jars, threadVars, pageVars, dirty, lock, copy,
                               counters, history>>

Teaches(k) == /\ record' = [Stored EXCEPT !.spec = spec[k]]
              /\ taught' = spec[k]
              /\ UNCHANGED <<acked, purged, raced, outlived>>

CheckTeach(k) == /\ check[k] = "teach"
                 /\ Teaches(k)
                 /\ check' = [check EXCEPT ![k] = "wait"]
                 /\ UNCHANGED <<live, jars, threadVars, pageVars, dirty, lock, copy, spec,
                                counters>>

\* The mutex is taken for the whole probe.
CheckStart(k) == /\ check[k] = "wait"
                 /\ Starts(k, "none")
                 /\ lock' = k
                 /\ check' = [check EXCEPT ![k] = "probe"]
                 /\ UNCHANGED <<storeVars, jars, jarOf, device, since, pageVars, dirty, copy,
                                spec, counters, history>>

\* A command of the probe: on success its write-back is due and the next one
\* follows it, an error ends the probe at once.
ProbeSends(k, from, to) ==
    /\ check[k] = from
    /\ stage[k] = "up"
    /\ ~dirty[k]
    /\ \/ /\ check' = [check EXCEPT ![k] = to]
          /\ dirty' = [dirty EXCEPT ![k] = TRUE]
       \/ /\ check' = [check EXCEPT ![k] = "verdict"]
          /\ dirty' = dirty
    /\ UNCHANGED <<storeVars, jars, threadVars, lock, copy, spec, counters, history>>

\* Shields are mounted on the page of the boot, if the host has some.
CheckShield(k) == \/ /\ ProbeSends(k, "probe", "navigate")
                     /\ UNCHANGED pageVars
                  \/ /\ check[k] = "probe"
                     /\ check' = [check EXCEPT ![k] = "navigate"]
                     /\ UNCHANGED <<storeVars, jars, threadVars, pageVars, dirty, lock, copy,
                                    spec, counters, history>>

CheckNavigate(k, p) == ProbeSends(k, "navigate", "eval") /\ Lands(k, p)

\* The predicate; the verdict stands for an error too.
CheckEval(k) == ProbeSends(k, "eval", "verdict") /\ UNCHANGED pageVars

\* Closed, its spec written once more with the verdict or without one.
CheckEnd(k) == /\ check[k] = "verdict"
               /\ ~dirty[k]
               /\ Teaches(k)
               /\ stage' = [stage EXCEPT ![k] = "gone"]
               /\ check' = [check EXCEPT ![k] = "done"]
               /\ lock' = None
               /\ UNCHANGED <<live, jars, jarOf, device, since, pageVars, dirty, copy, spec,
                              counters>>

\* ---------------------------------------------------------------------------

\* Mutant: the jar stays registered.
JarStays == live

NoJar == None

\* The jar and the record go, in use or not; sessions keep the jar they have.
Delete == /\ deletes < MaxDeletes
          /\ record' = None
          /\ live' = NoJar
          /\ deletes' = deletes + 1
          /\ acked' = 0
          /\ purged' = logins
          /\ taught' = None
          /\ raced' = (raced /\ \E u \in Users : Running(u))
          /\ outlived' = \E u \in Users : stage[u] \in Using \cup {"register"}
          /\ UNCHANGED <<jars, threadVars, pageVars, dirty, lock, copy, checkVars, logins,
                         restarts>>

\* The process dies between any two steps; the record is what is left.
Restart == /\ restarts < MaxRestarts
           /\ restarts' = restarts + 1
           /\ live' = None
           /\ jars' = [u \in Users |-> 0]
           /\ stage' = [u \in Users |-> "none"]
           /\ jarOf' = [u \in Users |-> u]
           /\ device' = [u \in Users |-> None]
           /\ since' = [u \in Users |-> 0]
           /\ page' = [u \in Users |-> Blank]
           /\ shelf' = [u \in Users |-> [o \in Sites |-> {}]]
           /\ pending' = [u \in Users |-> None]
           /\ dirty' = [u \in Users |-> FALSE]
           /\ lock' = None
           /\ copy' = None
           /\ check' = [k \in Checks |-> IF check[k] = "new" THEN "new" ELSE "done"]
           /\ UNCHANGED <<record, spec, logins, deletes, history>>

Init == /\ record = None
        /\ live = None
        /\ jars = [u \in Users |-> 0]
        /\ stage = [u \in Users |-> "none"]
        /\ jarOf = [u \in Users |-> u]
        /\ device = [u \in Users |-> None]
        /\ since = [u \in Users |-> 0]
        /\ page = [u \in Users |-> Blank]
        /\ shelf = [u \in Users |-> [o \in Sites |-> {}]]
        /\ pending = [u \in Users |-> None]
        /\ dirty = [u \in Users |-> FALSE]
        /\ lock = None
        /\ copy = None
        /\ check = [k \in Checks |-> "new"]
        /\ spec = [k \in Checks |-> None]
        /\ logins = 0 /\ deletes = 0 /\ restarts = 0
        /\ acked = 0 /\ purged = 0
        /\ taught = None
        /\ raced = FALSE /\ outlived = FALSE

ThreadStep(u) == \/ TakePersona(u) \/ LookUpJar(u) \/ SeedJar(u) \/ RegisterJar(u)
                 \/ ReadStorage(u)
                 \/ \E p \in Pages : Boot(u, p)

WriteBack(u) == ReadCookies(u) \/ ReadShelf(u) \/ Save(u)

CheckStep(k) == \/ CheckTeach(k) \/ CheckStart(k) \/ CheckEnd(k)
                \/ CheckShield(k) \/ CheckEval(k)
                \/ \E p \in Pages : CheckNavigate(k, p)

Next == \/ \E u \in Users : ThreadStep(u) \/ WriteBack(u)
        \/ \E u \in Tabs : TeachPersona(u) \/ CreateTab(u) \/ LogIn(u) \/ EndTab(u)
        \/ \E u \in Tabs, p \in Pages : Navigate(u, p)
        \/ \E k \in Checks : CheckLoad(k) \/ CheckStep(k)
        \/ Delete
        \/ Restart

Spec == Init /\ [][Next]_vars

\* A thread boots, a load ends at its deadline, and a check that holds the
\* mutex is not made to wait for it.
FairSpec == /\ Spec
            /\ \A u \in Users : WF_vars(ThreadStep(u)) /\ WF_vars(WriteBack(u))
            /\ \A k \in Checks : WF_vars(CheckStep(k))

\* ---------------------------------------------------------------------------
\* Properties.

TypeOK ==
    /\ record \in Record \cup {None}
    /\ live \in Users \cup {None}
    /\ jars \in [Users -> 0..MaxLogins]
    /\ stage \in [Users -> Booting \cup {"none", "create", "up", "gone"}]
    /\ jarOf \in [Users -> Users]
    /\ device \in [Users -> Users \cup {None}]
    /\ since \in [Users -> 0..MaxDeletes]
    /\ page \in [Users -> Pages]
    /\ shelf \in [Users -> [Sites -> SUBSET Sites]]
    /\ pending \in [Users -> [storage : SUBSET Sites, origin : Sites] \cup {None}]
    /\ dirty \in [Users -> BOOLEAN]
    /\ lock \in Users \cup {None}
    /\ copy \in [cookies : 0..MaxLogins, url : Pages, storage : SUBSET Sites,
                 at : {"storage", "save"}, seen : Checks \cup {None}] \cup {None}
    /\ check \in [Checks -> {"new", "teach", "wait", "done"} \cup ProbeSteps]
    /\ spec \in [Checks -> Checks \cup {None}]
    /\ logins \in 0..MaxLogins
    /\ deletes \in 0..MaxDeletes
    /\ restarts \in 0..MaxRestarts
    /\ acked \in 0..MaxLogins /\ purged \in 0..MaxLogins
    /\ taught \in Checks \cup {None}
    /\ raced \in BOOLEAN /\ outlived \in BOOLEAN

\* A write-back that overlaps a verify leaves what the verify wrote: the
\* record's spec is always the one taught last (capture_account's
\* preserve-merge inside the store's lock).
TeachingSurvives == Stored.spec = taught

\* However their boots and the write-backs interleave, all sessions that took
\* a persona since the account was last deleted are the record's one device.
OneDevice == \A u \in Users : (device[u] # None /\ since[u] = deletes)
                                => record # None /\ record.persona = device[u]

\* Every session of the identity works on the registered jar (account.rs:
\* "Concurrent sessions on one account share the live jar").  False: jar_for
\* inserts without looking again.
OneJar == \A u \in Users : stage[u] \in Using /\ since[u] = deletes => jarOf[u] = live

\* Only that race parts them: as long as no session looks the jar up while
\* another makes one, all that took a persona since the last delete work on the
\* registered jar, whatever else of their boots, evictions and deletes overlaps.
ForksOnlyInARace == raced \/ OneJar

\* Cookies from before a delete are in no record and no registered jar after it
\* (account_delete_handler: "with the record gone their write-backs recreate
\* nothing").  False: a write-back starts a record where there is none.
DeleteMeansGone == /\ Stored.cookies \notin 1..purged
                   /\ live # None => jars[live] \notin 1..purged

\* Only a session that already had its jar when the account was deleted brings
\* old cookies back: one that was still booting, a later one, a verify in its
\* teaching and a restart do not.
BackOnlyIfOutlived == outlived \/ DeleteMeansGone

\* A login some caller saw written back is in the record, and in the jar of every
\* session, across eviction, later boots, deletes under a booting session and a
\* restart of the service - unless one of the two events above came between.
LoginSurvives == \/ raced
                 \/ outlived
                 \/ /\ Stored.cookies >= acked
                    /\ \A u \in Users : stage[u] \in Using => jars[jarOf[u]] >= acked

\* Storage is only ever put on the site it was taken from (record_storage:
\* "storage only belongs to the site it was captured from").  False: the URL and
\* the storage are two reads.
StorageStaysHome == \A u \in Users, o \in Sites : shelf[u][o] \subseteq {o}

\* A verify that began its probe ends: nothing the thread it waits for needs is
\* behind the mutex that the probe holds.
EveryCheckEnds == \A k \in Checks : (check[k] = "probe") ~> (check[k] = "done")
=============================================================================
