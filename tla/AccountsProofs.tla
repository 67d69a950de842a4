--------------------------- MODULE AccountsProofs ---------------------------
(***************************************************************************)
(* Proofs about Accounts, for every set of sessions, checks, teachers and  *)
(* sites and every number of logins, deletes and restarts.                 *)
(***************************************************************************)
EXTENDS Accounts, TLAPS

\* ---------------------------------------------------------------------------
\* Types.

LEMMA UserNames == Tabs \subseteq Users /\ Checks \subseteq Users /\ None \notin Users
                   /\ None \notin Tabs /\ None \notin Checks
  BY NameAssumption DEF Users

LEMMA FreshType == Fresh \in Record
  BY BoundAssumption DEF Fresh, Record, Pages

LEMMA StoredType == ASSUME record \in Record \cup {None}
                    PROVE Stored \in Record
  BY FreshType DEF Stored

LEMMA WithPersonaType ==
    ASSUME record \in Record \cup {None}, NEW u \in Users
    PROVE /\ WithPersona(u) \in Record
          /\ WithPersona(u).persona \in Users
          /\ WithPersona(u).spec = Stored.spec
          /\ WithPersona(u).cookies = Stored.cookies
          /\ Stored.persona # None => WithPersona(u).persona = Stored.persona
  <1>1. Stored \in Record
    BY StoredType
  <1>2. [Stored EXCEPT !.persona = u] \in Record
    BY <1>1 DEF Record
  <1>3. [Stored EXCEPT !.persona = u].persona = u
        /\ [Stored EXCEPT !.persona = u].spec = Stored.spec
        /\ [Stored EXCEPT !.persona = u].cookies = Stored.cookies
    BY <1>1 DEF Record
  <1>4. Stored.persona \in Users \cup {None}
    BY <1>1 DEF Record
  <1> QED
    BY <1>1, <1>2, <1>3, <1>4 DEF WithPersona

\* A step of the boot of a session and of nothing else.
LEMMA BootTypes ==
    ASSUME TypeOK, NEW u \in Users,
           \/ TeachPersona(u) \/ CreateTab(u) \/ TakePersona(u) \/ LookUpJar(u)
           \/ SeedJar(u) \/ RegisterJar(u) \/ ReadStorage(u)
    PROVE TypeOK'
  <1> USE BoundAssumption, NameAssumption, UserNames
  <1>1. Stored \in Record
    BY StoredType DEF TypeOK
  <1>2. WithPersona(u) \in Record /\ WithPersona(u).persona \in Users
    BY WithPersonaType DEF TypeOK
  <1>3. CASE TeachPersona(u)
    BY <1>2, <1>3 DEF TypeOK, TeachPersona, pageVars, checkVars, counters, history
  <1>4. CASE CreateTab(u)
    BY <1>4 DEF TypeOK, CreateTab, Starts, Booting, storeVars, pageVars, checkVars, counters,
                history
  <1>5. CASE TakePersona(u)
    BY <1>2, <1>5 DEF TypeOK, TakePersona, Booting, pageVars, checkVars, counters, history
  <1>6. CASE LookUpJar(u)
    BY <1>6 DEF TypeOK, LookUpJar, Found, Booting, storeVars, pageVars, checkVars, counters
  <1>7. CASE SeedJar(u)
    BY <1>1, <1>7 DEF TypeOK, SeedJar, Seed, Record, Booting, storeVars, pageVars, checkVars,
                counters, history
  <1>8. CASE RegisterJar(u)
    BY <1>8 DEF TypeOK, RegisterJar, Booting, pageVars, checkVars, counters, history
  <1>9. CASE ReadStorage(u)
    <2>1. Replays => [storage |-> Stored.storage, origin |-> Stored.url]
                        \in [storage : SUBSET Sites, origin : Sites]
      BY <1>1 DEF Replays, Record, Pages
    <2> QED
      BY <1>9, <2>1 DEF TypeOK, ReadStorage, Booting, storeVars, checkVars, counters, history
  <1> QED
    BY <1>3, <1>4, <1>5, <1>6, <1>7, <1>8, <1>9

LEMMA LandsType ==
    ASSUME TypeOK, NEW u \in Users, NEW p \in Pages, Lands(u, p)
    PROVE /\ page' \in [Users -> Pages]
          /\ shelf' \in [Users -> [Sites -> SUBSET Sites]]
          /\ pending' \in [Users -> [storage : SUBSET Sites, origin : Sites] \cup {None}]
  <1>1. page' \in [Users -> Pages]
    BY DEF TypeOK, Lands
  <1>2. CASE pending[u] # None /\ pending[u].origin = p
    <2>1. pending[u] \in [storage : SUBSET Sites, origin : Sites]
      BY <1>2 DEF TypeOK
    <2>2. p \in Sites /\ pending[u].storage \in SUBSET Sites
      BY <1>2, <2>1
    <2>3. shelf[u] \in [Sites -> SUBSET Sites]
      BY DEF TypeOK
    <2> DEFINE more == [shelf[u] EXCEPT ![p] = @ \cup pending[u].storage]
    <2>4. more \in [Sites -> SUBSET Sites]
      BY <2>2, <2>3
    <2>5. shelf' = [shelf EXCEPT ![u] = more]
      BY <1>2 DEF Lands, TypeOK
    <2>6. shelf' \in [Users -> [Sites -> SUBSET Sites]]
      BY <2>4, <2>5 DEF TypeOK
    <2> QED
      BY <1>1, <1>2, <2>6 DEF TypeOK, Lands
  <1>3. CASE ~(pending[u] # None /\ pending[u].origin = p)
    BY <1>1, <1>3 DEF TypeOK, Lands
  <1> QED
    BY <1>2, <1>3

\* What a command of a probe leaves alone, and how far it takes the check.
LEMMA ProbeCommands ==
    ASSUME TypeOK, NEW k \in Checks,
           CheckShield(k) \/ CheckEval(k) \/ \E p \in Pages : CheckNavigate(k, p)
    PROVE /\ UNCHANGED <<storeVars, jars, threadVars, lock, copy, spec, counters, history>>
          /\ check[k] \in ProbeSteps
          /\ \E s \in ProbeSteps : check' = [check EXCEPT ![k] = s]
          /\ dirty' = dirty \/ dirty' = [dirty EXCEPT ![k] = TRUE]
          /\ \/ UNCHANGED pageVars
             \/ \E p \in Pages : Lands(k, p)
  <1>1. CASE CheckShield(k)
    BY <1>1 DEF CheckShield, ProbeSends, ProbeSteps
  <1>2. CASE CheckEval(k)
    BY <1>2 DEF CheckEval, ProbeSends, ProbeSteps
  <1>3. ASSUME NEW p \in Pages, CheckNavigate(k, p)
        PROVE /\ UNCHANGED <<storeVars, jars, threadVars, lock, copy, spec, counters, history>>
              /\ check[k] \in ProbeSteps
              /\ \E s \in ProbeSteps : check' = [check EXCEPT ![k] = s]
              /\ dirty' = dirty \/ dirty' = [dirty EXCEPT ![k] = TRUE]
              /\ Lands(k, p)
    BY <1>3 DEF CheckNavigate, ProbeSends, ProbeSteps
  <1> QED
    BY <1>1, <1>2, <1>3

\* Landings, commands and the end of a tab.
LEMMA CommandTypes ==
    ASSUME TypeOK, NEW u \in Users, NEW p \in Pages,
           Boot(u, p) \/ Navigate(u, p) \/ LogIn(u) \/ EndTab(u)
    PROVE TypeOK'
  <1> USE BoundAssumption, NameAssumption, UserNames
  <1>1. CASE Boot(u, p)
    <2>1. Lands(u, p)
      BY <1>1 DEF Boot
    <2> QED
      BY <1>1, <2>1, LandsType DEF TypeOK, Boot, Booting, storeVars, checkVars, counters,
                                    history
  <1>2. CASE Navigate(u, p)
    <2>1. Lands(u, p)
      BY <1>2 DEF Navigate
    <2> QED
      BY <1>2, <2>1, LandsType DEF TypeOK, Navigate, Idle, Booting, storeVars, threadVars,
                                    checkVars, history
  <1>3. CASE LogIn(u)
    <2>1. page[u] \in Sites
      BY <1>3 DEF TypeOK, LogIn, Pages
    <2>2. logins + 1 \in 0..MaxLogins
      BY <1>3 DEF TypeOK, LogIn
    <2>3. jars' \in [Users -> 0..MaxLogins]
      BY <1>3, <2>2 DEF TypeOK, LogIn
    <2> DEFINE more == [shelf[u] EXCEPT ![page[u]] = @ \cup {page[u]}]
    <2>4. more \in [Sites -> SUBSET Sites]
      BY <2>1 DEF TypeOK
    <2>5. shelf' = [shelf EXCEPT ![u] = more]
      BY <1>3 DEF LogIn, TypeOK
    <2>6. shelf' \in [Users -> [Sites -> SUBSET Sites]]
      BY <2>4, <2>5 DEF TypeOK
    <2> QED
      BY <1>3, <2>2, <2>3, <2>6 DEF TypeOK, LogIn, Idle, Booting, storeVars, threadVars,
                                    checkVars, history
  <1>4. CASE EndTab(u)
    BY <1>4 DEF TypeOK, EndTab, Booting, storeVars, pageVars, checkVars, counters, history
  <1> QED
    BY <1>1, <1>2, <1>3, <1>4

LEMMA WriteBackTypes ==
    ASSUME TypeOK, NEW u \in Users, WriteBack(u)
    PROVE TypeOK'
  <1> USE BoundAssumption, NameAssumption, UserNames
  <1>1. Stored \in Record
    BY StoredType DEF TypeOK
  <1>2. CASE ReadCookies(u)
    BY <1>1, <1>2 DEF TypeOK, ReadCookies, Record, Booting, storeVars, threadVars, pageVars,
                      checkVars, counters, history
  <1>3. CASE ReadShelf(u)
    <2>1. copy # None /\ copy' = [copy EXCEPT
              !.storage = IF page[u] = Blank THEN {} ELSE shelf[u][page[u]], !.at = "save"]
      BY <1>3 DEF ReadShelf
    <2>2. (IF page[u] = Blank THEN {} ELSE shelf[u][page[u]]) \in SUBSET Sites
      BY DEF TypeOK, Pages
    <2>3. copy' \in [cookies : 0..MaxLogins, url : Pages, storage : SUBSET Sites,
                     at : {"storage", "save"}, seen : Checks \cup {None}]
      BY <2>1, <2>2 DEF TypeOK
    <2> QED
      BY <1>3, <2>3 DEF TypeOK, ReadShelf, Booting, storeVars, threadVars, pageVars,
                        checkVars, counters, history
  <1>4. CASE Save(u)
    <2>1. copy \in [cookies : 0..MaxLogins, url : Pages, storage : SUBSET Sites,
                    at : {"storage", "save"}, seen : Checks \cup {None}]
      BY <1>4 DEF TypeOK, Save
    <2>2. Merged(copy) \in Record /\ copy.cookies \in 0..MaxLogins
      BY <1>1, <2>1 DEF Merged, Record
    <2> QED
      BY <1>4, <2>2 DEF TypeOK, Save, Booting, threadVars, pageVars, checkVars, counters
  <1> QED
    BY <1>2, <1>3, <1>4 DEF WriteBack

LEMMA CheckTypes ==
    ASSUME TypeOK, NEW k \in Checks, CheckLoad(k) \/ CheckStep(k)
    PROVE TypeOK'
  <1> USE BoundAssumption, NameAssumption, UserNames
  <1>1. Stored \in Record
    BY StoredType DEF TypeOK
  <1>2. spec[k] \in Checks \cup {None}
    BY DEF TypeOK
  <1>3. [Stored EXCEPT !.spec = spec[k]] \in Record
    BY <1>1, <1>2 DEF Record
  <1>4. CASE CheckLoad(k)
    BY <1>1, <1>4 DEF TypeOK, CheckLoad, Record, Booting, storeVars, threadVars, pageVars,
                      counters, history
  <1>5. CASE CheckTeach(k)
    BY <1>2, <1>3, <1>5 DEF TypeOK, CheckTeach, Teaches, Booting, threadVars, pageVars, counters
  <1>6. CASE CheckStart(k)
    BY <1>6 DEF TypeOK, CheckStart, Starts, ProbeSteps, Booting, storeVars, pageVars,
                counters, history
  <1>7. CASE CheckEnd(k)
    BY <1>2, <1>3, <1>7 DEF TypeOK, CheckEnd, Teaches, Booting, pageVars, counters
  <1>8. CASE CheckShield(k) \/ CheckEval(k) \/ \E p \in Pages : CheckNavigate(k, p)
    <2>1. /\ page' \in [Users -> Pages]
          /\ shelf' \in [Users -> [Sites -> SUBSET Sites]]
          /\ pending' \in [Users -> [storage : SUBSET Sites, origin : Sites] \cup {None}]
      BY <1>8, ProbeCommands, LandsType DEF TypeOK, pageVars
    <2>2. dirty' \in [Users -> BOOLEAN]
      <3>1. dirty' = dirty \/ dirty' = [dirty EXCEPT ![k] = TRUE]
        BY <1>8, ProbeCommands
      <3>2. dirty \in [Users -> BOOLEAN]
        BY DEF TypeOK
      <3>3. [dirty EXCEPT ![k] = TRUE] \in [Users -> BOOLEAN]
        BY <3>2
      <3> QED
        BY <3>1, <3>2, <3>3
    <2>4. check' \in [Checks -> {"new", "teach", "wait", "done"} \cup ProbeSteps]
      <3>1. PICK s \in ProbeSteps : check' = [check EXCEPT ![k] = s]
        BY <1>8, ProbeCommands
      <3> QED
        BY <3>1 DEF TypeOK
    <2>3. UNCHANGED <<storeVars, jars, threadVars, lock, copy, spec, counters, history>>
      BY <1>8, ProbeCommands
    <2> QED
      BY <2>1, <2>2, <2>3, <2>4 DEF TypeOK, storeVars, threadVars, counters, history
  <1> QED
    BY <1>4, <1>5, <1>6, <1>7, <1>8 DEF CheckStep

LEMMA ServiceTypes ==
    ASSUME TypeOK, Delete \/ Restart
    PROVE TypeOK'
  <1> USE BoundAssumption, NameAssumption, UserNames
  <1>1. CASE Delete
    BY <1>1 DEF TypeOK, Delete, NoJar, Booting, threadVars, pageVars, checkVars
  <1>2. CASE Restart
    BY <1>2 DEF TypeOK, Restart, Booting, Pages, history
  <1> QED
    BY <1>1, <1>2

LEMMA InitTypes == Init => TypeOK
  <1> SUFFICES ASSUME Init PROVE TypeOK
    OBVIOUS
  <1> USE BoundAssumption, NameAssumption, UserNames
  <1>1. /\ record \in Record \cup {None} /\ live \in Users \cup {None}
        /\ jars \in [Users -> 0..MaxLogins] /\ jarOf \in [Users -> Users]
        /\ stage \in [Users -> Booting \cup {"none", "create", "up", "gone"}]
        /\ device \in [Users -> Users \cup {None}] /\ since \in [Users -> 0..MaxDeletes]
    BY DEF Init, Booting
  <1>2. /\ page \in [Users -> Pages]
        /\ shelf \in [Users -> [Sites -> SUBSET Sites]]
        /\ pending \in [Users -> [storage : SUBSET Sites, origin : Sites] \cup {None}]
        /\ dirty \in [Users -> BOOLEAN]
    BY DEF Init, Pages
  <1>3. /\ lock \in Users \cup {None} /\ copy = None
        /\ check \in [Checks -> {"new", "teach", "wait", "done"} \cup ProbeSteps]
        /\ spec \in [Checks -> Checks \cup {None}]
    BY DEF Init
  <1>4. /\ logins \in 0..MaxLogins /\ deletes \in 0..MaxDeletes
        /\ restarts \in 0..MaxRestarts
        /\ acked \in 0..MaxLogins /\ purged \in 0..MaxLogins
        /\ taught \in Checks \cup {None}
    BY DEF Init
  <1>5. raced \in BOOLEAN /\ outlived \in BOOLEAN
    BY Zenon DEF Init
  <1> QED
    BY <1>1, <1>2, <1>3, <1>4, <1>5 DEF TypeOK

\* Every step of Next is one of these.
Boots(u) == \/ TeachPersona(u) \/ CreateTab(u) \/ TakePersona(u) \/ LookUpJar(u)
            \/ SeedJar(u) \/ RegisterJar(u) \/ ReadStorage(u)
Runs(u, p) == Boot(u, p) \/ Navigate(u, p) \/ LogIn(u) \/ EndTab(u)

LEMMA Steps ==
    ASSUME Next
    PROVE \/ \E u \in Users : Boots(u) \/ WriteBack(u)
          \/ \E u \in Users, p \in Pages : Runs(u, p)
          \/ \E k \in Checks : CheckLoad(k) \/ CheckStep(k)
          \/ Delete
          \/ Restart
  <1>1. Blank \in Pages
    BY DEF Pages
  <1> QED
    BY <1>1, UserNames DEF Next, Boots, Runs, ThreadStep

LEMMA KeepsTypes == TypeOK /\ [Next]_vars => TypeOK'
  <1> SUFFICES ASSUME TypeOK, [Next]_vars PROVE TypeOK'
    OBVIOUS
  <1>1. CASE Next
    BY <1>1, Steps, BootTypes, CommandTypes, WriteBackTypes, CheckTypes, ServiceTypes
       DEF Boots, Runs
  <1>2. CASE UNCHANGED vars
    BY <1>2 DEF TypeOK, vars, storeVars, threadVars, pageVars, checkVars, counters, history
  <1> QED
    BY <1>1, <1>2

\* Every variable of Accounts stays within its type, whatever commands, write-backs,
\* verifies, deletes and crashes interleave (account.rs, persist.rs, actor.rs).
THEOREM AccountTypes == Spec => []TypeOK
  BY InitTypes, KeepsTypes, PTL DEF Spec

\* ---------------------------------------------------------------------------
\* The record.

\* What a step may do to the record and what is known about it.
KeepsRecord == UNCHANGED <<record, acked, purged, taught, deletes>>
GivesPersona(u) == record' = WithPersona(u) /\ UNCHANGED <<acked, purged, taught, deletes>>

LEMMA RecordChanges ==
    ASSUME [Next]_vars
    PROVE \/ KeepsRecord
          \/ \E u \in Users : GivesPersona(u)
          \/ \E u \in Users : Save(u)
          \/ \E k \in Checks : Teaches(k) /\ deletes' = deletes
          \/ Delete
  <1> USE DEF KeepsRecord, storeVars, counters, history
  <1>1. CASE UNCHANGED vars
    BY <1>1 DEF vars
  <1>2. ASSUME NEW u \in Users, Boots(u)
        PROVE KeepsRecord \/ GivesPersona(u)
    BY <1>2 DEF Boots, GivesPersona, TeachPersona, CreateTab, TakePersona, LookUpJar, SeedJar,
                RegisterJar, ReadStorage
  <1>3. ASSUME NEW u \in Users, WriteBack(u)
        PROVE KeepsRecord \/ Save(u)
    BY <1>3 DEF WriteBack, ReadCookies, ReadShelf
  <1>4. ASSUME NEW u \in Users, NEW p \in Pages, Runs(u, p)
        PROVE KeepsRecord
    BY <1>4 DEF Runs, Boot, Navigate, LogIn, EndTab, Idle
  <1>5. ASSUME NEW k \in Checks, CheckLoad(k) \/ CheckStep(k)
        PROVE KeepsRecord \/ (Teaches(k) /\ deletes' = deletes)
    BY <1>5 DEF CheckLoad, CheckStep, CheckTeach, CheckStart, CheckShield, CheckNavigate,
                CheckEval, ProbeSends, CheckEnd
  <1>6. CASE Restart
    BY <1>6 DEF Restart
  <1> QED
    BY <1>1, <1>2, <1>3, <1>4, <1>5, <1>6, Steps

LEMMA SaveWrites ==
    ASSUME TypeOK, NEW u \in Users, Save(u)
    PROVE /\ record' # None /\ Stored' = record'
          /\ record'.cookies = copy.cookies
          /\ record'.spec = Stored.spec /\ record'.persona = Stored.persona
  <1>1. Stored \in Record
    BY StoredType DEF TypeOK
  <1>2. copy \in [cookies : 0..MaxLogins, url : Pages, storage : SUBSET Sites,
                  at : {"storage", "save"}, seen : Checks \cup {None}]
    BY DEF TypeOK, Save
  <1>3. record' = Merged(copy) /\ Merged(copy) \in Record
    BY <1>1, <1>2 DEF Save, Merged, Record
  <1> QED
    BY <1>3, RecordAssumption DEF Merged, Stored

LEMMA TeachingWrites ==
    ASSUME TypeOK, NEW k \in Checks, Teaches(k)
    PROVE /\ record' # None /\ Stored' = record'
          /\ record'.spec = spec[k]
          /\ record'.cookies = Stored.cookies /\ record'.persona = Stored.persona
  <1>1. Stored \in Record /\ spec[k] \in Checks \cup {None}
    BY StoredType DEF TypeOK
  <1>2. record' \in Record /\ record'.spec = spec[k]
        /\ record'.cookies = Stored.cookies /\ record'.persona = Stored.persona
    BY <1>1 DEF Teaches, Record
  <1> QED
    BY <1>2, RecordAssumption DEF Stored

LEMMA PersonaWrites ==
    ASSUME TypeOK, NEW u \in Users, record' = WithPersona(u)
    PROVE /\ record' # None /\ Stored' = record'
          /\ record'.spec = Stored.spec /\ record'.cookies = Stored.cookies
          /\ record'.persona \in Users
          /\ Stored.persona # None => record'.persona = Stored.persona
  BY WithPersonaType, RecordAssumption DEF TypeOK, Stored

LEMMA TaughtStays ==
    ASSUME TypeOK, TeachingSurvives, [Next]_vars
    PROVE TeachingSurvives'
  <1> USE DEF TeachingSurvives
  <1>1. Stored \in Record
    BY StoredType DEF TypeOK
  <1>2. CASE KeepsRecord
    BY <1>2 DEF KeepsRecord, Stored
  <1>3. ASSUME NEW u \in Users, GivesPersona(u)
        PROVE TeachingSurvives'
    BY <1>3, PersonaWrites DEF GivesPersona
  <1>4. ASSUME NEW u \in Users, Save(u)
        PROVE TeachingSurvives'
    BY <1>4, SaveWrites DEF Save, Stored
  <1>5. ASSUME NEW k \in Checks, Teaches(k)
        PROVE TeachingSurvives'
    BY <1>5, TeachingWrites, RecordAssumption DEF Teaches, Stored
  <1>6. CASE Delete
    BY <1>6 DEF Delete, Stored, Fresh
  <1> QED
    BY <1>2, <1>3, <1>4, <1>5, <1>6, RecordChanges

\* No write-back undoes what a verify wrote: the record's spec is the one taught last,
\* whatever captures overlap it (capture_account's preserve-merge in mutate_account).
THEOREM TeachingIsKept == Spec => []TeachingSurvives
  <1>1. Init => TeachingSurvives
    BY DEF Init, TeachingSurvives, Stored, Fresh
  <1>2. TypeOK /\ TeachingSurvives /\ [Next]_vars => TeachingSurvives'
    BY TaughtStays
  <1> QED
    BY <1>1, <1>2, AccountTypes, PTL DEF Spec

\* ---------------------------------------------------------------------------
\* The device.

\* A session's count of deletes is never ahead, so a delete ages every session.
SinceBound == \A u \in Users : since[u] <= deletes
DeviceInv == SinceBound /\ OneDevice

LEMMA KeepsDevice ==
    ASSUME TypeOK, DeviceInv, [Next]_vars
    PROVE DeviceInv'
  <1> USE DEF DeviceInv, SinceBound, OneDevice
  <1> USE UserNames, BoundAssumption
  <1>1. Stored \in Record /\ (record # None => Stored = record)
    BY StoredType DEF TypeOK, Stored
  <1>2. CASE UNCHANGED <<record, device, since, deletes>>
    BY <1>2
  <1>3. ASSUME NEW u \in Users, GivesPersona(u), UNCHANGED <<device, since>>
        PROVE DeviceInv'
    BY <1>1, <1>3, PersonaWrites DEF GivesPersona
  <1>4. ASSUME NEW u \in Users, TakePersona(u)
        PROVE DeviceInv'
    <2>1. record' # None /\ (Stored.persona # None => record'.persona = Stored.persona)
          /\ device' = [device EXCEPT ![u] = record'.persona]
          /\ since' = [since EXCEPT ![u] = deletes] /\ deletes' = deletes
      BY <1>4, PersonaWrites DEF TakePersona, counters
    <2> QED
      BY <1>1, <2>1 DEF TypeOK
  <1>5. ASSUME NEW u \in Users, Save(u)
        PROVE DeviceInv'
    BY <1>1, <1>5, SaveWrites DEF Save, threadVars, counters
  <1>6. ASSUME NEW k \in Checks, Teaches(k), UNCHANGED <<device, since, deletes>>
        PROVE DeviceInv'
    BY <1>1, <1>6, TeachingWrites
  <1>7. CASE Delete
    <2>1. UNCHANGED <<device, since>> /\ deletes' = deletes + 1
      BY <1>7 DEF Delete, threadVars
    <2>2. \A u \in Users : since[u] < deletes'
      BY <2>1 DEF TypeOK
    <2> QED
      BY <2>1, <2>2 DEF TypeOK
  <1>8. CASE Restart
    BY <1>8 DEF Restart, TypeOK
  <1> DEFINE Untouched == UNCHANGED <<record, device, since, deletes>>
  <1>9. ASSUME NEW u \in Users, Boots(u)
        PROVE \/ Untouched
              \/ GivesPersona(u) /\ UNCHANGED <<device, since>>
              \/ TakePersona(u)
    BY <1>9 DEF Boots, GivesPersona, TeachPersona, CreateTab, LookUpJar, SeedJar, RegisterJar,
                ReadStorage, storeVars, counters, history
  <1>10. ASSUME NEW u \in Users, WriteBack(u)
         PROVE Untouched \/ Save(u)
    BY <1>10 DEF WriteBack, ReadCookies, ReadShelf, storeVars, threadVars, counters
  <1>11. ASSUME NEW u \in Users, NEW p \in Pages, Runs(u, p)
         PROVE Untouched
    BY <1>11 DEF Runs, Boot, Navigate, LogIn, EndTab, Idle, storeVars, threadVars, counters
  <1>12. ASSUME NEW k \in Checks, CheckLoad(k) \/ CheckStep(k)
         PROVE Untouched \/ (Teaches(k) /\ UNCHANGED <<device, since, deletes>>)
    BY <1>12 DEF CheckLoad, CheckStep, CheckTeach, CheckStart, CheckShield, CheckNavigate,
                 CheckEval, ProbeSends, CheckEnd, storeVars, threadVars, counters
  <1>13. CASE UNCHANGED vars
    BY <1>13 DEF vars, storeVars, threadVars, counters
  <1> HIDE DEF DeviceInv
  <1> QED
    BY <1>2, <1>3, <1>4, <1>5, <1>6, <1>7, <1>8, <1>9, <1>10, <1>11, <1>12, <1>13, Steps

\* All sessions that took a persona since the last delete are the record's one device,
\* however many boot at once (persona_for draws inside mutate_account).
THEOREM DeviceIsShared == Spec => []OneDevice
  <1>1. Init => DeviceInv
    BY DEF Init, DeviceInv, SinceBound, OneDevice
  <1>2. TypeOK /\ DeviceInv /\ [Next]_vars => DeviceInv'
    BY KeepsDevice
  <1>3. DeviceInv => OneDevice
    BY DEF DeviceInv
  <1> QED
    BY <1>1, <1>2, <1>3, AccountTypes, PTL DEF Spec

\* ---------------------------------------------------------------------------
\* The jar, as long as no lookup races another.

\* At most one session makes a jar; it found none, and nobody inserts one meanwhile.
Alone == \A u, v \in Users : stage[u] \in Making /\ stage[v] \in Making => u = v
Unregistered == \A u \in Users : stage[u] \in Making => live = None /\ jarOf[u] = u

JarInv == SinceBound /\ (raced \/ (Alone /\ Unregistered /\ OneJar))

JarStill == UNCHANGED <<stage, jarOf, live, since, deletes, raced>>

\* A step that is neither of the boot nor of the service leaves the jar's state alone,
\* or moves one session to a stage at which it does not matter.
LEMMA JarSteps ==
    ASSUME [Next]_vars
    PROVE \/ JarStill
          \/ \E u \in Users : Boots(u) \/ \E p \in Pages : Boot(u, p)
          \/ \E u \in Users, s \in {"gone", "persona"} :
                /\ UNCHANGED <<jarOf, live, since, deletes, raced>>
                /\ stage' = [stage EXCEPT ![u] = s]
          \/ Delete
          \/ Restart
  <1> USE DEF JarStill, storeVars, threadVars, counters, history
  <1>1. CASE UNCHANGED vars
    BY <1>1 DEF vars
  <1>2. ASSUME NEW u \in Users, WriteBack(u)
        PROVE JarStill
    BY <1>2 DEF WriteBack, ReadCookies, ReadShelf, Save
  <1>3. ASSUME NEW u \in Users, NEW p \in Pages, Navigate(u, p) \/ LogIn(u)
        PROVE JarStill
    BY <1>3 DEF Navigate, LogIn, Idle
  <1>4. ASSUME NEW u \in Users, EndTab(u)
        PROVE /\ UNCHANGED <<jarOf, live, since, deletes, raced>>
              /\ stage' = [stage EXCEPT ![u] = "gone"]
    BY <1>4 DEF EndTab
  <1>5. ASSUME NEW k \in Checks,
               CheckLoad(k) \/ CheckTeach(k) \/ CheckShield(k) \/ CheckEval(k)
               \/ \E p \in Pages : CheckNavigate(k, p)
        PROVE JarStill
    BY <1>5 DEF CheckLoad, CheckTeach, Teaches, CheckShield, CheckEval, CheckNavigate, ProbeSends
  <1>6. ASSUME NEW k \in Checks, CheckStart(k)
        PROVE /\ UNCHANGED <<jarOf, live, since, deletes, raced>>
              /\ stage' = [stage EXCEPT ![k] = "persona"]
    BY <1>6 DEF CheckStart, Starts
  <1>7. ASSUME NEW k \in Checks, CheckEnd(k)
        PROVE /\ UNCHANGED <<jarOf, live, since, deletes, raced>>
              /\ stage' = [stage EXCEPT ![k] = "gone"]
    BY <1>7 DEF CheckEnd, Teaches
  <1> HIDE DEF JarStill
  <1> QED
    BY <1>1, <1>2, <1>3, <1>4, <1>5, <1>6, <1>7, Steps, UserNames DEF Runs, CheckStep

LEMMA KeepsJar ==
    ASSUME TypeOK, JarInv, [Next]_vars
    PROVE JarInv'
  <1> USE DEF JarInv, SinceBound, Alone, Unregistered, OneJar, Making, Using
  <1> USE UserNames, BoundAssumption
  <1>1. CASE JarStill
    BY <1>1 DEF JarStill
  <1>2. ASSUME NEW u \in Users, NEW s \in {"gone", "persona"},
               UNCHANGED <<jarOf, live, since, deletes, raced>>,
               stage' = [stage EXCEPT ![u] = s]
        PROVE JarInv'
    BY <1>2 DEF TypeOK
  <1>3. ASSUME NEW u \in Users, TeachPersona(u)
        PROVE JarInv'
    BY <1>3 DEF TeachPersona, TypeOK, counters, history
  <1>4. ASSUME NEW u \in Users, CreateTab(u)
        PROVE JarInv'
    BY <1>4 DEF CreateTab, Starts, TypeOK, storeVars, counters, history
  <1>5. ASSUME NEW u \in Users, TakePersona(u)
        PROVE JarInv'
    BY <1>5 DEF TakePersona, TypeOK, counters, history
  <1>6. ASSUME NEW u \in Users, LookUpJar(u)
        PROVE JarInv'
    BY <1>6 DEF LookUpJar, Found, TypeOK, storeVars, counters
  <1>7. ASSUME NEW u \in Users, SeedJar(u)
        PROVE JarInv'
    BY <1>7 DEF SeedJar, TypeOK, storeVars, counters, history
  <1>8. ASSUME NEW u \in Users, RegisterJar(u)
        PROVE JarInv'
    <2>1. CASE raced
      BY <1>8, <2>1 DEF RegisterJar, counters, history
    <2>2. CASE ~raced
      <3>1. live = None /\ jarOf[u] = u
        BY <1>8, <2>2 DEF RegisterJar
      <3>2. \A v \in Users : ~(stage[v] \in {"storage", "land", "up"} /\ since[v] = deletes)
        BY <2>2, <3>1 DEF TypeOK
      <3> QED
        BY <1>8, <2>2, <3>1, <3>2 DEF RegisterJar, TypeOK, counters, history
    <2> QED
      BY <2>1, <2>2
  <1>9. ASSUME NEW u \in Users, ReadStorage(u)
        PROVE JarInv'
    BY <1>9 DEF ReadStorage, TypeOK, storeVars, counters, history
  <1>10. ASSUME NEW u \in Users, NEW p \in Pages, Boot(u, p)
         PROVE JarInv'
    BY <1>10 DEF Boot, TypeOK, storeVars, counters, history
  <1>11. CASE Delete
    <2>1. \A u \in Users : since'[u] <= deletes' /\ since'[u] # deletes'
      BY <1>11 DEF Delete, threadVars, TypeOK
    <2>2. live' = None /\ UNCHANGED <<stage, jarOf>>
      BY <1>11 DEF Delete, NoJar, threadVars
    <2>3. CASE raced /\ \E u \in Users : Running(u)
      BY <1>11, <2>1, <2>3 DEF Delete, TypeOK
    <2>4. CASE \A u \in Users : ~Running(u)
      BY <2>1, <2>2, <2>4 DEF Running, Booting, TypeOK
    <2>5. CASE ~raced
      BY <2>1, <2>2, <2>5 DEF TypeOK
    <2> QED
      BY <2>3, <2>4, <2>5
  <1>12. CASE Restart
    BY <1>12 DEF Restart, TypeOK, history
  <1> HIDE DEF JarInv
  <1> QED
    BY <1>1, <1>2, <1>3, <1>4, <1>5, <1>6, <1>7, <1>8, <1>9, <1>10, <1>11, <1>12, JarSteps
       DEF Boots

\* Sessions part jars only where one looks the jar up while another makes one: in every
\* other interleaving of boots, evictions, deletes and crashes, each session that took a
\* persona since the last delete works on the registered jar (account::jar_for).
THEOREM ForksNeedTheRace == Spec => []ForksOnlyInARace
  <1>1. Init => JarInv
    BY DEF Init, JarInv, SinceBound, Alone, Unregistered, OneJar, Making, Using
  <1>2. TypeOK /\ JarInv /\ [Next]_vars => JarInv'
    BY KeepsJar
  <1>3. JarInv => ForksOnlyInARace
    BY DEF JarInv, ForksOnlyInARace
  <1> QED
    BY <1>1, <1>2, <1>3, AccountTypes, PTL DEF Spec

\* ---------------------------------------------------------------------------
\* The mutex and the write-back under it.

\* A half done write-back is of the session that holds the mutex, which is up.
Copying == copy # None => lock \in Users /\ stage[lock] = "up" /\ dirty[lock]

\* A check holds the mutex from the start of its probe to its end.
Probing == \A k \in Checks : check[k] \in ProbeSteps => lock = k

LockInv == Copying /\ Probing

LEMMA KeepsLock ==
    ASSUME TypeOK, LockInv, [Next]_vars
    PROVE LockInv'
  <1> USE DEF LockInv, Copying, Probing, ProbeSteps
  <1> USE UserNames, SetAssumption
  <1>1. CASE UNCHANGED vars
    BY <1>1 DEF vars, threadVars, checkVars
  <1>2. ASSUME NEW u \in Users, Boots(u)
        PROVE LockInv'
    <2>1. UNCHANGED <<copy, lock, dirty, check>> /\ stage[u] # "up"
      BY <1>2 DEF Boots, TeachPersona, CreateTab, Starts, TakePersona, LookUpJar, SeedJar,
                  RegisterJar, ReadStorage, checkVars
    <2>2. \A v \in Users : v # u => stage'[v] = stage[v]
      BY <1>2 DEF Boots, TeachPersona, CreateTab, Starts, TakePersona, LookUpJar, SeedJar,
                  RegisterJar, ReadStorage, TypeOK
    <2> QED
      BY <2>1, <2>2
  <1>3. ASSUME NEW u \in Users, NEW p \in Pages, Boot(u, p)
        PROVE LockInv'
    <2>1. UNCHANGED <<copy, lock, dirty, check>> /\ stage' = [stage EXCEPT ![u] = "up"]
      BY <1>3 DEF Boot, checkVars
    <2> QED
      BY <2>1 DEF TypeOK
  <1>4. ASSUME NEW u \in Users, NEW p \in Pages, Navigate(u, p) \/ LogIn(u)
        PROVE LockInv'
    <2>1. UNCHANGED <<copy, lock, stage, check>> /\ dirty' = [dirty EXCEPT ![u] = TRUE]
      BY <1>4 DEF Navigate, LogIn, Idle, threadVars, checkVars
    <2> QED
      BY <2>1 DEF TypeOK
  <1>5. ASSUME NEW u \in Users, EndTab(u)
        PROVE LockInv'
    BY <1>5 DEF EndTab, TypeOK, checkVars
  <1>6. ASSUME NEW u \in Users, ReadCookies(u)
        PROVE LockInv'
    BY <1>6 DEF ReadCookies, HasLock, TypeOK, Users, threadVars, checkVars
  <1>7. ASSUME NEW u \in Users, ReadShelf(u)
        PROVE LockInv'
    BY <1>7 DEF ReadShelf, threadVars, checkVars
  <1>8. ASSUME NEW u \in Users, Save(u)
        PROVE LockInv'
    <2>1. u \in Tabs => \A k \in Checks : check[k] \notin ProbeSteps
      BY <1>8 DEF Save
    <2> QED
      BY <1>8, <2>1 DEF Save, checkVars
  <1>9. ASSUME NEW k \in Checks, CheckLoad(k) \/ CheckTeach(k)
        PROVE LockInv'
    BY <1>9 DEF CheckLoad, CheckTeach, TypeOK, threadVars
  <1>10. ASSUME NEW k \in Checks, CheckStart(k)
         PROVE LockInv'
    BY <1>10 DEF CheckStart, Starts, TypeOK
  <1>11. ASSUME NEW k \in Checks,
                CheckShield(k) \/ CheckEval(k) \/ \E p \in Pages : CheckNavigate(k, p)
         PROVE LockInv'
    <2>1. UNCHANGED <<lock, copy, stage>> /\ check[k] \in ProbeSteps
      BY <1>11, ProbeCommands DEF threadVars
    <2>2. lock = k /\ \A j \in Checks : j # k => check'[j] = check[j]
      BY <1>11, <2>1, ProbeCommands DEF TypeOK
    <2>3. \A v \in Users : dirty[v] => dirty'[v]
      <3>1. dirty' = dirty \/ dirty' = [dirty EXCEPT ![k] = TRUE]
        BY <1>11, ProbeCommands
      <3>2. \A v \in Users : dirty[v] => [dirty EXCEPT ![k] = TRUE][v]
        BY DEF TypeOK
      <3> QED
        BY <3>1, <3>2
    <2> QED
      BY <2>1, <2>2, <2>3
  <1>12. ASSUME NEW k \in Checks, CheckEnd(k)
         PROVE LockInv'
    <2>1. lock = k /\ copy = None /\ \A j \in Checks : check'[j] \in ProbeSteps => j # k
      BY <1>12 DEF CheckEnd, TypeOK
    <2> QED
      BY <1>12, <2>1 DEF CheckEnd, TypeOK
  <1>13. CASE Delete
    BY <1>13 DEF Delete, threadVars, checkVars
  <1>14. CASE Restart
    BY <1>14 DEF Restart, TypeOK
  <1> HIDE DEF LockInv
  <1> QED
    BY <1>1, <1>2, <1>3, <1>4, <1>5, <1>6, <1>7, <1>8, <1>9, <1>10, <1>11, <1>12, <1>13, <1>14,
       Steps DEF Runs, WriteBack, CheckStep

\* ---------------------------------------------------------------------------
\* The age of cookies.

\* No login is newer than the last.
LoginBound == /\ \A u \in Users : jars[u] <= logins
              /\ Stored.cookies <= logins /\ acked <= logins /\ purged <= logins
              /\ copy # None => copy.cookies <= logins

\* The steps by what they do to the record, the jars and the copy.
CookiesStay == UNCHANGED <<record, acked, purged, jars, logins, copy>>

LEMMA LoginSteps ==
    ASSUME [Next]_vars
    PROVE \/ CookiesStay
          \/ \E u \in Users : GivesPersona(u) /\ UNCHANGED <<jars, logins, copy>>
          \/ \E u \in Users : SeedJar(u) \/ LogIn(u) \/ ReadCookies(u) \/ ReadShelf(u) \/ Save(u)
          \/ \E k \in Checks : Teaches(k) /\ UNCHANGED <<jars, logins, copy>>
          \/ Delete
          \/ Restart
  <1> USE DEF CookiesStay, storeVars, counters, history
  <1>1. CASE UNCHANGED vars
    BY <1>1 DEF vars
  <1>2. ASSUME NEW u \in Users, Boots(u)
        PROVE \/ CookiesStay \/ SeedJar(u)
              \/ GivesPersona(u) /\ UNCHANGED <<jars, logins, copy>>
    BY <1>2 DEF Boots, GivesPersona, TeachPersona, CreateTab, TakePersona, LookUpJar,
                RegisterJar, ReadStorage
  <1>3. ASSUME NEW u \in Users, NEW p \in Pages, Runs(u, p)
        PROVE CookiesStay \/ LogIn(u)
    BY <1>3 DEF Runs, Boot, Navigate, EndTab, Idle
  <1>4. ASSUME NEW k \in Checks, CheckLoad(k) \/ CheckStep(k)
        PROVE CookiesStay \/ (Teaches(k) /\ UNCHANGED <<jars, logins, copy>>)
    BY <1>4 DEF CheckLoad, CheckStep, CheckTeach, CheckStart, CheckShield, CheckNavigate,
                CheckEval, ProbeSends, CheckEnd
  <1> HIDE DEF CookiesStay
  <1> QED
    BY <1>1, <1>2, <1>3, <1>4, Steps DEF WriteBack

LEMMA KeepsLoginBound ==
    ASSUME TypeOK, LoginBound, LockInv, [Next]_vars
    PROVE LoginBound'
  <1> USE DEF LoginBound
  <1>1. ASSUME NEW u \in Users, LogIn(u)
        PROVE LoginBound'
    <2>1. /\ logins \in Nat /\ logins' = logins + 1
          /\ jars \in [Users -> Nat] /\ jars' = [jars EXCEPT ![jarOf[u]] = logins + 1]
          /\ UNCHANGED <<acked, purged, copy>> /\ Stored' = Stored
          /\ Stored.cookies \in Nat /\ acked \in Nat /\ purged \in Nat
      BY <1>1, StoredType, BoundAssumption DEF LogIn, Idle, Stored, TypeOK, Record, storeVars,
                                               history
    <2>2. copy # None => copy.cookies \in Nat
      BY BoundAssumption DEF TypeOK
    <2>3. \A v \in Users : jars'[v] <= logins'
      BY <2>1
    <2> QED
      BY <2>1, <2>2, <2>3
  <1>2. ASSUME NEW u \in Users, SeedJar(u)
        PROVE LoginBound'
    BY <1>2 DEF SeedJar, Seed, Stored, TypeOK, storeVars, counters, history
  <1>3. CASE Restart
    BY <1>3, BoundAssumption DEF Restart, Stored, TypeOK, history
  <1>4. CASE CookiesStay
    BY <1>4 DEF CookiesStay, Stored
  <1>5. ASSUME NEW u \in Users, GivesPersona(u), UNCHANGED <<copy, jars, logins>>
        PROVE LoginBound'
    BY <1>5, PersonaWrites DEF GivesPersona
  <1>6. ASSUME NEW u \in Users, ReadCookies(u)
        PROVE LoginBound'
    BY <1>6 DEF ReadCookies, Stored, TypeOK, storeVars, counters, history
  <1>7. ASSUME NEW u \in Users, ReadShelf(u)
        PROVE LoginBound'
    <2>1. copy' # None => copy'.cookies = copy.cookies
      BY <1>7 DEF ReadShelf, TypeOK
    <2> QED
      BY <1>7, <2>1 DEF ReadShelf, Stored, storeVars, counters, history
  <1>8. ASSUME NEW u \in Users, Save(u)
        PROVE LoginBound'
    BY <1>8, SaveWrites DEF Save, counters
  <1>9. ASSUME NEW k \in Checks, Teaches(k), UNCHANGED <<copy, jars, logins>>
        PROVE LoginBound'
    BY <1>9, TeachingWrites DEF Teaches
  <1>10. CASE Delete
    BY <1>10 DEF Delete, Stored, Fresh, TypeOK
  <1> QED
    BY <1>1, <1>2, <1>3, <1>4, <1>5, <1>6, <1>7, <1>8, <1>9, <1>10, LoginSteps

\* ---------------------------------------------------------------------------
\* What a delete leaves, unless a session that had its jar outlives it.

Purged == 1..purged

\* A session that makes a jar makes its own.
OwnJar == \A u \in Users : stage[u] \in Making => jarOf[u] = u

FreshJars == \A u \in Users :
    stage[u] \in Using \cup {"register"} => jars[jarOf[u]] \notin Purged
FreshCopy == copy # None => copy.cookies \notin Purged
GoneInv == OwnJar /\ (outlived \/ (FreshJars /\ FreshCopy /\ DeleteMeansGone))

LEMMA KeepsGone ==
    ASSUME TypeOK, LockInv, LoginBound, GoneInv, [Next]_vars
    PROVE GoneInv'
  <1> USE DEF GoneInv, OwnJar, FreshJars, FreshCopy, DeleteMeansGone, Purged, Making, Using
  <1> USE UserNames
  <1>1. CASE UNCHANGED vars
    BY <1>1 DEF vars, storeVars, threadVars, history, Stored
  <1>2. ASSUME NEW u \in Users, TeachPersona(u) \/ TakePersona(u)
        PROVE GoneInv'
    <2>1. Stored'.cookies = Stored.cookies
      BY <1>2, PersonaWrites DEF TeachPersona, TakePersona
    <2>2. UNCHANGED <<live, jars, jarOf, copy, purged, outlived>>
      BY <1>2 DEF TeachPersona, TakePersona, history
    <2>3. \/ stage' = [stage EXCEPT ![u] = "create"]
          \/ stage' = [stage EXCEPT ![u] = "jar"]
      BY <1>2 DEF TeachPersona, TakePersona
    <2> QED
      BY <2>1, <2>2, <2>3 DEF TypeOK
  <1>3. ASSUME NEW u \in Users,
               UNCHANGED <<record, live, jars, jarOf, copy, purged, outlived>>,
               \/ stage' = [stage EXCEPT ![u] = "persona"]
               \/ stage' = [stage EXCEPT ![u] = "gone"]
               \/ stage' = stage
        PROVE GoneInv'
    BY <1>3 DEF TypeOK, Stored
  <1>4. ASSUME NEW u \in Users, LookUpJar(u)
        PROVE GoneInv'
    BY <1>4 DEF LookUpJar, Found, TypeOK, Stored, storeVars, history
  <1>5. ASSUME NEW u \in Users, SeedJar(u)
        PROVE GoneInv'
    <2>1. jars' = [jars EXCEPT ![u] = Stored.cookies] /\ stage[u] = "seed"
          /\ stage' = [stage EXCEPT ![u] = "register"]
          /\ UNCHANGED <<live, jarOf, copy, purged, outlived>> /\ Stored' = Stored
      BY <1>5 DEF SeedJar, Seed, Stored, storeVars, history
    <2>2. outlived \/ \A v \in Users : jars'[v] = jars[v] \/ jars'[v] \notin Purged
      BY <2>1 DEF TypeOK
    <2>3. jarOf[u] = u /\ (outlived \/ jars'[u] \notin Purged)
      BY <2>1 DEF TypeOK
    <2> QED
      BY <2>1, <2>2, <2>3 DEF TypeOK
  <1>6. ASSUME NEW u \in Users, RegisterJar(u)
        PROVE GoneInv'
    BY <1>6 DEF RegisterJar, TypeOK, Stored, history
  <1>7. ASSUME NEW u \in Users, ReadStorage(u) \/ \E p \in Pages : Boot(u, p)
        PROVE GoneInv'
    BY <1>7 DEF ReadStorage, Boot, TypeOK, Stored, storeVars, history
  <1>8. ASSUME NEW u \in Users, LogIn(u)
        PROVE GoneInv'
    <2>1. jars' = [jars EXCEPT ![jarOf[u]] = logins + 1]
          /\ UNCHANGED <<live, jarOf, stage, copy, purged, outlived>> /\ Stored' = Stored
      BY <1>8 DEF LogIn, Idle, Stored, storeVars, threadVars, history
    <2>2. logins + 1 \notin Purged
      BY BoundAssumption DEF LoginBound, TypeOK
    <2>3. \A v \in Users : jars'[v] = jars[v] \/ jars'[v] \notin Purged
      BY <2>1, <2>2 DEF TypeOK
    <2> QED
      BY <2>1, <2>3 DEF TypeOK
  <1>9. ASSUME NEW u \in Users, ReadCookies(u)
        PROVE GoneInv'
    BY <1>9 DEF ReadCookies, TypeOK, Stored, storeVars, threadVars, history
  <1>10. ASSUME NEW u \in Users, ReadShelf(u)
         PROVE GoneInv'
    <2>1. copy # None /\ copy'.cookies = copy.cookies
      BY <1>10 DEF ReadShelf, TypeOK
    <2> QED
      BY <1>10, <2>1 DEF ReadShelf, Stored, storeVars, threadVars, history
  <1>11. ASSUME NEW u \in Users, Save(u)
         PROVE GoneInv'
    BY <1>11, SaveWrites DEF Save, threadVars
  <1>12. ASSUME NEW k \in Checks, CheckTeach(k) \/ CheckEnd(k)
         PROVE GoneInv'
    <2>1. Stored'.cookies = Stored.cookies
      BY <1>12, TeachingWrites DEF CheckTeach, CheckEnd
    <2>2. UNCHANGED <<live, jars, jarOf, copy, purged, outlived>>
          /\ (stage' = stage \/ stage' = [stage EXCEPT ![k] = "gone"])
      BY <1>12 DEF CheckTeach, CheckEnd, Teaches, threadVars
    <2> QED
      BY <2>1, <2>2 DEF TypeOK
  <1>13. CASE Delete
    <2>1. live' = None /\ Stored'.cookies = 0 /\ UNCHANGED <<stage, jarOf, copy>>
      BY <1>13 DEF Delete, NoJar, Stored, Fresh, threadVars
    <2>2. outlived' = \E u \in Users : stage[u] \in Using \cup {"register"}
      BY <1>13 DEF Delete
    <2>3. CASE \E u \in Users : stage[u] \in Using \cup {"register"}
      BY <2>1, <2>2, <2>3
    <2>4. CASE \A u \in Users : stage[u] \notin Using \cup {"register"}
      <3>1. copy = None
        BY <2>4 DEF LockInv, Copying
      <3> QED
        BY <2>1, <2>4, <3>1
    <2> QED
      BY <2>3, <2>4
  <1>14. CASE Restart
    BY <1>14 DEF Restart, Stored, history
  <1>15. ASSUME NEW u \in Users, NEW p \in Pages,
                CreateTab(u) \/ Navigate(u, p) \/ EndTab(u)
         PROVE /\ UNCHANGED <<record, live, jars, jarOf, copy, purged, outlived>>
               /\ \/ stage' = [stage EXCEPT ![u] = "persona"]
                  \/ stage' = [stage EXCEPT ![u] = "gone"]
                  \/ stage' = stage
    BY <1>15 DEF CreateTab, Starts, Navigate, Idle, EndTab, storeVars, threadVars, history
  <1>16. ASSUME NEW k \in Checks,
                CheckLoad(k) \/ CheckStart(k) \/ CheckShield(k) \/ CheckEval(k)
                \/ \E p \in Pages : CheckNavigate(k, p)
         PROVE /\ UNCHANGED <<record, live, jars, jarOf, copy, purged, outlived>>
               /\ \/ stage' = [stage EXCEPT ![k] = "persona"]
                  \/ stage' = stage
    BY <1>16 DEF CheckLoad, CheckStart, Starts, CheckShield, CheckEval, CheckNavigate,
                 ProbeSends, storeVars, threadVars, history
  <1> HIDE DEF GoneInv
  <1>17. Blank \in Pages
    BY DEF Pages
  <1> QED
    BY <1>1, <1>2, <1>3, <1>4, <1>5, <1>6, <1>7, <1>8, <1>9, <1>10, <1>11, <1>12, <1>13, <1>14,
       <1>15, <1>16, <1>17, Steps DEF Boots, Runs, WriteBack, CheckStep

\* The unconditional invariants together.
CommonInv == TypeOK /\ LockInv /\ LoginBound

LEMMA CommonHolds == Spec => []CommonInv
  <1>1. Init => LockInv
    BY DEF Init, LockInv, Copying, Probing, ProbeSteps
  <1>2. Init => LoginBound
    BY DEF Init, LoginBound, Stored, Fresh
  <1>3. TypeOK /\ LockInv /\ [Next]_vars => LockInv'
    BY KeepsLock
  <1>4. TypeOK /\ LoginBound /\ LockInv /\ [Next]_vars => LoginBound'
    BY KeepsLoginBound
  <1> QED
    BY <1>1, <1>2, <1>3, <1>4, AccountTypes, PTL DEF Spec, CommonInv

\* Cookies from before a delete are never in the record or the registered jar again,
\* unless a session that had its jar already outlived the delete: booting sessions,
\* verifies, later boots and restarts bring nothing back (account::delete, jar_for).
THEOREM DeletedStaysGone == Spec => []BackOnlyIfOutlived
  <1>1. Init => GoneInv
    BY DEF Init, GoneInv, OwnJar, FreshJars, FreshCopy, DeleteMeansGone, Purged, Stored, Fresh,
           Making, Using
  <1>2. CommonInv /\ GoneInv /\ [Next]_vars => GoneInv'
    BY KeepsGone DEF CommonInv
  <1>3. GoneInv => BackOnlyIfOutlived
    BY DEF GoneInv, BackOnlyIfOutlived
  <1> QED
    BY <1>1, <1>2, <1>3, CommonHolds, PTL DEF Spec

\* ---------------------------------------------------------------------------
\* What a write-back promises.

RecordHas == Stored.cookies = acked
LiveHas == live # None => jars[live] >= acked
SeededHas == \A u \in Users : stage[u] = "register" => jars[u] >= acked
CopyHas == copy # None => acked <= copy.cookies /\ copy.cookies <= jars[jarOf[lock]]
Settled == \A u \in Users : stage[u] \in Using => jarOf[u] = live

Promised == RecordHas /\ LiveHas /\ SeededHas /\ CopyHas /\ Settled
SurviveInv == raced \/ outlived \/ Promised

\* Every step but a delete keeps what write-backs promise, before any race.
LEMMA KeepsPromised ==
    ASSUME CommonInv, JarInv, ~raced, Promised, [Next]_vars, ~Delete
    PROVE Promised'
  <1> TypeOK /\ LockInv /\ LoginBound
    BY DEF CommonInv
  <1> USE DEF Promised, RecordHas, LiveHas, SeededHas, CopyHas, Settled, Making, Using
  <1> USE UserNames
  \* A session that is up works on the registered jar, and then nobody is seeding one.
  <1>0. ASSUME NEW u \in Users, stage[u] = "up"
        PROVE /\ live = jarOf[u] /\ live # None
              /\ \A v \in Users : stage[v] \notin {"seed", "register"}
    BY <1>0 DEF JarInv, Unregistered, TypeOK
  <1>1. CASE UNCHANGED vars
    BY <1>1 DEF vars, storeVars, threadVars, counters, history, Stored
  <1>2. ASSUME NEW u \in Users, TeachPersona(u) \/ TakePersona(u)
        PROVE Promised'
    <2>1. Stored'.cookies = Stored.cookies
      BY <1>2, PersonaWrites DEF TeachPersona, TakePersona
    <2>2. UNCHANGED <<live, jars, jarOf, lock, copy, acked>>
      BY <1>2 DEF TeachPersona, TakePersona, counters, history
    <2>3. \/ stage' = [stage EXCEPT ![u] = "create"]
          \/ stage' = [stage EXCEPT ![u] = "jar"]
      BY <1>2 DEF TeachPersona, TakePersona
    <2> QED
      BY <2>1, <2>2, <2>3 DEF TypeOK
  <1>3. ASSUME NEW u \in Users,
               UNCHANGED <<record, live, jars, jarOf, lock, copy, acked>>,
               \/ stage' = [stage EXCEPT ![u] = "persona"]
               \/ stage' = [stage EXCEPT ![u] = "gone"]
               \/ stage' = stage
        PROVE Promised'
    BY <1>3 DEF TypeOK, Stored
  <1>4. ASSUME NEW u \in Users,
               LookUpJar(u) \/ ReadStorage(u) \/ \E p \in Pages : Boot(u, p)
        PROVE Promised'
    <2>1. UNCHANGED <<live, jars, lock, copy, acked>> /\ Stored' = Stored
      BY <1>4 DEF LookUpJar, ReadStorage, Boot, Stored, storeVars, counters, history
    <2>2. \/ stage' = [stage EXCEPT ![u] = "seed"]
          \/ /\ \E s \in Using : stage' = [stage EXCEPT ![u] = s]
             /\ jarOf'[u] = live
      <3>1. CASE LookUpJar(u)
        BY <3>1 DEF LookUpJar, Found, TypeOK
      <3>2. CASE ReadStorage(u) \/ \E p \in Pages : Boot(u, p)
        BY <3>2 DEF ReadStorage, Boot
      <3> QED
        BY <1>4, <3>1, <3>2
    <2>3. stage[u] \in {"jar", "storage", "land"}
      BY <1>4 DEF LookUpJar, ReadStorage, Boot
    <2>4. \A v \in Users : v # u => jarOf'[v] = jarOf[v]
      BY <1>4 DEF LookUpJar, ReadStorage, Boot, TypeOK
    <2>5. copy # None => jarOf'[lock] = jarOf[lock]
      BY <2>3, <2>4 DEF LockInv, Copying
    <2> QED
      BY <2>1, <2>2, <2>3, <2>4, <2>5 DEF TypeOK
  <1>5. ASSUME NEW u \in Users, SeedJar(u)
        PROVE Promised'
    <2>1. copy = None /\ live = None
      BY <1>0, <1>5 DEF SeedJar, LockInv, Copying, JarInv, Unregistered
    <2>2. jars' = [jars EXCEPT ![u] = acked] /\ stage' = [stage EXCEPT ![u] = "register"]
          /\ UNCHANGED <<live, jarOf, copy, acked>> /\ Stored' = Stored
      BY <1>5 DEF SeedJar, Seed, Stored, storeVars, counters, history
    <2>3. acked >= acked
      BY BoundAssumption DEF TypeOK
    <2> QED
      BY <1>5, <2>1, <2>2, <2>3 DEF SeedJar, TypeOK
  <1>6. ASSUME NEW u \in Users, RegisterJar(u)
        PROVE Promised'
    <2>1. live = None /\ jarOf[u] = u /\ live' = u
      BY <1>6 DEF RegisterJar, JarInv, Unregistered
    <2>2. \A v \in Users : stage[v] \notin Using
      BY <2>1 DEF TypeOK
    <2> QED
      BY <1>6, <2>1, <2>2 DEF RegisterJar, TypeOK, Stored, counters, history
  <1>7. ASSUME NEW u \in Users, LogIn(u)
        PROVE Promised'
    <2>1. jars' = [jars EXCEPT ![jarOf[u]] = logins + 1]
          /\ UNCHANGED <<live, jarOf, stage, lock, copy, acked>>
          /\ Stored' = Stored
      BY <1>7 DEF LogIn, Idle, Stored, storeVars, threadVars, history
    <2>2. \A v \in Users : jars'[v] >= jars[v]
      BY <2>1, BoundAssumption DEF LoginBound, TypeOK
    <2>3. /\ jars \in [Users -> Nat] /\ \A v \in Users : jars'[v] \in Nat
          /\ acked \in Nat /\ (copy # None => copy.cookies \in Nat)
      BY <2>1, BoundAssumption DEF TypeOK
    <2>4. copy # None => lock \in Users /\ jarOf[lock] \in Users
      BY DEF LockInv, Copying, TypeOK
    <2> QED
      BY <2>1, <2>2, <2>3, <2>4 DEF TypeOK
  <1>8. ASSUME NEW u \in Users, ReadCookies(u)
        PROVE Promised'
    <2>0. jars[jarOf[u]] >= acked
      BY <1>0, <1>8 DEF ReadCookies
    <2>1. copy'.cookies = jars[jarOf[u]] /\ lock' = u /\ jars[jarOf[u]] \in Nat
          /\ UNCHANGED <<live, jars, jarOf, stage, acked>> /\ Stored' = Stored
      BY <1>8, BoundAssumption DEF ReadCookies, TypeOK, Stored, storeVars, threadVars, counters,
                                   history
    <2> QED
      BY <2>0, <2>1
  <1>9. ASSUME NEW u \in Users, ReadShelf(u)
        PROVE Promised'
    <2>1. copy # None /\ copy'.cookies = copy.cookies
      BY <1>9 DEF ReadShelf, TypeOK
    <2> QED
      BY <1>9, <2>1 DEF ReadShelf, Stored, storeVars, threadVars, counters, history
  <1>10. ASSUME NEW u \in Users, Save(u)
         PROVE Promised'
    <2>1. stage[u] = "up" /\ copy # None /\ lock = u
      BY <1>10 DEF Save, LockInv, Copying
    <2>2. copy.cookies <= jars[live] /\ \A v \in Users : stage[v] # "register"
      BY <1>0, <2>1
    <2>3. jars[live] >= copy.cookies
      BY <1>0, <2>1, <2>2, BoundAssumption DEF TypeOK
    <2>4. acked' = copy.cookies
      <3>1. acked \in Nat /\ copy.cookies \in Nat /\ acked <= copy.cookies
        BY <2>1, BoundAssumption DEF TypeOK
      <3>2. acked' = IF copy.cookies > acked THEN copy.cookies ELSE acked
        BY <1>10 DEF Save
      <3> QED
        BY <3>1, <3>2
    <2> QED
      BY <1>10, <2>2, <2>3, <2>4, SaveWrites DEF Save, threadVars, counters
  <1>11. ASSUME NEW k \in Checks, CheckTeach(k) \/ CheckEnd(k)
         PROVE Promised'
    <2>1. Stored'.cookies = Stored.cookies
      BY <1>11, TeachingWrites DEF CheckTeach, CheckEnd
    <2>2. UNCHANGED <<live, jars, jarOf, copy, acked>>
          /\ (stage' = stage \/ stage' = [stage EXCEPT ![k] = "gone"])
      BY <1>11 DEF CheckTeach, CheckEnd, Teaches, threadVars, counters
    <2>3. lock' = lock \/ copy = None
      <3>1. CASE CheckTeach(k)
        BY <3>1 DEF CheckTeach
      <3>2. CASE CheckEnd(k)
        BY <3>2 DEF CheckEnd, LockInv, Copying, Probing, ProbeSteps
      <3> QED
        BY <1>11, <3>1, <3>2
    <2> QED
      BY <2>1, <2>2, <2>3 DEF TypeOK
  <1>13. CASE Restart
    BY <1>13 DEF Restart, Stored, history
  <1>14. ASSUME NEW u \in Users, NEW p \in Pages,
                CreateTab(u) \/ Navigate(u, p) \/ EndTab(u)
         PROVE Promised'
    BY <1>3, <1>14 DEF CreateTab, Starts, Navigate, Idle, EndTab, storeVars, threadVars,
                       counters, history
  <1>15. ASSUME NEW k \in Checks, CheckLoad(k) \/ CheckShield(k) \/ CheckEval(k)
                               \/ \E p \in Pages : CheckNavigate(k, p)
         PROVE Promised'
    BY <1>3, <1>15 DEF CheckLoad, CheckShield, CheckEval, CheckNavigate, ProbeSends, storeVars, threadVars, counters, history
  <1>16. ASSUME NEW k \in Checks, CheckStart(k)
         PROVE Promised'
    <2>1. copy = None
      BY <1>16 DEF CheckStart, Starts, LockInv, Copying
    <2> QED
      BY <1>16, <2>1 DEF CheckStart, Starts, Stored, TypeOK, storeVars, counters, history
  <1> HIDE DEF Promised
  <1>17. Blank \in Pages
    BY DEF Pages
  <1> QED
    BY <1>1, <1>2, <1>4, <1>5, <1>6, <1>7, <1>8, <1>9, <1>10, <1>11, <1>13, <1>14,
       <1>15, <1>16, <1>17, Steps DEF Boots, Runs, WriteBack, CheckStep

\* Only a delete forgets that a race or a delete in use happened.
LEMMA HistoryStays ==
    ASSUME [Next]_vars
    PROVE Delete \/ ((raced => raced') /\ outlived' = outlived)
  <1> USE DEF history
  <1>1. CASE UNCHANGED vars
    BY <1>1 DEF vars
  <1>2. ASSUME NEW u \in Users, Boots(u) \/ WriteBack(u)
        PROVE (raced => raced') /\ outlived' = outlived
    <2>1. CASE LookUpJar(u)
      BY <2>1, Zenon DEF LookUpJar
    <2>2. CASE ~LookUpJar(u)
      BY <1>2, <2>2 DEF Boots, TeachPersona, CreateTab, TakePersona, SeedJar, RegisterJar,
                        ReadStorage, WriteBack, ReadCookies, ReadShelf, Save
    <2> QED
      BY <2>1, <2>2
  <1>3. ASSUME NEW u \in Users, NEW p \in Pages, Runs(u, p)
        PROVE (raced => raced') /\ outlived' = outlived
    BY <1>3 DEF Runs, Boot, Navigate, LogIn, EndTab, Idle
  <1>4. ASSUME NEW k \in Checks, CheckLoad(k) \/ CheckStep(k)
        PROVE (raced => raced') /\ outlived' = outlived
    BY <1>4 DEF CheckLoad, CheckStep, CheckTeach, Teaches, CheckStart, CheckShield,
                CheckNavigate, CheckEval, ProbeSends, CheckEnd
  <1>5. CASE Restart
    BY <1>5 DEF Restart
  <1> QED
    BY <1>1, <1>2, <1>3, <1>4, <1>5, Steps

\* A delete that no session with a jar outlives leaves nothing to promise.
LEMMA DeletePromises ==
    ASSUME CommonInv, Delete
    PROVE outlived' \/ Promised'
  <1> TypeOK /\ LockInv
    BY DEF CommonInv
  <1> USE DEF Making, Using
  <1>1. live' = None /\ Stored'.cookies = 0 /\ acked' = 0 /\ UNCHANGED <<stage, jarOf, copy>>
    BY DEF Delete, NoJar, Stored, Fresh, threadVars
  <1>2. outlived' = \E u \in Users : stage[u] \in Using \cup {"register"}
    BY DEF Delete
  <1>3. CASE \E u \in Users : stage[u] \in Using \cup {"register"}
    BY <1>2, <1>3
  <1>4. CASE \A u \in Users : stage[u] \notin Using \cup {"register"}
    <2>1. copy = None
      BY <1>4 DEF LockInv, Copying
    <2> QED
      BY <1>1, <1>4, <2>1 DEF Promised, RecordHas, LiveHas, SeededHas, CopyHas, Settled
  <1> QED
    BY <1>3, <1>4

LEMMA KeepsSurvive ==
    ASSUME CommonInv, JarInv, SurviveInv, [Next]_vars
    PROVE SurviveInv'
  <1>1. CASE Delete
    BY <1>1, DeletePromises DEF SurviveInv
  <1>2. CASE ~Delete /\ (raced \/ outlived)
    BY <1>2, HistoryStays DEF SurviveInv
  <1>3. CASE ~Delete /\ ~raced /\ Promised
    BY <1>3, KeepsPromised DEF SurviveInv
  <1> QED
    BY <1>1, <1>2, <1>3 DEF SurviveInv

LEMMA SurviveGives == TypeOK /\ SurviveInv => LoginSurvives
  <1> SUFFICES ASSUME TypeOK, Promised PROVE LoginSurvives
    BY DEF SurviveInv, LoginSurvives
  <1>1. Stored.cookies >= acked
    BY BoundAssumption DEF Promised, RecordHas, TypeOK
  <1>2. ASSUME NEW u \in Users, stage[u] \in Using
        PROVE jars[jarOf[u]] >= acked
    BY <1>2, UserNames DEF Promised, Settled, LiveHas, TypeOK
  <1> QED
    BY <1>1, <1>2 DEF LoginSurvives

\* A login that some caller saw written back is in the record and in the jar of every
\* session, across evictions, boots that overlap anything but a lookup, deletes and any
\* number of restarts, unless two first uses raced or a session outlived a delete
\* (capture_account, jar_for, boot).
THEOREM AckedLoginSurvives == Spec => []LoginSurvives
  <1>1. Init => JarInv
    BY DEF Init, JarInv, SinceBound, Alone, Unregistered, OneJar, Making, Using
  <1>2. Init => SurviveInv
    BY DEF Init, SurviveInv, Promised, RecordHas, LiveHas, SeededHas, CopyHas, Settled, Using,
           Stored, Fresh
  <1>3. CommonInv /\ JarInv /\ [Next]_vars => JarInv'
    BY KeepsJar DEF CommonInv
  <1>4. CommonInv /\ JarInv /\ SurviveInv /\ [Next]_vars => SurviveInv'
    BY KeepsSurvive
  <1>5. CommonInv /\ SurviveInv => LoginSurvives
    BY SurviveGives DEF CommonInv
  <1> QED
    BY <1>1, <1>2, <1>3, <1>4, <1>5, CommonHolds, PTL DEF Spec
=============================================================================
