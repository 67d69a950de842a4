------------------------- MODULE RealmGuardsProofs -------------------------
(***************************************************************************)
(* The guards of a realm for every size of the two loans and every number  *)
(* of climbs: what was lent comes back, a strike has two climbs behind it, *)
(* and a torn bracket is announced.                                        *)
(***************************************************************************)
EXTENDS RealmGuards, TLAPS

\* A guard's terminate is on its way, or belongs to the heap guard, or strayed.
TermHasACause == term => tripped \/ stray \/ job = "long"

\* Between an unwind and the return that announces it the script is still the
\* guarded one.
LeakHasACause ==
    leaked => unwound \/ tripped \/ stray \/ (job = "long" /\ run = "terminated")

\* What the callback and the safe point rely on: the flags are up exactly as
\* long as there is a limit to go back to, and that one is the real limit.
Loan == /\ (pressured \/ tripped) <=> restore # None
        /\ restore = None => limit = 0
        /\ restore # None => restore = 0

IInv == TypeOK /\ Loan /\ NoFalseStrike /\ TermHasACause /\ LeakHasACause

LEMMA InitIInv == Init => IInv
<1> SUFFICES ASSUME Init PROVE IInv
  OBVIOUS
<1> USE SizeAssumption, NameAssumption DEF Init
<1>1. TypeOK
  <2>1. limit \in Nat /\ strikes \in Nat /\ climbs \in 0..MaxClimbs
    OBVIOUS
  <2> QED BY <2>1, Zenon DEF TypeOK, Entries
<1>2. Loan /\ TermHasACause /\ LeakHasACause
  BY DEF Loan, TermHasACause, LeakHasACause
<1>3. NoFalseStrike
  BY DEF NoFalseStrike
<1> QED BY <1>1, <1>2, <1>3 DEF IInv

\* The safe point: what it takes, lends back and counts.
LEMMA RecoverKeeps ==
    ASSUME IInv, Recover, climbs' = climbs
    PROVE  /\ strikes' \in Nat /\ limit' \in Nat /\ restore' = None
           /\ pressured' = FALSE /\ tripped' = FALSE
           /\ Loan' /\ NoFalseStrike'
<1>1. strikes' \in Nat /\ limit' \in Nat /\ restore' = None
  BY NameAssumption DEF IInv, TypeOK, Loan, Recover, Strikes
<1>2. pressured' = FALSE /\ tripped' = FALSE
  BY DEF Recover
<1>3. Loan'
  BY <1>1, <1>2, NameAssumption DEF IInv, TypeOK, Loan, Recover
<1>4. NoFalseStrike'
  <2>1. CASE tripped
    BY <1>2, <2>1 DEF IInv, TypeOK, NoFalseStrike, Recover, Strikes
  <2>2. CASE ~tripped
    BY <1>2, <2>2 DEF IInv, TypeOK, NoFalseStrike, Recover, Strikes
  <2> QED BY <2>1, <2>2
<1> QED BY <1>1, <1>2, <1>3, <1>4

LEMMA ClimbKeeps == IInv /\ Climb => IInv'
<1> SUFFICES ASSUME IInv, Climb PROVE IInv'
  OBVIOUS
<1> USE SizeAssumption, NameAssumption DEF Climb
<1>1. TypeOK'
  <2>1. climbs' \in 0..MaxClimbs /\ limit' \in Nat /\ restore' \in Nat \cup {None}
    BY DEF IInv, TypeOK, FirstLimit
  <2>2. tripped' \in BOOLEAN /\ pressured' = TRUE /\ term' \in BOOLEAN
    BY DEF IInv, TypeOK
  <2> QED BY <2>1, <2>2 DEF IInv, TypeOK, scriptVars
<1>2. Loan'
  BY DEF IInv, TypeOK, Loan, FirstLimit
<1>3. NoFalseStrike'
  <2>1. CASE pressured
    BY <2>1 DEF IInv, TypeOK, NoFalseStrike
  <2>2. CASE ~pressured
    BY <2>2 DEF IInv, TypeOK, NoFalseStrike
  <2> QED BY <2>1, <2>2
<1>4. TermHasACause' /\ LeakHasACause'
  BY DEF IInv, TermHasACause, LeakHasACause, scriptVars
<1> QED BY <1>1, <1>2, <1>3, <1>4 DEF IInv

\* Whatever leaves the heap guard alone keeps its part.
LEMMA HeapKept ==
    ASSUME IInv, UNCHANGED heapVars, climbs' = climbs
    PROVE  Loan' /\ NoFalseStrike'
BY DEF IInv, Loan, NoFalseStrike, heapVars

LEMMA IInvStep == IInv /\ [Next]_vars => IInv'
<1> SUFFICES ASSUME IInv, [Next]_vars PROVE IInv'
  OBVIOUS
<1> USE DEF IInv, TermHasACause, LeakHasACause
<1>1. CASE EnterScript
  <2>1. Loan' /\ NoFalseStrike'
    BY <1>1, HeapKept DEF EnterScript, historyVars
  <2>2. TypeOK'
    BY <1>1 DEF EnterScript, Begin, Guarded, TypeOK, Entries, heapVars, historyVars
  <2> QED BY <1>1, <2>1, <2>2 DEF EnterScript, Begin, heapVars, historyVars, TypeOK, Entries
<1>2. CASE EnterEval
  <2>1. climbs' = climbs /\ Recover
    BY <1>2 DEF EnterEval, historyVars
  <2>2. TypeOK'
    BY <1>2, <2>1, RecoverKeeps, NameAssumption
       DEF EnterEval, Begin, Guarded, StillPending, TypeOK, Entries, historyVars
  <2> QED BY <1>2, <2>1, <2>2, RecoverKeeps
          DEF EnterEval, Begin, StillPending, historyVars, TypeOK
<1>3. CASE EnterLoop
  <2>1. climbs' = climbs /\ Recover
    BY <1>3 DEF EnterLoop, historyVars
  <2>2. leaked' \in {FALSE, leaked}
    BY <1>3 DEF EnterLoop
  <2>3. TypeOK'
    BY <1>3, <2>1, <2>2, RecoverKeeps, NameAssumption
       DEF EnterLoop, Begin, Guarded, TypeOK, Entries, historyVars
  <2>4. leaked' => stray'
    <3>1. CASE unwound \/ tripped
      BY <1>3, <3>1 DEF EnterLoop, Begin, StillPending, historyVars, TypeOK
    <3>2. CASE ~(unwound \/ tripped)
      BY <1>3, <2>2, <3>2 DEF EnterLoop, Begin, historyVars, TypeOK
    <3> QED BY <3>1, <3>2
  <2> QED BY <1>3, <2>1, <2>3, <2>4, RecoverKeeps DEF EnterLoop
<1>4. CASE Climb
  BY <1>4, ClimbKeeps
<1>5. CASE DogFires
  <2>1. Loan' /\ NoFalseStrike'
    BY <1>5, HeapKept DEF DogFires, historyVars
  <2> QED BY <1>5, <2>1 DEF DogFires, TypeOK, scriptVars, heapVars, historyVars
<1>6. CASE Spins
  BY <1>6 DEF Spins, vars, scriptVars, heapVars, historyVars, TypeOK, Loan, NoFalseStrike
<1>7. CASE Starts
  <2>1. Loan' /\ NoFalseStrike'
    BY <1>7, HeapKept DEF Starts, historyVars
  <2> QED BY <1>7, <2>1 DEF Starts, TypeOK, heapVars, historyVars
<1>8. CASE Ends
  <2>1. Loan' /\ NoFalseStrike'
    BY <1>8, HeapKept DEF Ends, historyVars
  <2> QED BY <1>8, <2>1 DEF Ends, Running, TypeOK, heapVars, historyVars
<1>9. CASE Unwinds
  <2>1. Loan' /\ NoFalseStrike'
    BY <1>9, HeapKept DEF Unwinds, historyVars
  <2>2. term' \in BOOLEAN /\ leaked' \in BOOLEAN
        /\ run' \in {"terminated", "beheaded"}
    BY <1>9 DEF Unwinds, TypeOK
  <2>3. TypeOK'
    BY <1>9, <2>2 DEF Unwinds, TypeOK, heapVars, historyVars
  <2>4. tripped' \/ stray' \/ job' = "long"
    BY <1>9 DEF Unwinds, heapVars, historyVars
  <2>5. LeakHasACause'
    BY <1>9, <2>4 DEF Unwinds, heapVars, historyVars
  <2> QED BY <2>1, <2>3, <2>4, <2>5
<1>10. CASE GuardedReturns
  <2>1. Loan' /\ NoFalseStrike'
    BY <1>10, HeapKept DEF GuardedReturns, Returns
  <2>2. term' \in BOOLEAN /\ unwound' \in BOOLEAN /\ stray' \in BOOLEAN
    BY <1>10 DEF GuardedReturns, Announced, TypeOK
  <2>3. TypeOK'
    BY <1>10, <2>2 DEF GuardedReturns, Returns, TypeOK, heapVars
  <2>4. TermHasACause' /\ LeakHasACause'
    BY <1>10 DEF GuardedReturns, Returns, Announced, TypeOK, heapVars
  <2> QED BY <2>1, <2>3, <2>4
<1>11. CASE BareReturns
  <2>1. Loan' /\ NoFalseStrike'
    BY <1>11, HeapKept DEF BareReturns, Returns
  <2>2. job # "long" /\ dog = "none"
    BY <1>11 DEF BareReturns, TypeOK
  <2>3. TypeOK'
    BY <1>11, <2>2 DEF BareReturns, Returns, TypeOK, heapVars
  <2>4. TermHasACause' /\ LeakHasACause'
    BY <1>11, <2>2 DEF BareReturns, Returns, heapVars
  <2> QED BY <2>1, <2>3, <2>4
<1>12. CASE Retries
  <2>1. Loan' /\ NoFalseStrike'
    BY <1>12, HeapKept DEF Retries
  <2> QED BY <1>12, <2>1 DEF Retries, Killed, TypeOK, heapVars
<1>13. CASE UNCHANGED vars
  BY <1>13 DEF vars, scriptVars, heapVars, historyVars, TypeOK, Loan, NoFalseStrike
<1> QED BY <1>1, <1>2, <1>3, <1>4, <1>5, <1>6, <1>7, <1>8, <1>9, <1>10, <1>11, <1>12,
           <1>13 DEF Next, Script

LEMMA IInvHolds == Spec => []IInv
BY InitIInv, IInvStep, PTL DEF Spec

\* The realm's types, and a guard thread only around a guarded script.
THEOREM GuardTypes == Spec => []TypeOK
BY IInvHolds, PTL DEF IInv

\* The safe point gives everything back that was lent on top of the limit.
THEOREM CeilingNeverCreeps == Spec => []LimitComesBack
<1>1. IInv => LimitComesBack
  BY DEF IInv, Loan, LimitComesBack
<1> QED BY <1>1, IInvHolds, PTL

\* A realm is never dropped for memory it gave back.
THEOREM StrikesAreEarned == Spec => []NoFalseStrike
BY IInvHolds, PTL DEF IInv

\* Only a terminate that outlived its script keeps a torn bracket from the heal.
THEOREM LeaksAreAnnounced == Spec => []NoSilentLeak
<1>1. IInv => NoSilentLeak
  BY DEF IInv, LeakHasACause, NoSilentLeak
<1> QED BY <1>1, IInvHolds, PTL
=============================================================================
