---------------------------- MODULE GatesProofs ----------------------------
(***************************************************************************)
(* For any number of searches and hosts, any threshold, sentence, limit,   *)
(* window and cap: no host is skipped on failures that a good probe has    *)
(* answered, and no window's length sees more than two budgets of a site.  *)
(***************************************************************************)
EXTENDS Gates, SequenceTheorems, WellFoundedInduction, TLAPS

Record == [fails : 1..MaxFails, skip_until : Nat]

\* The search's half of the types.
Types == /\ now \in 0..MaxTime /\ wall \in 0..now
         /\ stage \in [Searches -> {"idle", "probe", "proxy"}]
         /\ host \in [Searches -> Sites \cup {None}]
         /\ \A q \in Searches : stage[q] # "idle" => host[q] \in Sites
         /\ direct \in [Sites -> Record \cup {None}]
         /\ streak \in [Sites -> 0..Threshold]

\* What is counted against a host happened since its last good probe, and it
\* is sentenced on nothing else.
Earned(s) == direct[s] # None =>
                /\ streak[s] = Threshold \/ direct[s].fails <= streak[s]
                /\ direct[s].skip_until > 0 => streak[s] = Threshold

IInv == Types /\ \A s \in Sites : Earned(s)

\* Trimming only takes records away.
LEMMA EvictedTakes ==
    ASSUME NEW m \in [Sites -> Record \cup {None}], NEW n \in Evicted(m)
    PROVE  /\ n \in [Sites -> Record \cup {None}]
           /\ \A s \in Sites : n[s] \in {m[s], None}
BY DEF Evicted, Without, Entries

\* One more failed probe of a host.
LEMMA FailedIsEarned ==
    ASSUME IInv, NEW s \in Sites,
           streak' = [streak EXCEPT ![s] = IF @ = Threshold THEN @ ELSE @ + 1]
    PROVE  /\ Failed(s) \in Record
           /\ streak' \in [Sites -> 0..Threshold]
           /\ streak'[s] = Threshold \/ Failed(s).fails <= streak'[s]
           /\ Failed(s).skip_until > 0 => streak'[s] = Threshold
<1> USE SizeAssumption
<1>1. streak[s] \in 0..Threshold /\ wall \in Nat
  BY DEF IInv, Types
<1>2. streak'[s] = (IF streak[s] = Threshold THEN streak[s] ELSE streak[s] + 1)
  BY DEF IInv, Types
<1>3. streak' \in [Sites -> 0..Threshold]
  BY <1>1 DEF IInv, Types
<1> DEFINE old == IF direct[s] = None THEN [fails |-> 0, skip_until |-> 0] ELSE direct[s]
<1>4. /\ old.fails \in 0..MaxFails /\ old.skip_until \in Nat
      /\ streak[s] = Threshold \/ old.fails <= streak[s]
      /\ old.skip_until > 0 => streak[s] = Threshold
  <2>1. CASE direct[s] = None
    BY <1>1, <2>1
  <2>2. CASE direct[s] # None
    <3>1. direct[s] \in Record
      BY <2>2 DEF IInv, Types
    <3> QED BY <2>2, <3>1 DEF IInv, Earned, Record
  <2> QED BY <2>1, <2>2
<1> HIDE DEF old
<1>5. /\ Failed(s).fails = Bump(old.fails)
      /\ Failed(s).skip_until = IF Bump(old.fails) >= Threshold THEN wall + SkipFor
                                ELSE old.skip_until
      /\ Failed(s) = [fails |-> Failed(s).fails, skip_until |-> Failed(s).skip_until]
  BY DEF Failed, old
<1>6. Bump(old.fails) \in 1..MaxFails
  BY <1>4 DEF Bump
<1>7. Failed(s).skip_until \in Nat
  BY <1>1, <1>4, <1>5
<1>8. Failed(s) \in Record
  BY <1>5, <1>6, <1>7 DEF Record
<1>9. streak'[s] = Threshold \/ Failed(s).fails <= streak'[s]
  BY <1>1, <1>2, <1>4, <1>5 DEF Bump
<1>10. Failed(s).skip_until > 0 => streak'[s] = Threshold
  <2>1. CASE Bump(old.fails) >= Threshold
    BY <1>1, <1>2, <1>4, <1>5, <1>6, <1>9, <2>1
  <2>2. CASE ~(Bump(old.fails) >= Threshold)
    BY <1>1, <1>2, <1>4, <1>5, <2>2
  <2> QED BY <2>1, <2>2
<1> QED BY <1>3, <1>8, <1>9, <1>10

LEMMA InitIInv == Init => IInv
BY SizeAssumption DEF Init, IInv, Types, Earned

LEMMA IInvStep == IInv /\ [Next]_vars => IInv'
<1> SUFFICES ASSUME IInv, [Next]_vars PROVE IInv'
  OBVIOUS
<1>1. CASE Tick
  <2>1. now' \in 0..MaxTime /\ wall' \in 0..now'
    BY <1>1, SizeAssumption DEF Tick, IInv, Types
  <2> QED BY <1>1, <2>1 DEF Tick, IInv, Types, Earned, searchVars
<1>8. CASE StepBack
  BY <1>8 DEF StepBack, IInv, Types, Earned, searchVars
<1>2. CASE \E s \in Sites : CheckDomain(s)
  BY <1>2 DEF CheckDomain, IInv, Types, Earned, searchVars, clocks
<1>3. ASSUME NEW q \in Searches, NEW s \in Sites, Search(q, s) PROVE IInv'
  BY <1>3 DEF Search, Goes, IInv, Types, Earned, clocks
<1>4. ASSUME NEW q \in Searches, ProbeWorks(q) PROVE IInv'
  <2>1. host[q] \in Sites
    BY <1>4 DEF ProbeWorks, IInv, Types
  <2>2. Types'
    BY <1>4, <2>1, SizeAssumption DEF ProbeWorks, Done, Goes, Cleared, IInv, Types, clocks
  <2>3. ASSUME NEW s \in Sites PROVE Earned(s)'
    BY <1>4, <2>1 DEF ProbeWorks, Cleared, IInv, Types, Earned
  <2> QED BY <2>2, <2>3 DEF IInv
<1>5. ASSUME NEW q \in Searches, ProbeFails(q) PROVE IInv'
  <2> DEFINE m == [direct EXCEPT ![host[q]] = Failed(host[q])]
  <2>1. host[q] \in Sites /\ now' = now /\ wall' = wall
    BY <1>5 DEF ProbeFails, clocks, IInv, Types
  <2>2. streak' = [streak EXCEPT ![host[q]] = IF @ = Threshold THEN @ ELSE @ + 1]
    BY <1>5 DEF ProbeFails
  <2>3. /\ Failed(host[q]) \in Record
        /\ streak' \in [Sites -> 0..Threshold]
        /\ streak'[host[q]] = Threshold \/ Failed(host[q]).fails <= streak'[host[q]]
        /\ Failed(host[q]).skip_until > 0 => streak'[host[q]] = Threshold
    BY <2>1, <2>2, FailedIsEarned
  <2>4. m \in [Sites -> Record \cup {None}] /\ direct' \in Evicted(m)
    BY <1>5, <2>1, <2>3 DEF ProbeFails, IInv, Types
  <2>5. /\ direct' \in [Sites -> Record \cup {None}]
        /\ \A s \in Sites : direct'[s] \in {m[s], None}
    BY <2>4, EvictedTakes
  <2>6. Types'
    BY <1>5, <2>1, <2>3, <2>5 DEF ProbeFails, Done, Goes, IInv, Types, clocks
  <2>7. ASSUME NEW s \in Sites PROVE Earned(s)'
    <3>1. CASE s = host[q]
      <4>1. m[s] = Failed(s)
        BY <2>1, <3>1 DEF IInv, Types
      <4> QED BY <2>1, <2>3, <2>5, <3>1, <4>1 DEF Earned
    <3>2. CASE s # host[q]
      <4>1. m[s] = direct[s] /\ streak'[s] = streak[s]
        BY <2>1, <2>2, <3>2 DEF IInv, Types
      <4> QED BY <2>1, <2>5, <4>1 DEF IInv, Earned
    <3> QED BY <3>1, <3>2
  <2> QED BY <2>6, <2>7 DEF IInv
<1>6. ASSUME NEW q \in Searches, ProxyAnswers(q) \/ ProxyChallenged(q) PROVE IInv'
  BY <1>6 DEF ProxyAnswers, ProxyChallenged, Done, Goes, IInv, Types, Earned, clocks
<1>7. CASE UNCHANGED vars
  BY <1>7 DEF vars, clocks, rateVars, searchVars, IInv, Types, Earned
<1> QED BY <1>1, <1>2, <1>3, <1>4, <1>5, <1>6, <1>7, <1>8 DEF Next

\* A host's sentence rests on Threshold failed probes with no good one since,
\* whichever of several probes answers last.
THEOREM SentencesAreEarned == Spec => []SentencedForCause
<1>1. IInv => SentencedForCause
  <2> SUFFICES ASSUME IInv, NEW s \in Sites, Sentenced(s) PROVE streak[s] >= Threshold
    BY DEF SentencedForCause
  <2>1. direct[s] \in Record /\ direct[s].skip_until > wall /\ wall \in Nat
    BY DEF IInv, Types, Sentenced
  <2>2. direct[s].skip_until > 0
    BY <2>1 DEF Record
  <2> QED BY <2>2, SizeAssumption DEF IInv, Types, Earned, Sentenced
<1> QED BY <1>1, InitIInv, IInvStep, PTL DEF Spec

\* ---------------------------------------------------------------------------
\* The largest member of a set of numbers that has a bound.

Less == {ss \in Nat \X Nat : ss[1] < ss[2]}

LEMMA LessWellFounded == IsWellFoundedOn(Less, Nat)
BY ONLY NatLessThanWellFounded DEF OpToRel, Less

LEMMA Largest ==
    ASSUME NEW n \in Nat, NEW I \in SUBSET (0..n), I # {}
    PROVE  Max(I) \in I /\ \A i \in I : i <= Max(I)
<1> DEFINE J == {n - i : i \in I}
<1>1. J \in SUBSET Nat /\ J # {}
  <2>1. \A i \in I : i \in 0..n /\ n - i \in Nat
    OBVIOUS
  <2> QED BY <2>1
<1>2. \A i, j \in Nat : i < j => <<i, j>> \in Less
  <2> SUFFICES ASSUME NEW i \in Nat, NEW j \in Nat, i < j PROVE <<i, j>> \in Less
    OBVIOUS
  <2>1. <<i, j>> \in Nat \X Nat /\ <<i, j>>[1] < <<i, j>>[2]
    OBVIOUS
  <2> QED BY <2>1 DEF Less
<1>3. PICK j \in J : \A i \in J : ~(<<i, j>> \in Less)
  BY <1>1, WFMin, LessWellFounded
<1>4. \A i \in J : i \in Nat /\ j \in Nat /\ ~(i < j)
  BY <1>1, <1>2, <1>3
<1>5. PICK m \in I : j = n - m
  OBVIOUS
<1>6. \A i \in I : m >= i
  BY <1>4, <1>5
<1>7. \A i \in I : i <= Max(I)
  BY <1>6 DEF Max
<1> QED BY <1>6, <1>7 DEF Max

\* Lately forgets a prefix, at whose end an entry is a window old, and keeps
\* none that is.
LEMMA LatelyCuts ==
    ASSUME NEW r \in Seq(0..MaxTime), NEW t \in Nat
    PROVE  /\ Lately(r, t) \in Seq(0..MaxTime)
           /\ \E m \in 0..Len(r) :
                /\ Len(Lately(r, t)) = Len(r) - m
                /\ \A i \in 1..(Len(r) - m) :
                     /\ Lately(r, t)[i] = r[m + i]
                     /\ t < r[m + i] + Window
<1> DEFINE n == Len(r)
           old == {i \in 1..n : r[i] + Window <= t}
           m == Max(old \cup {0})
<1>1. /\ n \in Nat /\ Window \in Nat /\ MaxTime \in Nat
      /\ \A i \in 1..n : r[i] \in 0..MaxTime
  <2>1. Window \in Nat /\ MaxTime \in Nat
    BY SizeAssumption
  <2>2. n \in Nat /\ \A i \in 1..n : r[i] \in 0..MaxTime
    BY LenProperties, ElementOfSeq
  <2> QED BY <2>1, <2>2
<1>2. m \in old \cup {0} /\ \A i \in old \cup {0} : i <= m
  <2> DEFINE I == old \cup {0}
  <2>1. I \in SUBSET (0..n) /\ I # {}
    BY <1>1
  <2> HIDE DEF I
  <2>2. Max(I) \in I /\ \A i \in I : i <= Max(I)
    BY <1>1, <2>1, Largest
  <2> QED BY <2>2 DEF I
<1>3. m \in 0..n
  BY <1>2
<1>4. Lately(r, t) = SubSeq(r, m + 1, n)
  BY DEF Lately
<1> HIDE DEF m, n
<1>5. \A i \in (m + 1)..n : r[i] \in 0..MaxTime
  BY <1>1, <1>3
<1>6. /\ Lately(r, t) \in Seq(0..MaxTime)
      /\ Len(Lately(r, t)) = IF m + 1 <= n THEN n - (m + 1) + 1 ELSE 0
      /\ \A i \in 1..(n - (m + 1) + 1) : Lately(r, t)[i] = r[(m + 1) + i - 1]
  BY <1>1, <1>3, <1>4, <1>5, SubSeqProperties
<1>7. Len(Lately(r, t)) = n - m
  BY <1>1, <1>3, <1>6
<1>8. ASSUME NEW i \in 1..(n - m)
      PROVE  Lately(r, t)[i] = r[m + i] /\ t < r[m + i] + Window
  <2>1. (m + 1) + i - 1 = m + i /\ i \in 1..(n - (m + 1) + 1) /\ m + i \in 1..n
    BY <1>1, <1>3
  <2>2. m + i \notin old
    BY <1>1, <1>2, <1>3
  <2>3. r[m + i] \in 0..MaxTime
    BY <1>1, <2>1
  <2> QED BY <1>1, <1>6, <2>1, <2>2, <2>3
<1> QED BY <1>3, <1>6, <1>7, <1>8 DEF n

\* ---------------------------------------------------------------------------
\* The page rate.

RateTypes ==
    /\ now \in 0..MaxTime
    /\ windows \in [Sites -> [count : 0..Limit, started : 0..MaxTime] \cup {None}]
    /\ recent \in [Sites -> Seq(0..MaxTime)]

\* Pages let through at r, seen at time t: none is a window old.
Young(r, t) == \A i \in 1..Len(r) : r[i] <= t /\ t < r[i] + Window

\* They are a budget that the site's window w may not know of, all of it no
\* younger than the window's start, and what the window has counted.
Budget(r, w) ==
    \E k \in 0..Len(r) :
        /\ k <= Limit
        /\ Len(r) - k <= (IF w = None THEN 0 ELSE w.count)
        /\ w # None => \A i \in 1..k : r[i] <= w.started

Rate == /\ RateTypes
        /\ \A s \in Sites : Young(recent[s], now) /\ Budget(recent[s], windows[s])

\* None of a window is None, whatever the window.
LEMMA WindowIsNotNone ==
    ASSUME NEW w \in [count : 0..Limit, started : 0..MaxTime] PROVE w # None
BY NameAssumption, SizeAssumption

\* Once a window ran out, everything older than it is forgotten.
LEMMA RanOutForgets ==
    ASSUME Rate, NEW s \in Sites, windows[s] = None \/ RanOut(windows[s])
    PROVE  Len(recent[s]) <= Limit
<1> USE SizeAssumption
<1>1. PICK k \in 0..Len(recent[s]) :
        /\ k <= Limit
        /\ Len(recent[s]) - k <= (IF windows[s] = None THEN 0 ELSE windows[s].count)
        /\ windows[s] # None => \A i \in 1..k : recent[s][i] <= windows[s].started
  BY DEF Rate, Budget
<1>2. now \in Nat /\ Len(recent[s]) \in Nat
      /\ \A i \in 1..Len(recent[s]) : recent[s][i] \in Nat /\ now < recent[s][i] + Window
  <2>1. recent[s] \in Seq(0..MaxTime) /\ now \in Nat
    BY DEF Rate, RateTypes
  <2>2. \A i \in 1..Len(recent[s]) : now < recent[s][i] + Window
    BY DEF Rate, Young
  <2>3. Len(recent[s]) \in Nat /\ \A i \in 1..Len(recent[s]) : recent[s][i] \in 0..MaxTime
    BY ONLY <2>1, LenProperties, ElementOfSeq
  <2>4. 0..MaxTime \subseteq Nat
    OBVIOUS
  <2> QED BY <2>1, <2>2, <2>3, <2>4
<1>3. CASE windows[s] = None
  BY <1>1, <1>2, <1>3
<1>4. CASE windows[s] # None
  <2>1. /\ windows[s].count \in 0..Limit /\ windows[s].started \in Nat
    BY <1>4 DEF Rate, RateTypes
  <2>2. now >= windows[s].started + Window
    BY <1>4 DEF RanOut
  <2>3. k = 0
    <3> SUFFICES ASSUME k # 0 PROVE FALSE
      OBVIOUS
    <3>1. 1 \in 1..k /\ 1 \in 1..Len(recent[s])
      BY <1>1, <1>2
    <3>2. recent[s][1] <= windows[s].started /\ now < recent[s][1] + Window
          /\ recent[s][1] \in Nat
      BY <1>1, <1>2, <1>4, <3>1
    <3>3. Window \in Nat
      OBVIOUS
    <3> DEFINE a == recent[s][1]
               b == windows[s].started
    <3>4. a \in Nat /\ b \in Nat /\ now \in Nat /\ a <= b /\ now < a + Window /\ now >= b + Window
      BY <1>2, <2>1, <2>2, <3>2
    <3> HIDE DEF a, b
    <3> QED BY ONLY <3>3, <3>4
  <2> QED BY <1>1, <1>2, <1>4, <2>1, <2>3
<1> QED BY <1>3, <1>4

LEMMA RateInit == Init => Rate
BY SizeAssumption DEF Init, Rate, RateTypes, Young, Budget

\* A tick forgets what became a window old, and no budget grows by it.
LEMMA YoungLately ==
    ASSUME NEW r \in Seq(0..MaxTime), NEW t \in Nat, Young(r, t)
    PROVE  Young(Lately(r, t + 1), t + 1)
<1> DEFINE n == Len(r)
           l == Lately(r, t + 1)
<1>1. /\ n \in Nat /\ Window \in Nat /\ MaxTime \in Nat
      /\ \A i \in 1..n : r[i] \in 0..MaxTime
  <2>1. Window \in Nat /\ MaxTime \in Nat
    BY SizeAssumption
  <2>2. n \in Nat /\ \A i \in 1..n : r[i] \in 0..MaxTime
    BY LenProperties, ElementOfSeq
  <2> QED BY <2>1, <2>2
<1>2. PICK m \in 0..n :
        /\ Len(l) = n - m
        /\ \A i \in 1..(n - m) : l[i] = r[m + i] /\ t + 1 < r[m + i] + Window
  <2>1. t + 1 \in Nat
    OBVIOUS
  <2> QED BY <2>1, LatelyCuts
<1>3. \A i \in 1..n : r[i] <= t
  BY DEF Young
<1> HIDE DEF n, l
<1>4. ASSUME NEW i \in 1..Len(l) PROVE l[i] <= t + 1 /\ t + 1 < l[i] + Window
  <2>1. i \in 1..(n - m) /\ m + i \in 1..n
    BY <1>1, <1>2
  <2>2. l[i] = r[m + i] /\ r[m + i] \in 0..MaxTime /\ r[m + i] <= t
    BY <1>1, <1>2, <1>3, <2>1
  <2> QED BY <1>1, <1>2, <2>1, <2>2
<1>5. Young(l, t + 1)
  BY <1>4 DEF Young
<1> QED BY <1>5 DEF l

LEMMA BudgetLately ==
    ASSUME NEW r \in Seq(0..MaxTime), NEW t \in Nat,
           NEW w \in [count : 0..Limit, started : 0..MaxTime] \cup {None}, Budget(r, w)
    PROVE  Budget(Lately(r, t), w)
<1> DEFINE n == Len(r)
           l == Lately(r, t)
           c == IF w = None THEN 0 ELSE w.count
<1>1. n \in Nat /\ Limit \in Nat /\ c \in Nat
  BY SizeAssumption
<1>2. PICK m \in 0..n : Len(l) = n - m /\ \A i \in 1..(n - m) : l[i] = r[m + i]
  BY LatelyCuts
<1>3. PICK k \in 0..n : /\ k <= Limit /\ n - k <= c
                        /\ w # None => \A i \in 1..k : r[i] <= w.started
  BY DEF Budget
<1> DEFINE j == IF m <= k THEN k - m ELSE 0
<1> HIDE DEF n, l, c
<1>4. /\ j \in 0..Len(l) /\ j <= Limit /\ Len(l) - j <= c
      /\ \A i \in 1..j : i \in 1..(n - m) /\ m + i \in 1..k
  BY <1>1, <1>2, <1>3
<1> HIDE DEF j
<1>5. w # None => \A i \in 1..j : l[i] <= w.started
  BY <1>2, <1>3, <1>4
<1>6. Budget(l, w)
  BY <1>4, <1>5 DEF Budget, c
<1> QED BY <1>6 DEF l

LEMMA RateTick ==
    ASSUME Rate, Tick PROVE Rate'
<1> USE SizeAssumption
<1>1. /\ now \in 0..MaxTime /\ now' \in 0..MaxTime /\ now' = now + 1
      /\ now \in Nat /\ now + 1 \in Nat
      /\ windows' = windows
      /\ recent' = [s \in Sites |-> Lately(recent[s], now + 1)]
  BY DEF Tick, Rate, RateTypes
<1>2. ASSUME NEW s \in Sites
      PROVE  /\ recent'[s] \in Seq(0..MaxTime)
             /\ Young(recent'[s], now') /\ Budget(recent'[s], windows'[s])
  <2>1. /\ recent[s] \in Seq(0..MaxTime)
        /\ windows[s] \in [count : 0..Limit, started : 0..MaxTime] \cup {None}
        /\ Young(recent[s], now) /\ Budget(recent[s], windows[s])
    BY DEF Rate, RateTypes
  <2>2. recent'[s] = Lately(recent[s], now + 1)
    BY <1>1
  <2>3. Lately(recent[s], now + 1) \in Seq(0..MaxTime)
    BY <1>1, <2>1, LatelyCuts
  <2>4. Young(recent'[s], now')
    BY <1>1, <2>1, <2>2, YoungLately
  <2>5. Budget(recent'[s], windows'[s])
    BY <1>1, <2>1, <2>2, BudgetLately
  <2> QED BY <2>2, <2>3, <2>4, <2>5
<1>3. RateTypes'
  <2>1. recent' \in [Sites -> Seq(0..MaxTime)]
    BY <1>1, <1>2
  <2> QED BY <1>1, <2>1 DEF Rate, RateTypes
<1> QED BY <1>2, <1>3 DEF Rate

\* One budget is within the bound without any window.
LEMMA Windowless ==
    ASSUME NEW r \in Seq(0..MaxTime), Len(r) <= Limit PROVE Budget(r, None)
<1>1. Len(r) \in 0..Len(r) /\ Len(r) - Len(r) <= 0
  OBVIOUS
<1> QED BY <1>1 DEF Budget

\* The window a page is counted in.
LEMMA OpenedWindow ==
    ASSUME Rate, NEW s \in Sites
    PROVE  /\ Opened(s) \in [count : 0..Limit, started : 0..MaxTime]
           /\ ~RanOut(Opened(s))
           /\ \/ windows[s] # None /\ Opened(s) = windows[s]
              \/ /\ windows[s] = None \/ RanOut(windows[s])
                 /\ Opened(s) = [count |-> 0, started |-> now]
<1> USE SizeAssumption
<1>1. CASE windows[s] = None \/ RanOut(windows[s])
  <2>1. Opened(s) = [count |-> 0, started |-> now] /\ now \in 0..MaxTime
    BY <1>1 DEF Opened, Rate, RateTypes
  <2>2. Opened(s).started = now
    BY <2>1
  <2> QED BY <1>1, <2>1, <2>2 DEF RanOut
<1>2. CASE windows[s] # None /\ ~RanOut(windows[s])
  <2>1. Opened(s) = windows[s]
    BY <1>2 DEF Opened
  <2> QED BY <1>2, <2>1 DEF Rate, RateTypes
<1> QED BY <1>1, <1>2

\* A crowded map only loses windows that ran out.
LEMMA TrimmedLoses ==
    ASSUME NEW W, NEW m \in [Sites -> W \cup {None}]
    PROVE  /\ Trimmed(m) \in [Sites -> W \cup {None}]
           /\ \A s \in Sites :
                \/ Trimmed(m)[s] = m[s]
                \/ Trimmed(m)[s] = None /\ m[s] # None /\ RanOut(m[s])
<1>1. CASE Crowded(m)
  <2> DEFINE S == {s \in Entries(m) : RanOut(m[s])}
  <2>1. Trimmed(m) = [s \in Sites |-> IF s \in S THEN None ELSE m[s]]
    BY <1>1 DEF Trimmed, Without
  <2>2. \A s \in S : m[s] # None /\ RanOut(m[s])
    BY DEF Entries
  <2> HIDE DEF S
  <2>3. \A s \in Sites : Trimmed(m)[s] = IF s \in S THEN None ELSE m[s]
    BY <2>1, Zenon
  <2>4. Trimmed(m) \in [Sites -> W \cup {None}]
    BY <2>1
  <2> QED BY <2>2, <2>3, <2>4, Zenon
<1>2. CASE ~Crowded(m)
  <2>1. Trimmed(m) = m
    BY <1>2, Zenon DEF Trimmed
  <2> QED BY <2>1, Zenon
<1> QED BY <1>1, <1>2

LEMMA RateCheckDomain ==
    ASSUME Rate, NEW s \in Sites, CheckDomain(s) PROVE Rate'
<1> USE SizeAssumption
<1> DEFINE W == [count : 0..Limit, started : 0..MaxTime]
           w == Opened(s)
<1>1. /\ now \in 0..MaxTime /\ now' = now
      /\ windows \in [Sites -> W \cup {None}]
      /\ recent \in [Sites -> Seq(0..MaxTime)]
  BY DEF CheckDomain, clocks, Rate, RateTypes
<1>2. /\ w \in W /\ ~RanOut(w)
      /\ \/ windows[s] # None /\ w = windows[s]
         \/ /\ windows[s] = None \/ RanOut(windows[s])
            /\ w = [count |-> 0, started |-> now]
  BY OpenedWindow
<1> HIDE DEF w
<1>3. w.count \in 0..Limit /\ w.started \in 0..MaxTime
  BY <1>2
<1>4. CASE /\ w.count >= Limit
           /\ windows' = [windows EXCEPT ![s] = w]
           /\ UNCHANGED recent
  <2>1. w = windows[s]
    <3> SUFFICES ASSUME w = [count |-> 0, started |-> now] PROVE FALSE
      BY <1>2
    <3>1. w.count = 0
      OBVIOUS
    <3> QED BY <1>4, <3>1
  <2>2. windows' = windows
    BY <1>1, <1>4, <2>1
  <2>3. RateTypes'
    BY <1>1, <1>4, <2>2 DEF RateTypes
  <2>4. \A t \in Sites : Young(recent'[t], now') /\ Budget(recent'[t], windows'[t])
    BY <1>1, <1>4, <2>2 DEF Rate
  <2> QED BY <2>3, <2>4 DEF Rate
<1>5. CASE /\ w.count < Limit
           /\ windows' = Trimmed([windows EXCEPT ![s] = [w EXCEPT !.count = @ + 1]])
           /\ recent' = [recent EXCEPT ![s] = Append(@, now)]
  <2> DEFINE v == [w EXCEPT !.count = @ + 1]
             m == [windows EXCEPT ![s] = v]
  <2>1. v \in W /\ v.count = w.count + 1 /\ v.started = w.started
    BY <1>2, <1>3, <1>5
  <2>2. m \in [Sites -> W \cup {None}] /\ m[s] = v
        /\ \A t \in Sites \ {s} : m[t] = windows[t]
    BY <1>1, <2>1
  <2>3. windows' = Trimmed(m)
    BY <1>5
  <2> HIDE DEF v, m, W
  <2>4. /\ windows' \in [Sites -> W \cup {None}]
        /\ \A t \in Sites :
             \/ windows'[t] = m[t]
             \/ windows'[t] = None /\ m[t] # None /\ RanOut(m[t])
    BY <2>2, <2>3, TrimmedLoses
  <2>5. ~RanOut(v)
    BY <1>2, <2>1 DEF RanOut
  <2>6. windows'[s] = v /\ v # None
    BY <2>1, <2>2, <2>4, <2>5, WindowIsNotNone DEF W
  <2>7. /\ recent' \in [Sites -> Seq(0..MaxTime)]
        /\ recent'[s] = Append(recent[s], now)
        /\ \A t \in Sites \ {s} : recent'[t] = recent[t]
    BY <1>1, <1>5
  <2>8. RateTypes'
    BY <1>1, <2>4, <2>7 DEF RateTypes, W
  <2>9. ASSUME NEW t \in Sites, t # s
        PROVE  Young(recent'[t], now') /\ Budget(recent'[t], windows'[t])
    <3>1. recent'[t] = recent[t] /\ m[t] = windows[t]
      BY <2>2, <2>7, <2>9
    <3>2. Young(recent'[t], now') /\ Budget(recent'[t], windows[t])
      BY <1>1, <3>1 DEF Rate
    <3>3. CASE windows'[t] = windows[t]
      BY <3>2, <3>3
    <3>4. CASE windows'[t] = None /\ RanOut(windows[t])
      <4>1. recent'[t] \in Seq(0..MaxTime) /\ Len(recent'[t]) <= Limit
        BY <2>7, <3>1, <3>4, RanOutForgets
      <4> QED BY <3>2, <3>4, <4>1, Windowless
    <3> QED BY <2>4, <3>1, <3>3, <3>4
  <2>10. Young(recent'[s], now') /\ Budget(recent'[s], windows'[s])
    <3> DEFINE r == recent[s]
    <3>1. r \in Seq(0..MaxTime) /\ Len(r) \in Nat
      BY <1>1
    <3>2. /\ Len(recent'[s]) = Len(r) + 1
          /\ \A i \in 1..Len(r) : recent'[s][i] = r[i] /\ r[i] \in 0..MaxTime
          /\ recent'[s][Len(r) + 1] = now
      <4>1. now \in 0..MaxTime /\ recent'[s] = Append(r, now)
        BY <1>1, <2>7
      <4>2. /\ Len(Append(r, now)) = Len(r) + 1
            /\ \A i \in 1..Len(r) : Append(r, now)[i] = r[i]
            /\ Append(r, now)[Len(r) + 1] = now
        BY ONLY <3>1, <4>1, AppendProperties
      <4>3. \A i \in 1..Len(r) : r[i] \in 0..MaxTime
        BY ONLY <3>1, ElementOfSeq
      <4> QED BY <4>1, <4>2, <4>3
    <3>3. \A i \in 1..Len(r) : r[i] <= now /\ now < r[i] + Window
      BY DEF Rate, Young
    <3> HIDE DEF r
    <3>4. Young(recent'[s], now')
      <4> SUFFICES ASSUME NEW i \in 1..Len(recent'[s])
                   PROVE  recent'[s][i] <= now /\ now < recent'[s][i] + Window
        BY <1>1 DEF Young
      <4>1. CASE i \in 1..Len(r)
        BY ONLY <3>2, <3>3, <4>1
      <4>2. CASE i = Len(r) + 1
        <5>1. recent'[s][i] = now
          BY ONLY <3>2, <4>2
        <5>2. now \in Nat /\ Window \in Nat \ {0}
          BY <1>1
        <5> QED BY ONLY <5>1, <5>2
      <4> QED BY <3>1, <3>2, <4>1, <4>2
    <3>5. PICK k \in 0..Len(r) :
            /\ k <= Limit
            /\ Len(r) - k <= w.count
            /\ \A i \in 1..k : r[i] <= w.started
      <4>1. CASE windows[s] # None /\ w = windows[s]
        BY <4>1 DEF Rate, Budget, r
      <4>2. CASE /\ windows[s] = None \/ RanOut(windows[s])
                 /\ w = [count |-> 0, started |-> now]
        <5>1. Len(r) <= Limit
          BY <4>2, RanOutForgets DEF r
        <5>2. w.count = 0 /\ w.started = now
          BY <4>2
        <5>3. \A i \in 1..Len(r) : r[i] <= w.started
          BY <3>3, <5>2
        <5>4. Len(r) \in 0..Len(r) /\ Len(r) - Len(r) <= w.count
          BY <3>1, <5>2
        <5> QED BY <5>1, <5>3, <5>4
      <4> QED BY <1>2, <4>1, <4>2
    <3>6. k \in 0..Len(recent'[s]) /\ Len(recent'[s]) - k <= v.count
      <4>1. w.count \in Nat
        BY <1>3
      <4>2. v.count = w.count + 1 /\ Len(recent'[s]) = Len(r) + 1
        BY ONLY <2>1, <3>2
      <4>3. Len(r) \in Nat /\ k \in 0..Len(r) /\ Len(r) - k <= w.count
        BY ONLY <3>1, <3>5
      <4> QED BY ONLY <4>1, <4>2, <4>3
    <3>7. \A i \in 1..k : recent'[s][i] <= v.started
      <4> SUFFICES ASSUME NEW i \in 1..k PROVE recent'[s][i] <= v.started
        OBVIOUS
      <4>1. i \in 1..Len(r)
        BY <3>1
      <4> QED BY <2>1, <3>2, <3>5, <4>1
    <3> QED BY <2>6, <3>4, <3>5, <3>6, <3>7 DEF Budget
  <2> QED BY <2>8, <2>9, <2>10 DEF Rate
<1> QED BY <1>4, <1>5 DEF CheckDomain, w

LEMMA RateStep == Rate /\ [Next]_vars => Rate'
<1> SUFFICES ASSUME Rate, [Next]_vars PROVE Rate'
  OBVIOUS
<1>1. CASE Tick
  BY <1>1, RateTick
<1>2. CASE \E s \in Sites : CheckDomain(s)
  BY <1>2, RateCheckDomain
<1>6. CASE StepBack
  BY <1>6 DEF StepBack, rateVars, Rate, RateTypes, Young, Budget
<1>3. CASE now' = now /\ windows' = windows /\ recent' = recent
  BY <1>3 DEF Rate, RateTypes, Young, Budget
<1>4. ASSUME NEW q \in Searches,
             (\E s \in Sites : Search(q, s)) \/ ProbeWorks(q) \/ ProbeFails(q)
                \/ ProxyAnswers(q) \/ ProxyChallenged(q)
      PROVE  now' = now /\ windows' = windows /\ recent' = recent
  BY <1>4 DEF Search, ProbeWorks, ProbeFails, ProxyAnswers, ProxyChallenged, clocks, rateVars
<1>5. CASE UNCHANGED vars
  BY <1>3, <1>5 DEF vars, clocks, rateVars
<1> QED BY <1>1, <1>2, <1>3, <1>4, <1>5, <1>6 DEF Next

\* Within a window's length at most two budgets of pages of a site are let
\* through: one before its window started, or before it was forgotten, and one
\* that the window counts.
THEOREM TwoBudgetsHold == Spec => []TwoBudgetsAtMost
<1>1. Rate => TwoBudgetsAtMost
  <2> SUFFICES ASSUME Rate, NEW s \in Sites PROVE Len(recent[s]) <= 2 * Limit
    BY DEF TwoBudgetsAtMost
  <2> USE SizeAssumption
  <2>1. PICK k \in 0..Len(recent[s]) :
          /\ k <= Limit
          /\ Len(recent[s]) - k <= (IF windows[s] = None THEN 0 ELSE windows[s].count)
    BY DEF Rate, Budget
  <2>2. recent[s] \in Seq(0..MaxTime)
    BY DEF Rate, RateTypes
  <2>3. (IF windows[s] = None THEN 0 ELSE windows[s].count) \in 0..Limit
    BY DEF Rate, RateTypes
  <2> DEFINE n == Len(recent[s])
             c == IF windows[s] = None THEN 0 ELSE windows[s].count
  <2>4. n \in Nat /\ c \in 0..Limit /\ k \in 0..n /\ k <= Limit /\ n - k <= c
    BY ONLY <2>1, <2>2, <2>3, LenProperties
  <2>5. Limit \in Nat
    OBVIOUS
  <2> HIDE DEF n, c
  <2>6. n <= 2 * Limit
    BY ONLY <2>4, <2>5
  <2> QED BY <2>6 DEF n
<1> QED BY <1>1, RateInit, RateStep, PTL DEF Spec

\* ---------------------------------------------------------------------------
\* The rest of the types: no deadline is later than one set at the last
\* moment, and a search that is at rest names no host.

Ahead == MaxTime + SkipFor

Rest == /\ \A q \in Searches : stage[q] = "idle" => host[q] = None
        /\ challenge \in [Sites -> Nat \cup {None}]
        /\ \A s \in Sites : challenge[s] # None => challenge[s] <= Ahead
        /\ \A s \in Sites : direct[s] # None => direct[s].skip_until <= Ahead

LEMMA RestInit == Init => Rest
BY DEF Init, Rest

\* Searches and maps that stay.
LEMMA RestStays ==
    ASSUME Rest, stage' = stage, host' = host, challenge' = challenge, direct' = direct
    PROVE  Rest'
BY DEF Rest, Ahead

LEMMA RestStep == IInv /\ Rest /\ [Next]_vars => Rest'
<1> SUFFICES ASSUME IInv, Rest, [Next]_vars PROVE Rest'
  OBVIOUS
<1> USE DEF IInv
<1>1. /\ wall \in Nat /\ SkipFor \in Nat /\ MaxTime \in Nat
      /\ Ahead \in Nat /\ wall + SkipFor <= Ahead
  BY SizeAssumption DEF Types, Ahead
<1>2. CASE Tick
  BY <1>2, RestStays DEF Tick, searchVars
<1>10. CASE StepBack
  BY <1>10, RestStays DEF StepBack, searchVars
<1>3. CASE \E s \in Sites : CheckDomain(s)
  BY <1>3, RestStays DEF CheckDomain, searchVars
<1>4. ASSUME NEW q \in Searches, NEW s \in Sites, Search(q, s) PROVE Rest'
  <2>1. challenge' = challenge /\ direct' = direct
    BY <1>4 DEF Search
  <2>2. \A p \in Searches : stage'[p] = "idle" => host'[p] = None
    BY <1>4 DEF Search, Goes, Types, Rest
  <2> QED BY <2>1, <2>2 DEF Rest, Ahead
<1>5. ASSUME NEW q \in Searches, ProbeWorks(q) PROVE Rest'
  <2>1. challenge' = challenge /\ host[q] \in Sites
    BY <1>5 DEF ProbeWorks, Types
  <2>2. \A p \in Searches : stage'[p] = "idle" => host'[p] = None
    BY <1>5 DEF ProbeWorks, Done, Goes, Types, Rest
  <2>3. \A s \in Sites : direct'[s] # None => direct'[s] = direct[s]
    BY <1>5, <2>1 DEF ProbeWorks, Cleared, Types
  <2>4. \A s \in Sites : direct'[s] # None => direct'[s].skip_until <= Ahead
    BY <2>3 DEF Rest
  <2> QED BY <2>1, <2>2, <2>4 DEF Rest, Ahead
<1>6. ASSUME NEW q \in Searches, ProbeFails(q) PROVE Rest'
  <2> DEFINE h == host[q]
             m == [direct EXCEPT ![h] = Failed(h)]
  <2>1. challenge' = challenge /\ h \in Sites
    BY <1>6 DEF ProbeFails, Types
  <2>2. \A p \in Searches : stage'[p] = "idle" => host'[p] = None
    BY <1>6 DEF ProbeFails, Done, Goes, Types, Rest
  <2>3. Failed(h) \in Record
    BY <1>6, <2>1, FailedIsEarned DEF ProbeFails
  <2>4. Failed(h).skip_until <= Ahead
    <3>1. direct[h] # None => direct[h].skip_until <= Ahead
      BY <2>1 DEF Rest
    <3> DEFINE old == IF direct[h] = None THEN [fails |-> 0, skip_until |-> 0] ELSE direct[h]
    <3>2. old.skip_until <= Ahead
      BY <1>1, <3>1
    <3> HIDE DEF old
    <3>3. Failed(h).skip_until = IF Bump(old.fails) >= Threshold THEN wall + SkipFor ELSE old.skip_until
      BY DEF Failed, old
    <3> QED BY <1>1, <3>2, <3>3
  <2>5. m \in [Sites -> Record \cup {None}] /\ m[h] = Failed(h)
        /\ \A s \in Sites \ {h} : m[s] = direct[s]
    BY <2>1, <2>3 DEF Types
  <2>6. direct' \in Evicted(m)
    BY <1>6 DEF ProbeFails
  <2> HIDE DEF m, h
  <2>7. \A s \in Sites : direct'[s] \in {m[s], None}
    BY <2>5, <2>6, EvictedTakes
  <2>8. ASSUME NEW s \in Sites, direct'[s] # None PROVE direct'[s].skip_until <= Ahead
    <3>1. direct'[s] = m[s]
      BY <2>7, <2>8
    <3>2. CASE s = h
      BY <2>4, <2>5, <3>1, <3>2
    <3>3. CASE s # h
      BY <2>5, <2>8, <3>1, <3>3 DEF Rest
    <3> QED BY <3>2, <3>3
  <2> QED BY <2>1, <2>2, <2>8 DEF Rest, Ahead
<1>7. ASSUME NEW q \in Searches, ProxyAnswers(q) PROVE Rest'
  <2>1. challenge' = challenge /\ direct' = direct
    BY <1>7 DEF ProxyAnswers
  <2>2. \A p \in Searches : stage'[p] = "idle" => host'[p] = None
    BY <1>7 DEF ProxyAnswers, Done, Goes, Types, Rest
  <2> QED BY <2>1, <2>2 DEF Rest, Ahead
<1>8. ASSUME NEW q \in Searches, ProxyChallenged(q) PROVE Rest'
  <2> DEFINE m == [challenge EXCEPT ![host[q]] = wall + SkipFor]
  <2>1. direct' = direct /\ host[q] \in Sites
    BY <1>8 DEF ProxyChallenged, Types
  <2>2. \A p \in Searches : stage'[p] = "idle" => host'[p] = None
    BY <1>8 DEF ProxyChallenged, Done, Goes, Types, Rest
  <2>3. m \in [Sites -> Nat \cup {None}] /\ \A s \in Sites : m[s] # None => m[s] <= Ahead
    BY <1>1, <2>1 DEF Rest
  <2>4. \/ challenge' = m
        \/ challenge' = Without(m, {s \in Entries(m) : m[s] <= wall})
    BY <1>8 DEF ProxyChallenged
  <2> HIDE DEF m
  <2>5. challenge' \in [Sites -> Nat \cup {None}]
        /\ \A s \in Sites : challenge'[s] # None => challenge'[s] <= Ahead
    BY <2>3, <2>4 DEF Without
  <2> QED BY <2>1, <2>2, <2>5 DEF Rest, Ahead
<1>9. CASE UNCHANGED vars
  BY <1>9, RestStays DEF vars, searchVars
<1> QED BY <1>2, <1>3, <1>4, <1>5, <1>6, <1>7, <1>8, <1>9, <1>10 DEF Next

\* The maps and their keys keep their types, a search names a host exactly
\* while it is out, no failure count leaves its byte, and the wall clock, however
\* it is set back, never runs ahead of the monotonic one.
THEOREM TypeOKHolds == Spec => []TypeOK
<1>1. IInv /\ Rate /\ Rest => TypeOK
  <2> SUFFICES ASSUME IInv, Rate, Rest PROVE TypeOK
    OBVIOUS
  <2>1. now \in 0..MaxTime /\ wall \in 0..now /\ SkipFor \in Nat /\ MaxTime \in Nat
    BY SizeAssumption DEF IInv, Types
  <2>2. \A q \in Searches : host[q] = None <=> stage[q] = "idle"
    BY NameAssumption DEF IInv, Types, Rest
  <2>3. direct \in [Sites -> [fails : 1..MaxFails, skip_until : Time] \cup {None}]
    <3> SUFFICES ASSUME NEW s \in Sites, direct[s] # None
                 PROVE  direct[s] \in [fails : 1..MaxFails, skip_until : Time]
      BY DEF IInv, Types
    <3>1. direct[s] \in Record /\ direct[s].skip_until <= MaxTime + SkipFor
      BY DEF IInv, Types, Rest, Ahead
    <3>2. direct[s].skip_until \in Time
      BY <2>1, <3>1 DEF Time, Record
    <3> QED BY <3>1, <3>2 DEF Record
  <2>4. challenge \in [Sites -> Time \cup {None}]
    <3> SUFFICES ASSUME NEW s \in Sites, challenge[s] # None PROVE challenge[s] \in Time
      BY DEF Rest
    <3> QED BY <2>1 DEF Rest, Ahead, Time
  <2> QED BY <2>1, <2>2, <2>3, <2>4
          DEF TypeOK, IInv, Types, Rate, RateTypes
<1> QED BY <1>1, InitIInv, IInvStep, RateInit, RateStep, RestInit, RestStep, PTL DEF Spec
=============================================================================
