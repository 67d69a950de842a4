------------------------------- MODULE Gates -------------------------------
(***************************************************************************)
(* What the process holds against the next request for a site: the pages   *)
(* counted in its minute (rate.rs), the direct probes of a search engine's *)
(* host that failed (search/dual_path.rs) and the challenges met on both   *)
(* of its paths (search/validate.rs).  Each memory is a map behind a lock  *)
(* that nobody holds while the network answers, so two searches of one     *)
(* host may both be out when their outcomes are noted; each map is trimmed *)
(* in its own way when it is crowded.                                      *)
(*                                                                         *)
(* Left out: site buckets of hosts, exempt URLs, auto-proxied hosts, the   *)
(* classes of a rejected body, request deadlines, and the robots cache     *)
(* (off unless the operator asks for it).                                  *)
(***************************************************************************)
EXTENDS Naturals, FiniteSets, SequencesExt

CONSTANTS
    Searches,   \* searches that may be out at the same time
    Sites,
    Limit,      \* pages per site and window (20)
    Window,     \* WINDOW (60 s)
    Threshold,  \* DIRECT_FAIL_THRESHOLD (2)
    SkipFor,    \* DIRECT_SKIP_SECS, CHALLENGE_SKIP_SECS (600 s)
    MaxFails,   \* the largest u8
    Cap,        \* entries in a map before it is trimmed (4096, 64, 64)
    Proxied,    \* a proxy is configured
    MaxTime,    \* bound: ticks of the clock
    None

ASSUME SizeAssumption == /\ {Limit, Window, Threshold, SkipFor, Cap} \subseteq Nat \ {0}
                         /\ MaxFails \in Nat /\ MaxFails >= Threshold
                         /\ MaxTime \in Nat
                         /\ Proxied \in BOOLEAN
ASSUME NameAssumption == None \notin Nat \cup Sites \cup [count : Nat, started : Nat]

VARIABLES
    now,        \* the monotonic clock of the windows
    wall,       \* the wall clock of the other two maps (now_secs)
    windows,    \* DOMAINS: site -> count and start
    stage,      \* where each search is
    host,       \* and of which host
    direct,     \* DIRECT_FAILS: host -> fails and skip_until
    challenge,  \* CHALLENGE_SKIPS: host -> until
    recent,     \* when pages of a site were let through, a window back (history)
    streak      \* failed probes since the last good one (history)

clocks == <<now, wall>>
rateVars == <<windows, recent>>
searchVars == <<stage, host, direct, challenge, streak>>
vars == <<clocks, rateVars, searchVars>>

Time == 0..(MaxTime + SkipFor)

Entries(m) == {s \in Sites : m[s] # None}
Crowded(m) == Cardinality(Entries(m)) > Cap
Without(m, S) == [s \in Sites |-> IF s \in S THEN None ELSE m[s]]

\* What is left of r at time t when whatever is a window old is forgotten.
Lately(r, t) ==
    LET old == {i \in 1..Len(r) : r[i] + Window <= t}
    IN SubSeq(r, Max(old \cup {0}) + 1, Len(r))

Tick == /\ now < MaxTime
        /\ now' = now + 1
        /\ wall' = wall + 1
        /\ recent' = [s \in Sites |-> Lately(recent[s], now + 1)]
        /\ UNCHANGED <<windows, searchVars>>

\* The wall clock is set back, at most to where it began.  To its maps a step
\* forward is so many ticks.
StepBack == /\ \E t \in 0..now : t < wall /\ wall' = t
            /\ UNCHANGED <<now, rateVars, searchVars>>

\* ---------------------------------------------------------------------------
\* The page rate.

RanOut(w) == now >= w.started + Window

\* check_domain restarts a window that ran out.
Opened(s) == IF windows[s] = None \/ RanOut(windows[s])
             THEN [count |-> 0, started |-> now] ELSE windows[s]

\* Mutant: a crowded map forgets every window.
TrimmedBare(m) == IF Crowded(m) THEN Without(m, Sites) ELSE m

\* Windows that still run stay, crowded or not.
Trimmed(m) == IF Crowded(m) THEN Without(m, {s \in Entries(m) : RanOut(m[s])}) ELSE m

\* A page is counted before it is loaded; a refused one is not.
CheckDomain(s) ==
    /\ LET w == Opened(s) IN
        \/ /\ w.count >= Limit
           /\ windows' = [windows EXCEPT ![s] = w]
           /\ UNCHANGED recent
        \/ /\ w.count < Limit
           /\ windows' = Trimmed([windows EXCEPT ![s] = [w EXCEPT !.count = @ + 1]])
           /\ recent' = [recent EXCEPT ![s] = Append(@, now)]
    /\ UNCHANGED <<clocks, searchVars>>

\* ---------------------------------------------------------------------------
\* A search's direct probe and its retry through the proxy.

Challenged(s) == challenge[s] # None /\ challenge[s] > wall
Sentenced(s) == direct[s] # None /\ direct[s].skip_until > wall

Goes(q, to) == stage' = [stage EXCEPT ![q] = to]
Done(q) == /\ Goes(q, "idle")
           /\ host' = [host EXCEPT ![q] = None]

\* get_direct_first_if; a challenged host fails before anything is sent.
Search(q, s) ==
    /\ stage[q] = "idle"
    /\ ~Challenged(s)
    /\ Goes(q, IF Proxied /\ Sentenced(s) THEN "proxy" ELSE "probe")
    /\ host' = [host EXCEPT ![q] = s]
    /\ UNCHANGED <<clocks, rateVars, direct, challenge, streak>>

\* Mutant: a good probe ends the sentence and keeps the count.
Pardoned(s) == IF direct[s] = None THEN None ELSE [direct[s] EXCEPT !.skip_until = 0]

Cleared(s) == None

ProbeWorks(q) ==
    /\ stage[q] = "probe"
    /\ direct' = [direct EXCEPT ![host[q]] = Cleared(host[q])]
    /\ streak' = [streak EXCEPT ![host[q]] = 0]
    /\ Done(q)
    /\ UNCHANGED <<clocks, rateVars, challenge>>

\* Mutant: the count wraps.
BumpWraps(n) == IF n = MaxFails THEN 0 ELSE n + 1

Bump(n) == IF n = MaxFails THEN n ELSE n + 1

\* From the threshold on every failed probe sentences anew.
Failed(s) ==
    LET old == IF direct[s] = None THEN [fails |-> 0, skip_until |-> 0] ELSE direct[s]
        fails == Bump(old.fails)
    IN [fails |-> fails,
        skip_until |-> IF fails >= Threshold THEN wall + SkipFor ELSE old.skip_until]

FreedFirst(m) == {s \in Entries(m) : \A t \in Entries(m) :
                    \/ m[s].skip_until < m[t].skip_until
                    \/ m[s].skip_until = m[t].skip_until /\ m[s].fails <= m[t].fails}

\* Past the cap: whoever is not under sentence goes, then who is freed first.
Evicted(m) ==
    LET serving == Without(m, {s \in Entries(m) : m[s].skip_until <= wall})
    IN IF ~Crowded(m) THEN {m}
       ELSE IF ~Crowded(serving) THEN {serving}
       ELSE {Without(serving, {s}) : s \in FreedFirst(serving)}

ProbeFails(q) ==
    /\ stage[q] = "probe"
    /\ direct' \in Evicted([direct EXCEPT ![host[q]] = Failed(host[q])])
    /\ streak' = [streak EXCEPT ![host[q]] = IF @ = Threshold THEN @ ELSE @ + 1]
    /\ IF Proxied THEN Goes(q, "proxy") /\ UNCHANGED host ELSE Done(q)
    /\ UNCHANGED <<clocks, rateVars, challenge>>

ProxyAnswers(q) == /\ stage[q] = "proxy"
                   /\ Done(q)
                   /\ UNCHANGED <<clocks, rateVars, direct, challenge, streak>>

\* note_dual_path_challenge: a crowded map only loses what ran out.
ProxyChallenged(q) ==
    LET m == [challenge EXCEPT ![host[q]] = wall + SkipFor] IN
    /\ stage[q] = "proxy"
    /\ challenge' = IF Crowded(m) THEN Without(m, {s \in Entries(m) : m[s] <= wall}) ELSE m
    /\ Done(q)
    /\ UNCHANGED <<clocks, rateVars, direct, streak>>

\* ---------------------------------------------------------------------------

Init == /\ now = 0
        /\ wall = 0
        /\ windows = [s \in Sites |-> None]
        /\ stage = [q \in Searches |-> "idle"]
        /\ host = [q \in Searches |-> None]
        /\ direct = [s \in Sites |-> None]
        /\ challenge = [s \in Sites |-> None]
        /\ recent = [s \in Sites |-> <<>>]
        /\ streak = [s \in Sites |-> 0]

Next == \/ Tick \/ StepBack
        \/ \E s \in Sites : CheckDomain(s)
        \/ \E q \in Searches :
            \/ \E s \in Sites : Search(q, s)
            \/ ProbeWorks(q) \/ ProbeFails(q) \/ ProxyAnswers(q) \/ ProxyChallenged(q)

Spec == Init /\ [][Next]_vars

\* ---------------------------------------------------------------------------
\* Properties.

\* The maps and their keys; every deadline was SkipFor away when it was set.
TypeOK ==
    /\ now \in 0..MaxTime /\ wall \in 0..now
    /\ windows \in [Sites -> [count : 0..Limit, started : 0..MaxTime] \cup {None}]
    /\ stage \in [Searches -> {"idle", "probe", "proxy"}]
    /\ host \in [Searches -> Sites \cup {None}]
    /\ \A q \in Searches : host[q] = None <=> stage[q] = "idle"
    /\ direct \in [Sites -> [fails : 1..MaxFails, skip_until : Time] \cup {None}]
    /\ challenge \in [Sites -> Time \cup {None}]
    /\ recent \in [Sites -> Seq(0..MaxTime)]
    /\ streak \in [Sites -> 0..Threshold]

\* No more than two budgets of a site pass within one window's length, however
\* the windows lie and whatever a crowded map drops.
TwoBudgetsAtMost == \A s \in Sites : Len(recent[s]) <= 2 * Limit

\* Only failed probes in a row put a host under sentence: whichever of two
\* probes answers last, no host is skipped on failures from before a success, not
\* even when the clock is set back before a sentence that had run out.
SentencedForCause == \A s \in Sites : Sentenced(s) => streak[s] >= Threshold

\* "Consecutive direct failures before a host is sentenced to proxy-only"
\* (DIRECT_FAIL_THRESHOLD).
ThresholdSentences ==
    [][\A s \in Sites : streak[s] # Threshold /\ streak'[s] = Threshold =>
            direct'[s] # None /\ direct'[s].skip_until > wall]_vars
=============================================================================
