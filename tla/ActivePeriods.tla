---------------------------- MODULE ActivePeriods ----------------------------
(***************************************************************************)
(* When a distribution session is to be INACTIVE, ESTABLISHED or ACTIVE:   *)
(* the active periods of an ingest session (ActivePeriods.cc), its         *)
(* repetition rule (ActivePeriodsRepRule.cc) or neither (AlwaysActive.cc), *)
(* and the timer that UserDataIngSession keeps for the next transition.    *)
(*                                                                         *)
(* Time is discrete; a schedule is one of                                  *)
(*   [kind |-> "always"]                                                   *)
(*   [kind |-> "windows", list |-> << [start, end, version], ... >>]       *)
(*   [kind |-> "rule", start, dur, rep, version]                           *)
(* Windows end after they start, and the repetition interval is not zero.  *)
(*                                                                         *)
(* The code reads the clock once for the state and again for the timer; up *)
(* to ReadGap passes in between.                                           *)
(***************************************************************************)
EXTENDS Integers, Sequences, FiniteSets, FiniteSetsExt, TLC

CONSTANTS MaxTime,       \* the clock stops here
          MaxWindows,    \* windows in a list, at most
          MaxPuts,       \* PUTs that replace the schedule
          Est,           \* actPeriodEstablishedStateDuration
          RuleDurations, \* durations of a repetition rule
          RuleIntervals, \* repetition intervals
          ReadGap        \* time between two readings of the clock, at most

ASSUME ScheduleAssumption ==
    /\ {MaxTime, MaxWindows, MaxPuts, Est, ReadGap} \subseteq Nat
    /\ RuleDurations \subseteq Nat /\ RuleIntervals \subseteq Nat \ {0}

Time == 0..MaxTime
DistSessionState == {"INACTIVE", "ESTABLISHED", "ACTIVE"}

\* What an AF may send: a list of windows in any order, a rule, or nothing.
Window == {w \in [start: Time, end: Time] : w.start < w.end}
ScheduleRequest ==
    {[kind |-> "always"]}
      \cup [kind: {"windows"}, list: UNION {[1..n -> Window] : n \in 1..MaxWindows}]
      \cup [kind: {"rule"}, start: Time, dur: RuleDurations, rep: RuleIntervals]

VARIABLES now,      \* the clock
          sched,    \* m_activePeriods
          state,    \* the state last determined for the distribution sessions
          timer,    \* m_activePeriodsTimer: {} or {its deadline}
          started,  \* m_startTimer
          read,     \* when the state and the timer were last determined
          version,  \* m_serviceScheduleDescriptionVersion
          puts      \* PUTs so far

periodsVars == <<now, sched, state, timer, started, read, version, puts>>

-----------------------------------------------------------------------------
(* ActivePeriods.                                                          *)

\* The windows that are not finished.
Open(list, t) == {i \in DOMAIN list : list[i].end > t}

\* ActivePeriods::currentState: what the first unfinished window says.
WindowsState(list, t) ==
    IF Open(list, t) = {}
    THEN "INACTIVE"
    ELSE LET w == list[Min(Open(list, t))]
         IN  IF w.start <= t THEN "ACTIVE"
             ELSE IF w.start - Est <= t THEN "ESTABLISHED"
             ELSE "INACTIVE"

\* Mutant: from the establishing time straight to the end of the window.
WindowsTransitionSkips(list, t) ==
    IF Open(list, t) = {}
    THEN {}
    ELSE LET w == list[Min(Open(list, t))]
         IN  IF w.start - Est <= t THEN {w.end} ELSE {w.start - Est}

\* ActivePeriods::nextTransition: {} when there is none.
WindowsTransition(list, t) ==
    IF Open(list, t) = {}
    THEN {}
    ELSE LET w == list[Min(Open(list, t))]
         IN  IF w.start <= t THEN {w.end}
             ELSE IF w.start - Est <= t THEN {w.start}
             ELSE {w.start - Est}

\* The first window in a list that is this one.
Same(list, w) == {i \in DOMAIN list : list[i].start = w.start /\ list[i].end = w.end}

\* The windows the current schedule has.
OldWindows(old) == IF old.kind = "windows" THEN old.list ELSE << >>

\* Positions of a new list whose windows the old schedule did not have: each
\* of them takes a new version.
Fresh(new, old) == {i \in DOMAIN new : Same(OldWindows(old), new[i]) = {}}

\* The windows that come before one when a list is sorted by start; sort is stable.
Earlier(list, i) == {j \in DOMAIN list : \/ list[j].start < list[i].start
                                         \/ list[j].start = list[i].start /\ j < i}

SortByStart(list) ==
    [n \in DOMAIN list |-> list[CHOOSE i \in DOMAIN list : Cardinality(Earlier(list, i)) = n - 1]]

\* Mutant: the windows stay in the order of the request.
ConvertActPeriodsUnsorted(new, old) ==
    [i \in DOMAIN new |->
        [start |-> new[i].start, end |-> new[i].end,
         version |-> IF i \in Fresh(new, old)
                     THEN version + Cardinality({j \in Fresh(new, old) : j < i})
                     ELSE OldWindows(old)[Min(Same(OldWindows(old), new[i]))].version]]

\* ActivePeriods::convertActPeriods: the windows by start, with the versions of
\* the old schedule where it had them.
ConvertActPeriods(new, old) ==
    SortByStart([i \in DOMAIN new |->
        [start |-> new[i].start, end |-> new[i].end,
         version |-> IF i \in Fresh(new, old)
                     THEN version + Cardinality({j \in Fresh(new, old) : j < i})
                     ELSE OldWindows(old)[Min(Same(OldWindows(old), new[i]))].version]])

-----------------------------------------------------------------------------
(* ActivePeriodsRepRule.                                                   *)

\* ActivePeriodsRepRule::currentState
RuleState(r, t) ==
    LET diff == t - r.start
        offset == diff % r.rep
    IN  IF diff < -Est THEN "INACTIVE"
        ELSE IF diff < 0 THEN "ESTABLISHED"
        ELSE IF offset < r.dur THEN "ACTIVE"
        ELSE IF offset < r.rep - Est THEN "INACTIVE"
        ELSE "ESTABLISHED"

\* ActivePeriodsRepRule::nextTransition
RuleTransition(r, t) ==
    LET diff == t - r.start
        offset == diff % r.rep
        active_start == r.start + r.rep * (diff \div r.rep)
    IN  IF diff < -Est THEN {r.start - Est}
        ELSE IF diff < 0 THEN {r.start}
        ELSE IF offset < r.dur THEN {active_start + r.dur}
        ELSE IF offset < r.rep - Est THEN {active_start + r.rep - Est}
        ELSE {active_start + r.rep}

\* The constructor keeps the version of an equal rule.
SameRule(r, old) == /\ old.kind = "rule"
                    /\ <<r.start, r.dur, r.rep>> = <<old.start, old.dur, old.rep>>

VersionedRule(r, old) ==
    [kind |-> "rule", start |-> r.start, dur |-> r.dur, rep |-> r.rep,
     version |-> IF SameRule(r, old) THEN old.version ELSE version]

-----------------------------------------------------------------------------
(* ActivePeriodsBase: the three kinds.                                     *)

\* currentState; AlwaysActive keeps the state the AF has set.
CurrentState(s, user, t) ==
    CASE s.kind = "always"  -> user
      [] s.kind = "windows" -> WindowsState(s.list, t)
      [] s.kind = "rule"    -> RuleState(s, t)

\* nextTransition
NextTransition(s, t) ==
    CASE s.kind = "always"  -> {}
      [] s.kind = "windows" -> WindowsTransition(s.list, t)
      [] s.kind = "rule"    -> RuleTransition(s, t)

\* The new schedule for a request, and the versions it takes.
NewSchedule(r, old) ==
    CASE r.kind = "always"  -> r
      [] r.kind = "windows" -> [r EXCEPT !.list = ConvertActPeriods(r.list, old)]
      [] r.kind = "rule"    -> VersionedRule(r, old)

VersionsTaken(r, old) ==
    CASE r.kind = "always"  -> 0
      [] r.kind = "windows" -> Cardinality(Fresh(r.list, old))
      [] r.kind = "rule"    -> IF SameRule(r, old) THEN 0 ELSE 1

-----------------------------------------------------------------------------
(* UserDataIngSession.                                                     *)

\* The two readings of the clock in one run of a handler: now, for the state,
\* and now', for the timer.
ReadClockTwice == /\ now' \in Time \cap (now..now + ReadGap)
                  /\ read' = [state |-> now, timer |-> now']

\* startTimer: the running timer is stopped and started for the next
\* transition, if there is one.
StartTimer(s) ==
    /\ timer' = IF NextTransition(s, now') = {} /\ ~started THEN timer
                ELSE NextTransition(s, now')
    /\ started' = (NextTransition(s, now') # {})

\* processDistributionSessionInfo, for a POST.
PeriodsInit ==
    /\ now = 0
    /\ version = 1
    /\ sched = [kind |-> "always"]
    /\ state = "ACTIVE"
    /\ timer = {}
    /\ started = FALSE
    /\ read = [state |-> 0, timer |-> 0]
    /\ puts = 0

\* processDistributionSessionInfo and processUserDataIngSessionUpdate: POST and
\* PUT make the schedule, set the state it asks for and start the timer.
Put(r, user) ==
    /\ puts < MaxPuts
    /\ ReadClockTwice
    /\ sched' = NewSchedule(r, sched)
    /\ version' = version + VersionsTaken(r, sched)
    /\ state' = CurrentState(NewSchedule(r, sched), user, now)
    /\ StartTimer(NewSchedule(r, sched))
    /\ puts' = puts + 1

\* changeDistSessionState when the timer expires.  duration_timer cuts the time
\* left down to milliseconds, so this may be just before the deadline.
TimerExpires ==
    /\ \E deadline \in timer : deadline - 1 <= now
    /\ ReadClockTwice
    /\ state' = CurrentState(sched, state, now)
    /\ StartTimer(sched)
    /\ UNCHANGED <<sched, version, puts>>

\* Time passes.  The event loop may be late.
Tick == /\ now < MaxTime
        /\ now' = now + 1
        /\ UNCHANGED <<sched, state, timer, started, read, version, puts>>

PeriodsNext ==
    \/ \E r \in ScheduleRequest, user \in DistSessionState : Put(r, user)
    \/ TimerExpires
    \/ Tick

PeriodsSpec == PeriodsInit /\ [][PeriodsNext]_periodsVars

-----------------------------------------------------------------------------
(* Properties.                                                             *)

PeriodsTypeOK ==
    /\ now \in Time
    /\ sched.kind \in {"always", "windows", "rule"}
    /\ state \in DistSessionState
    /\ timer \subseteq Nat /\ Cardinality(timer) <= 1
    /\ started = (timer # {})
    /\ read \in [state: Time, timer: Time]
    /\ version \in Nat
    /\ puts \in 0..MaxPuts

\* As long as the timer is not due, the state determined for the distribution
\* sessions is the one the schedule asks for now: at every moment of every
\* schedule, also when a PUT has replaced one schedule by another or the event
\* loop was late.  The only transition that can be missed (until the next one)
\* is one that falls between the two readings of the clock.
NoMissedTransition ==
    \/ \E deadline \in timer : deadline <= now
    \/ state = CurrentState(sched, state, now)
    \/ \E t \in (read.state + 1)..read.timer : state # CurrentState(sched, state, t)

\* What a schedule means: its windows, or the occurrences of its rule (one that
\* starts later than Est after t says nothing of t).
Occurrences(s, t) ==
    IF s.kind = "windows" THEN {<<s.list[i].start, s.list[i].end>> : i \in DOMAIN s.list}
    ELSE {<<s.start + s.rep * k, s.start + s.rep * k + s.dur>> : k \in 0..(t + Est)}

\* ACTIVE inside an occurrence, ESTABLISHED for Est before one, whatever the
\* order of the windows and however occurrences overlap.
Meaning(s, t) ==
    IF \E w \in Occurrences(s, t) : w[1] <= t /\ t < w[2] THEN "ACTIVE"
    ELSE IF \E w \in Occurrences(s, t) : w[1] - Est <= t /\ t < w[1] THEN "ESTABLISHED"
    ELSE "INACTIVE"

\* ActivePeriods::currentState looks at one window only, and
\* ActivePeriodsRepRule::currentState at the place in one interval, and both are right.
StateIsMeant == sched.kind # "always" => CurrentState(sched, state, now) = Meaning(sched, now)
=============================================================================
