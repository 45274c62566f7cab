-------------------------- MODULE AutomationSchedule --------------------------
(***************************************************************************)
(* schedules.py: when a one-time, interval or Cron schedule runs next, and *)
(* which missed instants a late wakeup turns into executions.  The state   *)
(* machine is the life of one enabled task: time passes, and a wakeup, at  *)
(* any lateness, materialises what is due.                                 *)
(*                                                                         *)
(* Abstractions.  An instant is a number of the smallest unit, so that the *)
(* microsecond subtracted before a scan is 1.  A time zone is the map from *)
(* UTC instants to local wall-clock values, with gaps and repetitions; a   *)
(* local value is a day of DayLength minutes and a minute of it.  The      *)
(* compiled Cron fields are the matching days and the matching minutes.    *)
(***************************************************************************)
EXTENDS Integers, Sequences, FiniteSetsExt

CONSTANTS
  Schedules,   \* the schedules to consider
  Policies,    \* the misfire policies to consider
  DayLength,   \* minutes of a day
  SearchDays,  \* days that a Cron search covers (MAX_CRON_SEARCH_YEARS)
  MaxScan,     \* _MAX_MISFIRE_SCAN
  Horizon,     \* bound: the last instant of the zones' maps
  MaxTime      \* bound: the last instant of the clock

\* A clock that is set back repeats local times that were shown before, never
\* ones that it has jumped over: the first showings of local times are in order.
FirstShown(zone, u) == \A v \in 0 .. u - 1 : zone[v] # zone[u]
ShownInOrder(zone) ==
  \A u, v \in 0..Horizon :
    u < v /\ FirstShown(zone, u) /\ FirstShown(zone, v) => zone[u] < zone[v]

\* The horizon lies behind the next run of every interval.  The code refuses a
\* policy with a negative grace, an empty window or nothing to catch up.
ASSUME ScheduleAssumption ==
  /\ DayLength \in Nat \ {0} /\ SearchDays \in Nat /\ MaxScan \in Nat
  /\ Horizon \in Nat /\ MaxTime \in 0..Horizon
  /\ \A s \in Schedules :
       \/ s.kind = "once" /\ s.at \in Nat
       \/ /\ s.kind = "interval" /\ s.start_at \in 0..Horizon
          /\ s.every \in Nat \ {0} /\ MaxTime + s.every <= Horizon
       \/ /\ s.kind = "cron" /\ s.zone \in [0..Horizon -> Nat]
          /\ ShownInOrder(s.zone)
  /\ \A p \in Policies :
       /\ p.mode \in {"skip", "latest", "catch_up"}
       /\ p.grace \in Nat /\ p.catch_up_window \in Nat \ {0} /\ p.max_catch_up \in Nat \ {0}

VARIABLES
  schedule, policy,
  now,
  next_run_at,   \* the persisted wakeup
  last,          \* when the wakeup was last computed
  ran,           \* the instants materialised so far, in order
  failed         \* whether a wakeup raised InvalidScheduleError

vars == <<schedule, policy, now, next_run_at, last, ran, failed>>

NoRun == -1        \* None
Unsupported == -2  \* InvalidScheduleError

-----------------------------------------------------------------------------
\* next_run_after.

\* Fault: an instant of the schedule is taken to follow itself.
IntervalNextInclusive(s, after) ==
  IF after < s.start_at THEN s.start_at
  ELSE s.start_at + Max({1, (after - s.start_at + s.every - 1) \div s.every}) * s.every

IntervalNext(s, after) ==
  IF after < s.start_at THEN s.start_at
  ELSE s.start_at + Max({1, (after - s.start_at) \div s.every + 1}) * s.every

\* The UTC instants with a local value: none in a gap, two in a repetition.
Candidates(zone, local) == {u \in 0..Horizon : zone[u] = local}

Matches(s, local) == local \div DayLength \in s.days /\ local % DayLength \in s.minutes

\* The instant at which a local value runs, if it is still to come.
CronRuns(s, after, local) ==
  LET c == Candidates(s.zone, local)
  IN  IF Matches(s, local) /\ c # {} /\ Min(c) > after THEN Min(c) ELSE NoRun

\* Days, hours and minutes are searched in local order, from the whole local
\* day of `after`.
CronNext(s, after) ==
  LET start_day == s.zone[after] \div DayLength
      found == {l \in start_day * DayLength .. (start_day + SearchDays) * DayLength - 1 :
                  CronRuns(s, after, l) # NoRun}
  IN  IF found = {} THEN Unsupported ELSE CronRuns(s, after, Min(found))

next_run_after(s, after) ==
  CASE s.kind = "once"     -> IF s.at > after THEN s.at ELSE NoRun
    [] s.kind = "interval" -> IntervalNext(s, after)
    [] s.kind = "cron"     -> CronNext(s, after)

-----------------------------------------------------------------------------
\* materialize_schedule, for a wakeup that is due.

\* The due instants after the cursor, or Unsupported after MaxScan candidates.
Scan(s, cursor, time) ==
  LET due[left \in 0..MaxScan] ==
        [after \in Int |->
           LET candidate == next_run_after(s, after)
           IN  IF left = 0 \/ candidate = Unsupported THEN <<Unsupported>>
               ELSE IF candidate = NoRun \/ candidate > time THEN << >>
               ELSE <<candidate>> \o due[left - 1][candidate]]
  IN  due[MaxScan][cursor]

\* Fault: the scan starts after the first due instant.
DueTimesAfter(s, p, first_due, time) ==
  Scan(s, Max({first_due, time - p.catch_up_window}), time)

DueTimes(s, p, first_due, time) ==
  Scan(s, Max({first_due, time - p.catch_up_window}) - 1, time)

\* _latest_interval_due
LatestIntervalDue(s, first_due, time) ==
  first_due + Max({0, (time - first_due) \div s.every}) * s.every

\* The instants to run, in order; Unsupported marks a raised error.
Selected(s, p, first_due, time) ==
  IF p.mode = "skip"
  THEN IF first_due < time - p.grace THEN << >> ELSE <<first_due>>
  ELSE IF p.mode = "latest" /\ s.kind = "interval"
  THEN LET latest == LatestIntervalDue(s, first_due, time)
       IN  IF latest >= time - p.catch_up_window THEN <<latest>> ELSE << >>
  ELSE LET due == DueTimes(s, p, first_due, time)
           n == Len(due)
       IN  IF n > 0 /\ due[n] = Unsupported THEN <<Unsupported>>
           ELSE IF p.mode = "latest" THEN SubSeq(due, Max({1, n}), n)
           ELSE SubSeq(due, 1, Min({n, p.max_catch_up}))

Raises(s, p, first_due, time) ==
  \/ next_run_after(s, time) = Unsupported
  \/ Selected(s, p, first_due, time) = <<Unsupported>>

-----------------------------------------------------------------------------
\* The life of an enabled task.

\* create_task refuses a schedule without a future run.
Init ==
  /\ schedule \in Schedules
  /\ policy \in Policies
  /\ now = 0
  /\ next_run_at = next_run_after(schedule, 0)
  /\ next_run_at \notin {NoRun, Unsupported}
  /\ last = 0
  /\ ran = << >>
  /\ failed = FALSE

Pass ==
  /\ now < MaxTime
  /\ now' = now + 1
  /\ UNCHANGED <<schedule, policy, next_run_at, last, ran, failed>>

Due == next_run_at # NoRun /\ next_run_at <= now

Materialize ==
  /\ Due
  /\ ~Raises(schedule, policy, next_run_at, now)
  /\ ran' = ran \o Selected(schedule, policy, next_run_at, now)
  /\ next_run_at' = next_run_after(schedule, now)
  /\ last' = now
  /\ UNCHANGED <<schedule, policy, now, failed>>

MaterializeRaises ==
  /\ Due
  /\ ~failed
  /\ Raises(schedule, policy, next_run_at, now)
  /\ failed' = TRUE
  /\ UNCHANGED <<schedule, policy, now, next_run_at, last, ran>>

Next == Pass \/ Materialize \/ MaterializeRaises

Spec == Init /\ [][Next]_vars

-----------------------------------------------------------------------------
\* Properties.  The reference: the set of instants at which a schedule runs.

\* A repeated local value runs at its first instant only.
Instants(s) ==
  CASE s.kind = "once"     -> {s.at}
    [] s.kind = "interval" -> {u \in s.start_at .. Horizon : (u - s.start_at) % s.every = 0}
    [] s.kind = "cron"     -> {u \in 0..Horizon :
                                 Matches(s, s.zone[u]) /\ FirstShown(s.zone, u)}

RunsIn(s, from, to) == {u \in Instants(s) : from <= u /\ u <= to}

\* The wakeup is exactly the schedule's first instant after it was computed:
\* none is jumped over, also across a gap or a repetition of local time.
NextRunIsFirst ==
  LET later == {u \in Instants(schedule) : u > last}
  IN  next_run_at = IF later = {} THEN NoRun ELSE Min(later)

\* What a wakeup may still run, and what its policy picks of it.
Missed == RunsIn(schedule, Max({next_run_at, now - policy.catch_up_window}), now)

PolicyRuns(new) ==
  CASE policy.mode = "skip" ->
         new = {u \in {next_run_at} : u >= now - policy.grace}
    [] policy.mode = "latest" ->
         new = {u \in Missed : \A v \in Missed : v <= u}
    [] policy.mode = "catch_up" ->
         /\ new \subseteq Missed
         /\ Cardinality(new) = Min({Cardinality(Missed), policy.max_catch_up})
         /\ \A u \in new, v \in Missed \ new : u < v

\* A wakeup, however late, runs what its misfire policy says of the instants it
\* missed, each once and in order: "skip" the wakeup's own instant unless the
\* grace has passed, "latest" the newest one of the window, whatever shortcut
\* or scan finds it, "catch_up" the oldest ones of the window up to its limit.
LateRuns ==
  [][last' # last =>
       /\ PolicyRuns({ran'[i] : i \in Len(ran) + 1 .. Len(ran')})
       /\ \A i, j \in 1..Len(ran') : i < j => ran'[i] < ran'[j]]_vars

=============================================================================
