------------------------ MODULE AutomationTasksProofs ------------------------
(***************************************************************************)
(* Proofs about AutomationTasks, for any tasks, workers, clients, schedules *)
(* and faults.                                                             *)
(***************************************************************************)
EXTENDS AutomationTasks, WellFoundedInduction, TLAPS

-----------------------------------------------------------------------------
(***************************************************************************)
(* The inductive invariant.                                                *)
(***************************************************************************)

Kinds == {"create", "update", "reschedule", "pause", "enable", "delete"}

Command == [phase: {"write", "sync"}, kind: Kinds, worker: Workers, task: Tasks,
            record: TaskRecord, time: Instant]
Delivery == [phase: {"write", "sync", "retry"}, task: Tasks, record: TaskRecord,
             time: Instant]

TaskTypes ==
  /\ now \in Instant
  /\ task \in [Tasks -> TaskRecord]
  /\ resumed \in [Tasks -> Instant]
  /\ saved \subseteq [kind: Kinds, task: Tasks, record: TaskRecord]
  /\ cmd \in [Clients -> {Idle} \cup Command]

SchedulerTypes ==
  /\ jobs \in [Workers -> [Tasks -> Instant \cup {NoRun}]]
  /\ due \in [Workers -> SUBSET (Instant \X Tasks)]
  /\ callback \in [Workers -> {Idle} \cup Delivery]

\* The wakeup of an enabled record is an instant of its schedule.
Sound(r) == r.status = "enabled" => r.next_run_at \in r.schedule \cup {NoRun}

\* ... and it lies after an instant.
WakesAfter(r, instant) ==
  r.status = "enabled" => r.next_run_at = NoRun \/ r.next_run_at > instant

\* A task wakes up after the time at which it was last enabled.
TaskSound(t) ==
  Sound(task[t]) /\ resumed[t] <= now /\ WakesAfter(task[t], resumed[t])

\* A record that a command is to write was made from the revision that the task
\* has now, or it can no longer be written.
CommandSound(c) ==
  cmd[c].phase = "write" =>
    /\ Sound(cmd[c].record)
    /\ cmd[c].time <= now
    /\ cmd[c].record.revision <= task[cmd[c].task].revision + 1
    /\ Current(c) =>
         WakesAfter(cmd[c].record, IF cmd[c].kind \in {"create", "enable"}
                                   THEN cmd[c].time ELSE resumed[cmd[c].task])

\* A delivery read an enabled task.
DeliverySound(w) ==
  callback[w].phase = "write" =>
    /\ Sound(callback[w].record)
    /\ callback[w].record.status = "enabled"
    /\ callback[w].record.next_run_at # NoRun

TasksInv ==
  /\ TaskTypes
  /\ SchedulerTypes
  /\ \A t \in Tasks : TaskSound(t)
  /\ \A c \in Clients : CommandSound(c)
  /\ \A w \in Workers : DeliverySound(w)

-----------------------------------------------------------------------------
\* The first instant of a schedule.

\* A set of naturals that is not empty has a least element, and Min is it.
LEMMA LeastExists ==
  ASSUME NEW S \in SUBSET Nat, S # {}
  PROVE  Min(S) \in S /\ \A i \in S : Min(S) <= i
  <1> DEFINE R == {p \in Nat \X Nat : p[1] < p[2]}
  <1>1. R = OpToRel(<, Nat)
    BY Zenon DEF OpToRel
  <1>2. IsWellFoundedOn(R, Nat)
    BY <1>1, NatLessThanWellFounded
  <1>3. \A x, y \in Nat : <<y, x>> \in R <=> y < x
    OBVIOUS
  <1> HIDE DEF R
  <1>4. \E x \in S : \A y \in S : ~(<<y, x>> \in R)
    BY <1>2, WFMin
  <1>5. PICK z \in S : \A y \in S : ~(<<y, z>> \in R)
    BY <1>4
  <1>6. \A y \in S : z <= y
    <2> SUFFICES ASSUME NEW y \in S PROVE z <= y
      OBVIOUS
    <2>1. ~(y < z)
      BY <1>3, <1>5, Zenon
    <2> QED
      BY <2>1
  <1> QED
    BY <1>6 DEF Min

\* A bounded set of naturals that is not empty has a greatest element.
LEMMA GreatestExists ==
  ASSUME NEW S \in SUBSET Nat, S # {}, NEW n \in Nat, \A i \in S : i <= n
  PROVE  Max(S) \in S
  <1> DEFINE D == {n - i : i \in S}
  <1>1. D \in SUBSET Nat /\ D # {}
    <2>1. ASSUME NEW i \in S PROVE n - i \in Nat
      OBVIOUS
    <2> QED
      BY <2>1
  <1>2. Min(D) \in D /\ \A d \in D : Min(D) <= d
    BY <1>1, LeastExists
  <1>3. PICK z \in S : Min(D) = n - z
    BY <1>2
  <1>4. \A y \in S : z >= y
    <2> SUFFICES ASSUME NEW y \in S PROVE z >= y
      OBVIOUS
    <2>1. n - y \in D
      OBVIOUS
    <2>2. n - z <= n - y
      BY <1>2, <1>3, <2>1
    <2> QED
      BY <2>2
  <1> QED
    BY <1>4 DEF Max

\* next_run_after returns an instant of the schedule that is yet to come.
LEMMA NextRunAfter ==
  ASSUME NEW s \in Schedules \cup {{}}, NEW after \in Instant
  PROVE  /\ next_run_after(s, after) \in s \cup {NoRun}
         /\ next_run_after(s, after) \in Instant \cup {NoRun}
         /\ next_run_after(s, after) = NoRun \/ next_run_after(s, after) > after
  <1> DEFINE later == {i \in s : i > after}
  <1>1. /\ MaxTime \in Nat
        /\ \A i \in s : i \in Nat /\ i > 0 /\ i < MaxTime
    BY TasksAssumption
  <1>2. later \in SUBSET Nat
    BY <1>1
  <1>3. later # {} => Min(later) \in later
    BY <1>2, LeastExists
  <1>4. next_run_after(s, after) = IF later = {} THEN NoRun ELSE Min(later)
    BY DEF next_run_after
  <1> HIDE DEF later
  <1>5. CASE later = {}
    BY <1>4, <1>5
  <1>6. CASE later # {}
    <2>1. next_run_after(s, after) \in later
      BY <1>3, <1>4, <1>6
    <2> QED
      BY <1>1, <2>1 DEF later, Instant
  <1> QED
    BY <1>5, <1>6

\* What a late wakeup runs is due: not before the wakeup.
LEMMA DueIsMissed ==
  ASSUME NEW r \in TaskRecord, NEW time \in Instant
  PROVE  \A i \in DueAt(r, time) : i \in Nat /\ r.next_run_at <= i
  <1> DEFINE missed == {i \in r.schedule : r.next_run_at <= i /\ i <= time}
  <1>1. /\ MaxTime \in Nat
        /\ \A i \in r.schedule : i \in Nat /\ i > 0 /\ i < MaxTime
    <2>1. r.schedule \in Schedules \cup {{}}
      BY DEF TaskRecord
    <2> QED
      BY <2>1, TasksAssumption
  <1>2. missed \in SUBSET Nat /\ \A i \in missed : i <= time
    BY <1>1
  <1>3. time \in Nat
    BY TasksAssumption DEF Instant
  <1>4. missed # {} => Max(missed) \in missed
    BY <1>2, <1>3, GreatestExists
  <1>5. DueAt(r, time) = IF missed = {} \/ CatchUp THEN missed ELSE {Max(missed)}
    BY DEF DueAt
  <1>6. \A i \in missed : i \in Nat /\ r.next_run_at <= i
    BY <1>2
  <1> HIDE DEF missed
  <1> QED
    BY <1>4, <1>5, <1>6

\* Of the deliveries of a scheduler one is first.
LEMMA FirstIsDue ==
  ASSUME SchedulerTypes, NEW w \in Workers, due[w] # {}
  PROVE  First(w) \in due[w] /\ First(w)[2] \in Tasks
  <1>1. due[w] \subseteq Nat \X Nat /\ due[w] \subseteq Instant \X Tasks
    <2>1. due[w] \subseteq Instant \X Tasks
      BY DEF SchedulerTypes
    <2>2. Instant \subseteq Nat /\ Tasks \subseteq Nat
      BY TasksAssumption DEF Instant
    <2> QED
      BY <2>1, <2>2
  <1> DEFINE times == {d[1] : d \in due[w]}
  <1>2. times \in SUBSET Nat /\ times # {}
    BY <1>1
  <1>3. Min(times) \in times /\ \A i \in times : Min(times) <= i
    BY <1>2, LeastExists
  <1> DEFINE ids == {d[2] : d \in {e \in due[w] : e[1] = Min(times)}}
  <1>4. ids \in SUBSET Nat /\ ids # {}
    BY <1>1, <1>3
  <1>5. Min(ids) \in ids /\ \A i \in ids : Min(ids) <= i
    BY <1>4, LeastExists
  <1>6. PICK d \in due[w] : d[1] = Min(times) /\ d[2] = Min(ids)
    BY <1>5
  <1>7. ASSUME NEW o \in due[w] PROVE d[1] < o[1] \/ (d[1] = o[1] /\ d[2] <= o[2])
    <2>1. d[1] <= o[1] /\ d[1] \in Nat /\ o[1] \in Nat
      BY <1>1, <1>3, <1>6
    <2>2. d[1] = o[1] => d[2] <= o[2]
      BY <1>5, <1>6
    <2> QED
      BY <2>1, <2>2
  <1>8. First(w) \in due[w]
    BY <1>7 DEF First
  <1> QED
    BY <1>1, <1>8

-----------------------------------------------------------------------------
(***************************************************************************)
(* Steps that write no task.                                               *)
(***************************************************************************)

\* An idle client or callback is in no phase of an operation.
LEMMA IdleFields == Idle.phase = "idle" /\ NoRun = -1
  BY DEF Idle, NoRun

\* The records of the task, of a new command and of a new delivery are all
\* that the invariant is about.
LEMMA NothingWritten ==
  ASSUME TasksInv, TaskTypes', SchedulerTypes', now <= now', UNCHANGED <<task, resumed>>,
         \A c \in Clients :
           cmd'[c] = cmd[c] \/ cmd'[c].phase # "write" \/ CommandSound(c)',
         \A w \in Workers :
           callback'[w] = callback[w] \/ callback'[w].phase # "write" \/ DeliverySound(w)'
  PROVE  TasksInv'
  <1>0. now \in Int /\ now' \in Int
    BY DEF TasksInv, TaskTypes, Instant
  <1>1. ASSUME NEW t \in Tasks PROVE TaskSound(t)'
    <2>1. TaskSound(t) /\ resumed[t] \in Int
      BY DEF TasksInv, TaskTypes, Instant
    <2> QED
      BY <1>0, <2>1 DEF TaskSound, Sound, WakesAfter
  <1>2. ASSUME NEW c \in Clients PROVE CommandSound(c)'
    <2>1. CASE cmd'[c] = cmd[c]
      <3>1. CommandSound(c) /\ cmd[c] \in {Idle} \cup Command
        BY DEF TasksInv, TaskTypes
      <3>2. cmd[c].phase = "write" => cmd[c].time \in Int
        BY <3>1, IdleFields DEF Command, Instant
      <3> QED
        BY <1>0, <2>1, <3>1, <3>2 DEF CommandSound, Current, Sound, WakesAfter
    <2>2. CASE cmd'[c].phase # "write"
      BY <2>2 DEF CommandSound
    <2> QED
      BY <2>1, <2>2
  <1>3. ASSUME NEW w \in Workers PROVE DeliverySound(w)'
    BY DEF TasksInv, DeliverySound, Sound
  <1> QED
    BY <1>1, <1>2, <1>3 DEF TasksInv

\* A command that has read the task: its record is made from the revision that
\* the Store has.
LEMMA BeginSafe ==
  ASSUME TasksInv, NEW c \in Clients, NEW w \in Workers, NEW kind \in Kinds,
         NEW t \in Tasks, NEW r \in TaskRecord, Begin(c, w, kind, t, r),
         Sound(r), r.revision <= task[t].revision + 1,
         WakesAfter(r, IF kind \in {"create", "enable"} THEN now ELSE resumed[t])
  PROVE  TasksInv'
  <1> DEFINE new == [phase |-> "write", kind |-> kind, worker |-> w,
                     task |-> t, record |-> r, time |-> now]
  <1>0. /\ cmd \in [Clients -> {Idle} \cup Command] /\ now \in Instant
        /\ TaskTypes /\ SchedulerTypes /\ now \in Int
    BY DEF TasksInv, TaskTypes, Instant
  <1>1. /\ cmd' = [cmd EXCEPT ![c] = new]
        /\ UNCHANGED <<now, task, saved, resumed, jobs, due, callback>>
    BY DEF Begin, store, scheduler
  <1>2. new \in Command
    BY <1>0 DEF Command
  <1>3. new.phase = "write" /\ new.kind = kind /\ new.task = t /\ new.record = r /\ new.time = now
    OBVIOUS
  <1> HIDE DEF new
  <1>4. TaskTypes' /\ SchedulerTypes'
    BY <1>0, <1>1, <1>2 DEF TaskTypes, SchedulerTypes
  <1>5. \A d \in Clients \ {c} : cmd'[d] = cmd[d]
    BY <1>0, <1>1
  <1>6. CommandSound(c)'
    <2>1. cmd'[c] = new
      BY <1>0, <1>1
    <2>2. r.revision \in Int
      BY DEF TaskRecord
    <2> QED
      BY <1>0, <1>1, <1>3, <2>1, <2>2 DEF CommandSound, Current, Sound, WakesAfter
  <1> QED
    BY <1>0, <1>1, <1>4, <1>5, <1>6, NothingWritten

\* The revised record of a task.
LEMMA RevisedFields ==
  ASSUME TasksInv, NEW t \in Tasks
  PROVE  /\ Revised(t) \in TaskRecord
         /\ Revised(t).revision = task[t].revision + 1
         /\ Revised(t).status = task[t].status
         /\ Revised(t).next_run_at = task[t].next_run_at
         /\ Revised(t).schedule = task[t].schedule
         /\ task[t] \in TaskRecord
         /\ now \in Instant /\ resumed[t] \in Instant
         /\ TaskSound(t)
  BY DEF TasksInv, TaskTypes, TaskRecord, Revised

\* What a command puts together from the task that it read.
LEMMA IssueSafe ==
  ASSUME TasksInv, NEW c \in Clients, NEW w \in Workers, NEW t \in Tasks,
         \/ update_task(c, w, t) \/ pause_task(c, w, t)
         \/ enable_task(c, w, t) \/ delete_task(c, w, t)
         \/ \E s \in Schedules : create_task(c, w, t, s) \/ update_schedule(c, w, t, s)
  PROVE  TasksInv'
  <1>0. /\ TaskSound(t) /\ now \in Instant /\ resumed[t] \in Instant
        /\ task[t] \in TaskRecord /\ Revised(t) \in TaskRecord
        /\ task[t].schedule \in Schedules \cup {{}} /\ task[t].revision \in Int
    BY RevisedFields DEF TaskRecord
  <1>1. CASE update_task(c, w, t)
    <2>1. Begin(c, w, "update", t, Revised(t))
      BY <1>1 DEF update_task
    <2>2. Sound(Revised(t)) /\ WakesAfter(Revised(t), resumed[t])
      BY <1>0, RevisedFields DEF TaskSound, Sound, WakesAfter
    <2> QED
      BY <1>0, <2>1, <2>2, RevisedFields, BeginSafe DEF Kinds
  <1>2. CASE pause_task(c, w, t)
    <2> DEFINE r == [Revised(t) EXCEPT !.status = "paused"]
    <2>1. Begin(c, w, "pause", t, r)
      BY <1>2 DEF pause_task
    <2>2. r \in TaskRecord /\ r.status = "paused" /\ r.revision = task[t].revision + 1
      BY RevisedFields DEF TaskRecord
    <2> HIDE DEF r
    <2>3. Sound(r) /\ WakesAfter(r, resumed[t])
      BY <2>2 DEF Sound, WakesAfter
    <2> QED
      BY <1>0, <2>1, <2>2, <2>3, BeginSafe DEF Kinds
  <1>3. CASE delete_task(c, w, t)
    <2> DEFINE r == [Revised(t) EXCEPT !.status = "deleted"]
    <2>1. Begin(c, w, "delete", t, r)
      BY <1>3 DEF delete_task
    <2>2. r \in TaskRecord /\ r.status = "deleted" /\ r.revision = task[t].revision + 1
      BY RevisedFields DEF TaskRecord
    <2> HIDE DEF r
    <2>3. Sound(r) /\ WakesAfter(r, resumed[t])
      BY <2>2 DEF Sound, WakesAfter
    <2> QED
      BY <1>0, <2>1, <2>2, <2>3, BeginSafe DEF Kinds
  <1>4. CASE enable_task(c, w, t)
    <2> DEFINE n == next_run_after(task[t].schedule, now)
    <2>1. Begin(c, w, "enable", t, Enabled(t))
      BY <1>4 DEF enable_task
    <2>2. /\ n \in task[t].schedule \cup {NoRun} /\ n \in Instant \cup {NoRun}
          /\ n = NoRun \/ n > now
      BY <1>0, NextRunAfter
    <2>3. Enabled(t) = [Revised(t) EXCEPT !.status = "enabled", !.next_run_at = n]
      BY DEF Enabled
    <2> HIDE DEF n
    <2>4. /\ Enabled(t) \in TaskRecord /\ Enabled(t).next_run_at = n
          /\ Enabled(t).revision = task[t].revision + 1
          /\ Enabled(t).schedule = task[t].schedule
      BY <2>2, <2>3, RevisedFields DEF TaskRecord
    <2>5. Sound(Enabled(t)) /\ WakesAfter(Enabled(t), now)
      BY <2>2, <2>4 DEF Sound, WakesAfter
    <2> QED
      BY <1>0, <2>1, <2>4, <2>5, BeginSafe DEF Kinds
  <1>5. ASSUME NEW s \in Schedules, create_task(c, w, t, s) PROVE TasksInv'
    <2> DEFINE n == next_run_after(s, now)
               r == [status |-> "enabled", revision |-> 1, next_run_at |-> n, schedule |-> s]
    <2>1. Begin(c, w, "create", t, r) /\ task[t].status = "absent"
      BY <1>5 DEF create_task
    <2>2. /\ n \in s \cup {NoRun} /\ n \in Instant \cup {NoRun}
          /\ n = NoRun \/ n > now
      BY <1>0, NextRunAfter
    <2> HIDE DEF n
    <2>3. /\ r \in TaskRecord /\ r.next_run_at = n /\ r.schedule = s /\ r.revision = 1
      BY <2>2 DEF TaskRecord
    <2> HIDE DEF r
    <2>4. Sound(r) /\ WakesAfter(r, now)
      BY <2>2, <2>3 DEF Sound, WakesAfter
    <2>5. r.revision <= task[t].revision + 1
      BY <1>0, <2>3 DEF TaskRecord
    <2> QED
      BY <2>1, <2>3, <2>4, <2>5, BeginSafe DEF Kinds
  <1>6. ASSUME NEW s \in Schedules, update_schedule(c, w, t, s) PROVE TasksInv'
    <2> DEFINE n == next_run_after(s, now)
               m == IF task[t].status = "enabled" THEN n ELSE task[t].next_run_at
    <2>1. Begin(c, w, "reschedule", t, Rescheduled(t, s))
      BY <1>6 DEF update_schedule
    <2>2. /\ n \in s \cup {NoRun} /\ n \in Instant \cup {NoRun}
          /\ n = NoRun \/ n > now
      BY <1>0, NextRunAfter
    <2>3. Rescheduled(t, s) = [Revised(t) EXCEPT !.schedule = s, !.next_run_at = m]
      BY RevisedFields DEF Rescheduled, TaskRecord
    <2>4. m \in Instant \cup {NoRun} /\ (task[t].status = "enabled" => m = n)
      BY <1>0, <2>2 DEF TaskRecord
    <2> HIDE DEF n, m
    <2>5. /\ Rescheduled(t, s) \in TaskRecord /\ Rescheduled(t, s).next_run_at = m
          /\ Rescheduled(t, s).revision = task[t].revision + 1
          /\ Rescheduled(t, s).schedule = s
          /\ Rescheduled(t, s).status = task[t].status
      BY <2>3, <2>4, RevisedFields DEF TaskRecord
    <2>6. n \in Int /\ now \in Int /\ resumed[t] \in Int /\ resumed[t] <= now
      BY <1>0, <2>2 DEF TaskSound, Instant, NoRun
    <2>7. Sound(Rescheduled(t, s)) /\ WakesAfter(Rescheduled(t, s), resumed[t])
      BY <2>2, <2>4, <2>5, <2>6 DEF Sound, WakesAfter
    <2> QED
      BY <1>0, <2>1, <2>5, <2>7, BeginSafe DEF Kinds
  <1> QED
    BY <1>1, <1>2, <1>3, <1>4, <1>5, <1>6

\* A retried command goes straight to the scheduler; the others end.
LEMMA CommandEndsSafe ==
  ASSUME TasksInv, NEW c \in Clients,
         (\E w \in Workers : Retry(c, w)) \/ Conflict(c) \/ Sync(c)
  PROVE  TasksInv'
  <1>0. /\ cmd \in [Clients -> {Idle} \cup Command] /\ now \in Int
        /\ TaskTypes /\ SchedulerTypes
    BY DEF TasksInv, TaskTypes, Instant
  <1>1. CASE \E w \in Workers : Retry(c, w)
    <2> PICK w \in Workers : Retry(c, w)
      BY <1>1
    <2> PICK m \in saved :
          cmd' = [cmd EXCEPT ![c] = [phase |-> "sync", kind |-> m.kind, worker |-> w,
                                     task |-> m.task, record |-> m.record, time |-> now]]
      BY DEF Retry
    <2> DEFINE new == [phase |-> "sync", kind |-> m.kind, worker |-> w,
                       task |-> m.task, record |-> m.record, time |-> now]
    <2>1. UNCHANGED <<now, task, saved, resumed, jobs, due, callback>>
      BY DEF Retry, store, scheduler
    <2>2. new \in Command /\ new.phase = "sync"
      BY <1>0 DEF TaskTypes, Command
    <2>3. cmd' = [cmd EXCEPT ![c] = new]
      OBVIOUS
    <2> HIDE DEF new
    <2>4. TaskTypes' /\ SchedulerTypes'
      BY <1>0, <2>1, <2>2, <2>3 DEF TaskTypes, SchedulerTypes
    <2>5. \A d \in Clients : cmd'[d] = cmd[d] \/ cmd'[d].phase # "write"
      BY <1>0, <2>2, <2>3
    <2> QED
      BY <1>0, <2>1, <2>4, <2>5, NothingWritten
  <1>2. CASE Conflict(c)
    <2>1. /\ UNCHANGED <<now, task, saved, resumed, jobs, due, callback>>
          /\ cmd' = [cmd EXCEPT ![c] = Idle]
      BY <1>2 DEF Conflict, store, scheduler
    <2>2. TaskTypes' /\ SchedulerTypes'
      BY <1>0, <2>1 DEF TaskTypes, SchedulerTypes
    <2>3. \A d \in Clients : cmd'[d] = cmd[d] \/ cmd'[d].phase # "write"
      BY <1>0, <2>1, IdleFields
    <2> QED
      BY <1>0, <2>1, <2>2, <2>3, NothingWritten
  <1>3. CASE Sync(c)
    <2> DEFINE w == cmd[c].worker
               t == cmd[c].task
    <2>1. /\ UNCHANGED <<now, task, saved, resumed, due, callback>>
          /\ cmd' = [cmd EXCEPT ![c] = Idle]
          /\ jobs' = [jobs EXCEPT ![w][t] = Wakeup(cmd[c].record)]
          /\ cmd[c].phase = "sync"
      BY <1>3 DEF Sync, SyncTask, store
    <2>2. cmd[c] \in Command
      BY <1>0, <2>1, IdleFields
    <2>3. w \in Workers /\ t \in Tasks /\ Wakeup(cmd[c].record) \in Instant \cup {NoRun}
      BY <2>2 DEF Command, TaskRecord, Wakeup
    <2> HIDE DEF w, t
    <2>4. jobs' \in [Workers -> [Tasks -> Instant \cup {NoRun}]]
      BY <1>0, <2>1, <2>3 DEF SchedulerTypes
    <2>5. TaskTypes' /\ SchedulerTypes'
      BY <1>0, <2>1, <2>4 DEF TaskTypes, SchedulerTypes
    <2>6. \A d \in Clients : cmd'[d] = cmd[d] \/ cmd'[d].phase # "write"
      BY <1>0, <2>1, IdleFields
    <2> QED
      BY <1>0, <2>1, <2>5, <2>6, NothingWritten
  <1> QED
    BY <1>1, <1>2, <1>3

\* A loop that fails drops its deliveries.
LEMMA LoopFailsSafe ==
  ASSUME TasksInv, NEW w \in Workers, LoopFails(w)
  PROVE  TasksInv'
  <1>1. /\ UNCHANGED <<now, task, saved, resumed, jobs, cmd>>
        /\ due' = [due EXCEPT ![w] = {}] /\ callback' = [callback EXCEPT ![w] = Idle]
    BY DEF LoopFails, store
  <1>2. TaskTypes' /\ SchedulerTypes' /\ now \in Int
    BY <1>1 DEF TasksInv, TaskTypes, SchedulerTypes, Instant
  <1>3. \A v \in Workers : callback'[v] = callback[v] \/ callback'[v].phase # "write"
    BY <1>1, IdleFields DEF TasksInv, SchedulerTypes
  <1> QED
    BY <1>1, <1>2, <1>3, NothingWritten

\* The due wakeups move from _jobs to the deliveries.
LEMMA DispatchSafe ==
  ASSUME TasksInv, NEW w \in Workers, dispatch_due(w)
  PROVE  TasksInv'
  <1>0. TaskTypes /\ SchedulerTypes /\ now \in Int
    BY DEF TasksInv, TaskTypes, Instant
  <1> DEFINE taken == {<<jobs[w][t], t>> : t \in Ready(w)}
             left == [t \in Tasks |-> IF t \in Ready(w) THEN NoRun ELSE jobs[w][t]]
  <1>1. /\ UNCHANGED <<now, task, saved, resumed, cmd, callback>>
        /\ due' = [due EXCEPT ![w] = taken]
    BY DEF dispatch_due, store
  <1>2. jobs' = [jobs EXCEPT ![w] = left]
    BY <1>0 DEF dispatch_due, SchedulerTypes
  <1>3. taken \in SUBSET (Instant \X Tasks)
    BY <1>0 DEF SchedulerTypes, Ready
  <1>4. left \in [Tasks -> Instant \cup {NoRun}]
    BY <1>0 DEF SchedulerTypes
  <1> HIDE DEF taken, left
  <1>5. TaskTypes' /\ SchedulerTypes'
    BY <1>0, <1>1, <1>2, <1>3, <1>4 DEF TaskTypes, SchedulerTypes
  <1> QED
    BY <1>0, <1>1, <1>5, NothingWritten

\* The callback takes the enabled task that the Store has.
LEMMA CallbackReadSafe ==
  ASSUME TasksInv, NEW w \in Workers, CallbackRead(w)
  PROVE  TasksInv'
  <1> DEFINE t == First(w)[2]
             rest == [due EXCEPT ![w] = @ \ {First(w)}]
  <1>0. TaskTypes /\ SchedulerTypes /\ now \in Instant /\ now \in Int
    BY DEF TasksInv, TaskTypes, Instant
  <1>1. t \in Tasks
    BY <1>0, FirstIsDue DEF CallbackRead
  <1>2. \/ LoopFails(w)
        \/ /\ jobs' = [jobs EXCEPT ![w][t] = NoRun]
           /\ due' = rest
           /\ UNCHANGED <<now, task, saved, resumed, cmd, callback>>
        \/ /\ task[t].status = "enabled" /\ task[t].next_run_at # NoRun
           /\ callback' = [callback EXCEPT ![w] = [phase |-> "write", task |-> t,
                                                   record |-> task[t], time |-> now]]
           /\ due' = rest
           /\ UNCHANGED <<now, task, saved, resumed, cmd, jobs>>
    BY DEF CallbackRead, store
  <1>3. rest \in [Workers -> SUBSET (Instant \X Tasks)]
    BY <1>0 DEF SchedulerTypes
  <1> HIDE DEF t, rest
  <1>4. CASE LoopFails(w)
    BY <1>4, LoopFailsSafe
  <1>5. CASE /\ jobs' = [jobs EXCEPT ![w][t] = NoRun]
             /\ due' = rest
             /\ UNCHANGED <<now, task, saved, resumed, cmd, callback>>
    <2>1. jobs' \in [Workers -> [Tasks -> Instant \cup {NoRun}]]
      BY <1>0, <1>1, <1>5 DEF SchedulerTypes
    <2>2. TaskTypes' /\ SchedulerTypes'
      BY <1>0, <1>3, <1>5, <2>1 DEF TaskTypes, SchedulerTypes
    <2> QED
      BY <1>0, <1>5, <2>2, NothingWritten
  <1>6. CASE /\ task[t].status = "enabled" /\ task[t].next_run_at # NoRun
             /\ callback' = [callback EXCEPT ![w] = [phase |-> "write", task |-> t,
                                                     record |-> task[t], time |-> now]]
             /\ due' = rest
             /\ UNCHANGED <<now, task, saved, resumed, cmd, jobs>>
    <2> DEFINE new == [phase |-> "write", task |-> t, record |-> task[t], time |-> now]
    <2>1. new \in Delivery /\ new.record = task[t]
      BY <1>0, <1>1 DEF TaskTypes, Delivery
    <2>2. callback' = [callback EXCEPT ![w] = new]
      BY <1>6
    <2> HIDE DEF new
    <2>3. TaskTypes' /\ SchedulerTypes'
      BY <1>0, <1>3, <1>6, <2>1, <2>2 DEF TaskTypes, SchedulerTypes
    <2>4. callback'[w] = new /\ \A v \in Workers \ {w} : callback'[v] = callback[v]
      BY <1>0, <2>2 DEF SchedulerTypes
    <2>5. DeliverySound(w)'
      BY <1>1, <1>6, <2>1, <2>4 DEF TasksInv, TaskSound, DeliverySound, Sound
    <2> QED
      BY <1>0, <1>6, <2>3, <2>4, <2>5, NothingWritten
  <1> QED
    BY <1>2, <1>4, <1>5, <1>6

\* The scheduler is told of the task that the Store returned, or of a retry.
LEMMA CallbackSyncSafe ==
  ASSUME TasksInv, NEW w \in Workers, CallbackSync(w)
  PROVE  TasksInv'
  <1> DEFINE t == callback[w].task
             n == IF callback[w].phase = "retry" THEN RetryAt(callback[w].time)
                  ELSE Wakeup(callback[w].record)
  <1>0. TaskTypes /\ SchedulerTypes /\ now \in Int
    BY DEF TasksInv, TaskTypes, Instant
  <1>1. /\ UNCHANGED <<now, task, saved, resumed, cmd, due>>
        /\ jobs' = [jobs EXCEPT ![w][t] = n]
        /\ callback' = [callback EXCEPT ![w] = Idle]
    BY DEF CallbackSync, store
  <1>2. callback[w] \in Delivery
    BY <1>0, IdleFields DEF CallbackSync, SchedulerTypes
  <1>3. RetryAt(callback[w].time) \in Instant
    BY <1>2, TasksAssumption DEF Delivery, RetryAt, Instant
  <1>4. t \in Tasks /\ n \in Instant \cup {NoRun}
    BY <1>2, <1>3 DEF Delivery, TaskRecord, Wakeup
  <1> HIDE DEF t, n
  <1>5. jobs' \in [Workers -> [Tasks -> Instant \cup {NoRun}]]
    BY <1>0, <1>1, <1>4 DEF SchedulerTypes
  <1>6. TaskTypes' /\ SchedulerTypes'
    BY <1>0, <1>1, <1>5 DEF TaskTypes, SchedulerTypes
  <1>7. \A v \in Workers : callback'[v] = callback[v] \/ callback'[v].phase # "write"
    BY <1>0, <1>1, IdleFields DEF SchedulerTypes
  <1> QED
    BY <1>0, <1>1, <1>6, <1>7, NothingWritten

\* The loss of a process, its restart, the queue, and the time.
LEMMA OutsideSafe ==
  ASSUME TasksInv,
         \/ \E w \in Workers : CallbackFails(w) \/ Crash(w) \/ Restart(w)
         \/ \E t \in Tasks : run_task_now(t) \/ Leave(t)
         \/ Tick \/ UNCHANGED vars
  PROVE  TasksInv'
  <1>0. TaskTypes /\ SchedulerTypes /\ now \in Int
    BY DEF TasksInv, TaskTypes, Instant
  <1>1. CASE \E w \in Workers : CallbackFails(w)
    BY <1>1, LoopFailsSafe DEF CallbackFails
  <1>2. CASE \E w \in Workers : Crash(w)
    <2> PICK w \in Workers : Crash(w)
      BY <1>2
    <2>1. /\ UNCHANGED <<now, task, saved, resumed>>
          /\ jobs' = [jobs EXCEPT ![w] = [t \in Tasks |-> NoRun]]
          /\ due' = [due EXCEPT ![w] = {}]
          /\ callback' = [callback EXCEPT ![w] = Idle]
          /\ cmd' = [c \in Clients |->
                       IF cmd[c] # Idle /\ cmd[c].worker = w THEN Idle ELSE cmd[c]]
      BY DEF Crash, store
    <2>2. SchedulerTypes'
      BY <1>0, <2>1 DEF SchedulerTypes
    <2>3. TaskTypes'
      BY <1>0, <2>1 DEF TaskTypes
    <2>4. \A c \in Clients : cmd'[c] = cmd[c] \/ cmd'[c].phase # "write"
      BY <2>1, IdleFields
    <2>5. \A v \in Workers : callback'[v] = callback[v] \/ callback'[v].phase # "write"
      BY <1>0, <2>1, IdleFields DEF SchedulerTypes
    <2> QED
      BY <1>0, <2>1, <2>2, <2>3, <2>4, <2>5, NothingWritten
  <1>3. CASE \E w \in Workers : Restart(w)
    <2> PICK w \in Workers : Restart(w)
      BY <1>3
    <2>1. /\ UNCHANGED <<now, task, saved, resumed, due, callback, cmd>>
          /\ jobs' = [jobs EXCEPT ![w] = [t \in Tasks |-> Wakeup(task[t])]]
      BY DEF Restart, store
    <2>2. \A t \in Tasks : Wakeup(task[t]) \in Instant \cup {NoRun}
      BY <1>0 DEF TaskTypes, TaskRecord, Wakeup
    <2>3. TaskTypes' /\ SchedulerTypes'
      BY <1>0, <2>1, <2>2 DEF TaskTypes, SchedulerTypes
    <2> QED
      BY <1>0, <2>1, <2>3, NothingWritten
  <1>4. CASE Tick
    <2>1. /\ now < MaxTime /\ now' = now + 1
          /\ UNCHANGED <<task, saved, resumed, jobs, due, callback, cmd>>
      BY <1>4 DEF Tick, store, scheduler
    <2>2. now' \in Instant /\ now <= now'
      BY <1>0, <2>1, TasksAssumption DEF TaskTypes, Instant
    <2>3. TaskTypes' /\ SchedulerTypes'
      BY <1>0, <2>1, <2>2 DEF TaskTypes, SchedulerTypes
    <2> QED
      BY <2>1, <2>2, <2>3, NothingWritten
  <1>5. CASE (\E t \in Tasks : run_task_now(t) \/ Leave(t)) \/ UNCHANGED vars
    <2>1. UNCHANGED <<now, task, saved, resumed, jobs, due, callback, cmd>>
      BY <1>5 DEF run_task_now, Leave, vars, store, scheduler
    <2>2. TaskTypes' /\ SchedulerTypes'
      BY <1>0, <2>1 DEF TaskTypes, SchedulerTypes
    <2> QED
      BY <1>0, <2>1, <2>2, NothingWritten
  <1> QED
    BY <1>1, <1>2, <1>3, <1>4, <1>5

-----------------------------------------------------------------------------
(***************************************************************************)
(* Steps that write a task.                                                *)
(***************************************************************************)

\* Only one task is written.  A record that some command has made for it stays
\* sound, because the written record either keeps the revision and the period,
\* or has a new revision, which the command did not read.
LEMMA OneTaskWritten ==
  ASSUME TasksInv, TaskTypes', SchedulerTypes', now' = now, NEW t \in Tasks,
         \A u \in Tasks \ {t} : task'[u] = task[u] /\ resumed'[u] = resumed[u],
         TaskSound(t)',
         \/ task'[t].revision = task[t].revision /\ resumed'[t] = resumed[t]
         \/ task'[t].revision = task[t].revision + 1,
         \A c \in Clients : cmd'[c] = cmd[c] \/ cmd'[c].phase # "write",
         \A w \in Workers : callback'[w] = callback[w] \/ callback'[w].phase # "write"
  PROVE  TasksInv'
  <1>1. ASSUME NEW u \in Tasks PROVE TaskSound(u)'
    BY DEF TasksInv, TaskSound, Sound, WakesAfter
  <1>2. ASSUME NEW c \in Clients PROVE CommandSound(c)'
    <2>1. CASE cmd'[c].phase # "write"
      BY <2>1 DEF CommandSound
    <2>2. CASE cmd'[c] = cmd[c] /\ cmd[c].phase = "write"
      <3>1. cmd[c] \in Command /\ CommandSound(c)
        BY <2>2, IdleFields DEF TasksInv, TaskTypes
      <3>2. /\ cmd[c].task \in Tasks /\ cmd[c].record.revision \in Int
            /\ \A u \in Tasks : task[u].revision \in Int
        BY <3>1 DEF Command, TaskRecord, TasksInv, TaskTypes
      <3>3. CASE cmd[c].task # t
        BY <2>2, <3>1, <3>2, <3>3 DEF CommandSound, Current, Sound, WakesAfter
      <3>4. CASE cmd[c].task = t /\ task'[t].revision = task[t].revision
                                 /\ resumed'[t] = resumed[t]
        BY <2>2, <3>1, <3>2, <3>4 DEF CommandSound, Current, Sound, WakesAfter
      <3>5. CASE cmd[c].task = t /\ task'[t].revision = task[t].revision + 1
        <4>1. cmd[c].record.revision <= task[t].revision + 1
          BY <2>2, <3>1, <3>5 DEF CommandSound
        <4>2. ~Current(c)' /\ cmd[c].record.revision <= task'[t].revision + 1
          BY <2>2, <3>2, <3>5, <4>1 DEF Current
        <4> QED
          BY <2>2, <3>1, <3>5, <4>2 DEF CommandSound, Sound
      <3> QED
        BY <3>3, <3>4, <3>5
    <2> QED
      BY <2>1, <2>2
  <1>3. ASSUME NEW w \in Workers PROVE DeliverySound(w)'
    BY DEF TasksInv, DeliverySound, Sound
  <1> QED
    BY <1>1, <1>2, <1>3 DEF TasksInv

\* The Store accepts the record of a command that read its revision.
LEMMA CommitSafe ==
  ASSUME TasksInv, NEW c \in Clients, Commit(c)
  PROVE  TasksInv'
  <1> DEFINE fresh == cmd[c].kind \in {"create", "enable"}
  <1>0. TaskTypes /\ SchedulerTypes /\ now \in Int
    BY DEF TasksInv, TaskTypes, Instant
  <1>1. cmd[c] \in Command /\ CommandSound(c)
    BY <1>0, IdleFields DEF TasksInv, TaskTypes, Commit
  <1> PICK t \in Tasks, r \in TaskRecord : t = cmd[c].task /\ r = cmd[c].record
    BY <1>1 DEF Command
  <1>2. /\ cmd[c].phase = "write" /\ Current(c)
        /\ task' = [task EXCEPT ![t] = r]
        /\ resumed' = IF fresh THEN [resumed EXCEPT ![t] = cmd[c].time] ELSE resumed
        /\ saved' = IF RequestIds
                    THEN saved \cup {[kind |-> cmd[c].kind, task |-> t, record |-> r]} ELSE saved
        /\ cmd' = [cmd EXCEPT ![c].phase = "sync"]
        /\ UNCHANGED <<now, jobs, due, callback>>
    BY DEF Commit, scheduler
  <1>3. cmd[c].time \in Instant /\ cmd[c].kind \in Kinds
    BY <1>1 DEF Command
  <1>4. /\ Sound(r) /\ cmd[c].time <= now
        /\ WakesAfter(r, IF fresh THEN cmd[c].time ELSE resumed[t])
        /\ r.revision = task[t].revision + 1
    BY <1>2, <1>1 DEF CommandSound, Current
  <1>5. cmd' \in [Clients -> {Idle} \cup Command]
    <2>1. [cmd[c] EXCEPT !.phase = "sync"] \in Command
      BY <1>1 DEF Command
    <2>2. cmd' = [cmd EXCEPT ![c] = [cmd[c] EXCEPT !.phase = "sync"]]
      BY <1>2
    <2> QED
      BY <1>0, <2>1, <2>2 DEF TaskTypes
  <1>6. \A d \in Clients : cmd'[d] = cmd[d] \/ cmd'[d].phase # "write"
    BY <1>0, <1>2, <1>1 DEF TaskTypes, Command
  <1>7. saved' \subseteq [kind: Kinds, task: Tasks, record: TaskRecord]
    BY <1>0, <1>2, <1>3 DEF TaskTypes
  <1> HIDE DEF fresh
  <1>8. TaskTypes' /\ SchedulerTypes'
    BY <1>0, <1>2, <1>3, <1>5, <1>7 DEF TaskTypes, SchedulerTypes
  <1>9. /\ task'[t] = r
        /\ resumed'[t] = IF fresh THEN cmd[c].time ELSE resumed[t]
        /\ \A u \in Tasks \ {t} : task'[u] = task[u] /\ resumed'[u] = resumed[u]
    BY <1>0, <1>2, <1>3 DEF TaskTypes
  <1>10. TaskSound(t)'
    <2>1. TaskSound(t)
      BY <1>3 DEF TasksInv
    <2> QED
      BY <1>2, <1>4, <1>9, <2>1 DEF TaskSound, Sound, WakesAfter
  <1> QED
    BY <1>2, <1>3, <1>4, <1>6, <1>8, <1>9, <1>10, OneTaskWritten

\* What the callback does with a task that it has read: nothing if the task is
\* no longer as it was, and otherwise it moves the wakeup on.
LEMMA CallbackWriteShape ==
  ASSUME TasksInv, NEW w \in Workers, CallbackWrite(w)
  PROVE  LET t == callback[w].task
             r == callback[w].record
             time == callback[w].time
         IN  /\ callback[w] \in Delivery
             /\ DeliverySound(w) /\ callback[w].phase = "write"
             /\ \/ LoopFails(w)
                \/ /\ \E phase \in {"sync", "retry"}, record \in TaskRecord :
                        callback' = [callback EXCEPT ![w].phase = phase, ![w].record = record]
                   /\ UNCHANGED <<now, store, jobs, due, cmd>>
                \/ /\ materialization_is_current(r, task[t])
                   /\ task' = [task EXCEPT ![t] = Advanced(r, time)]
                   /\ occurrences' = occurrences \cup Pending(t, r, time)
                   /\ callback' = [callback EXCEPT ![w].phase = "sync",
                                                   ![w].record = Advanced(r, time)]
                   /\ UNCHANGED <<now, saved, resumed, jobs, due, cmd>>
  <1> DEFINE t == callback[w].task
             r == callback[w].record
             time == callback[w].time
  <1>1. callback[w] \in Delivery /\ callback[w].phase = "write" /\ DeliverySound(w)
    BY IdleFields DEF CallbackWrite, TasksInv, SchedulerTypes
  <1>2. r \in TaskRecord /\ task[t] \in TaskRecord
    BY <1>1 DEF Delivery, TasksInv, TaskTypes
  <1>3. \/ LoopFails(w)
        \/ /\ \/ callback' = [callback EXCEPT ![w].phase = "sync", ![w].record = task[t]]
              \/ callback' = [callback EXCEPT ![w].phase = "retry", ![w].record = r]
           /\ UNCHANGED <<now, store, jobs, due, cmd>>
        \/ /\ materialization_is_current(r, task[t])
           /\ task' = [task EXCEPT ![t] = Advanced(r, time)]
           /\ occurrences' = occurrences \cup Pending(t, r, time)
           /\ callback' = [callback EXCEPT ![w].phase = "sync",
                                           ![w].record = Advanced(r, time)]
           /\ UNCHANGED <<now, saved, resumed, jobs, due, cmd>>
    BY DEF CallbackWrite
  <1> QED
    BY <1>1, <1>2, <1>3

\* The wakeup moves on within the schedule, and never back behind the time at
\* which the task was enabled.
LEMMA AdvancedSound ==
  ASSUME TasksInv, NEW t \in Tasks, NEW r \in TaskRecord, NEW time \in Instant,
         Sound(r), r.next_run_at # NoRun, materialization_is_current(r, task[t])
  PROVE  /\ Advanced(r, time) \in TaskRecord
         /\ Advanced(r, time).revision = task[t].revision
         /\ Sound(Advanced(r, time))
         /\ WakesAfter(Advanced(r, time), resumed[t])
         /\ r.status = "enabled" => r.next_run_at > resumed[t]
  <1> DEFINE n == IF r.next_run_at > time THEN r.next_run_at
                  ELSE next_run_after(r.schedule, time)
             a == Advanced(r, time)
  <1>1. r.schedule \in Schedules \cup {{}} /\ r.next_run_at \in Instant \cup {NoRun}
    BY DEF TaskRecord
  <1>2. /\ next_run_after(r.schedule, time) \in r.schedule \cup {NoRun}
        /\ next_run_after(r.schedule, time) \in Instant \cup {NoRun}
        /\ next_run_after(r.schedule, time) = NoRun \/ next_run_after(r.schedule, time) > time
    BY <1>1, NextRunAfter
  <1>3. a = [r EXCEPT !.next_run_at = n]
    BY DEF Advanced, TaskRecord
  <1>4. /\ n \in Instant \cup {NoRun}
        /\ n = r.next_run_at \/ n \in r.schedule \cup {NoRun}
        /\ n = r.next_run_at \/ (r.next_run_at <= time /\ (n = NoRun \/ n > time))
    BY <1>1, <1>2 DEF Instant, NoRun
  <1> HIDE DEF n
  <1>5. /\ a \in TaskRecord /\ a.revision = r.revision /\ a.status = r.status
        /\ a.schedule = r.schedule /\ a.next_run_at = n
    BY <1>3, <1>4 DEF TaskRecord
  <1> HIDE DEF a
  <1>6. /\ task[t].status = "enabled" /\ task[t].next_run_at = r.next_run_at
        /\ task[t].revision = r.revision
    BY DEF materialization_is_current
  <1>7. /\ time \in Int /\ n \in Int /\ r.next_run_at \in Int /\ resumed[t] \in Int
        /\ r.next_run_at > resumed[t]
    BY <1>1, <1>4, <1>6 DEF TasksInv, TaskTypes, TaskSound, WakesAfter, Instant, NoRun
  <1>8. Sound(a)
    BY <1>4, <1>5 DEF Sound
  <1>9. WakesAfter(a, resumed[t])
    BY <1>4, <1>5, <1>7 DEF WakesAfter
  <1> QED
    BY <1>5, <1>6, <1>7, <1>8, <1>9 DEF a

\* The materialisation of a task preserves the invariant.
LEMMA CallbackWriteSafe ==
  ASSUME TasksInv, NEW w \in Workers, CallbackWrite(w)
  PROVE  TasksInv'
  <1>0. TaskTypes /\ SchedulerTypes /\ now \in Int
    BY DEF TasksInv, TaskTypes, Instant
  <1>1. callback[w] \in Delivery /\ DeliverySound(w) /\ callback[w].phase = "write"
    BY CallbackWriteShape
  <1> PICK t \in Tasks, r \in TaskRecord, time \in Instant :
        t = callback[w].task /\ r = callback[w].record /\ time = callback[w].time
    BY <1>1 DEF Delivery
  <1>2. Sound(r) /\ r.next_run_at # NoRun
    BY <1>1 DEF DeliverySound
  <1> DEFINE a == Advanced(r, time)
  <1>3. ASSUME NEW phase \in {"sync", "retry"}, NEW record \in TaskRecord,
               callback' = [callback EXCEPT ![w].phase = phase, ![w].record = record]
        PROVE  /\ callback' \in [Workers -> {Idle} \cup Delivery]
               /\ \A v \in Workers : callback'[v] = callback[v] \/ callback'[v].phase # "write"
    <2> DEFINE new == [callback[w] EXCEPT !.phase = phase, !.record = record]
    <2>1. new \in Delivery /\ new.phase = phase
      BY <1>1 DEF Delivery
    <2>2. callback' = [callback EXCEPT ![w] = new]
      BY <1>0, <1>1, <1>3 DEF SchedulerTypes, Delivery
    <2> HIDE DEF new
    <2> QED
      BY <1>0, <2>1, <2>2 DEF SchedulerTypes
  <1>4. CASE LoopFails(w)
    BY <1>4, LoopFailsSafe
  <1>5. CASE /\ \E phase \in {"sync", "retry"}, record \in TaskRecord :
                  callback' = [callback EXCEPT ![w].phase = phase, ![w].record = record]
             /\ UNCHANGED <<now, store, jobs, due, cmd>>
    <2>1. TaskTypes' /\ SchedulerTypes'
      BY <1>0, <1>3, <1>5 DEF TaskTypes, SchedulerTypes, store
    <2>2. UNCHANGED <<now, task, resumed, cmd>>
      BY <1>5 DEF store
    <2>3. \A v \in Workers : callback'[v] = callback[v] \/ callback'[v].phase # "write"
      BY <1>3, <1>5
    <2> QED
      BY <1>0, <2>1, <2>2, <2>3, NothingWritten
  <1>6. CASE /\ materialization_is_current(r, task[t])
             /\ task' = [task EXCEPT ![t] = a]
             /\ callback' = [callback EXCEPT ![w].phase = "sync", ![w].record = a]
             /\ UNCHANGED <<now, saved, resumed, jobs, due, cmd>>
    <2>1. /\ a \in TaskRecord /\ a.revision = task[t].revision
          /\ Sound(a) /\ WakesAfter(a, resumed[t])
      BY <1>2, <1>6, AdvancedSound
    <2>2. /\ callback' \in [Workers -> {Idle} \cup Delivery]
          /\ \A v \in Workers : callback'[v] = callback[v] \/ callback'[v].phase # "write"
      BY <1>3, <1>6, <2>1
    <2> HIDE DEF a
    <2>3. TaskTypes' /\ SchedulerTypes'
      BY <1>0, <1>2, <1>6, <2>1, <2>2 DEF TaskTypes, SchedulerTypes
    <2>4. /\ task'[t] = a /\ resumed' = resumed
          /\ \A u \in Tasks \ {t} : task'[u] = task[u]
      BY <1>0, <1>2, <1>6 DEF TaskTypes
    <2>5. TaskSound(t)'
      BY <1>2, <1>6, <2>1, <2>4 DEF TasksInv, TaskSound, Sound, WakesAfter
    <2> QED
      BY <1>2, <1>6, <2>1, <2>2, <2>3, <2>4, <2>5, OneTaskWritten
  <1> QED
    BY <1>4, <1>5, <1>6, CallbackWriteShape

-----------------------------------------------------------------------------
(***************************************************************************)
(* The theorems.                                                           *)
(***************************************************************************)

\* No task exists and nobody waits.
LEMMA InitTasks ==
  ASSUME Init PROVE TasksInv
  <1>1. 0 \in Instant
    BY TasksAssumption DEF Instant
  <1>2. TaskTypes
    BY <1>1 DEF Init, TaskTypes, TaskRecord
  <1>3. SchedulerTypes
    BY DEF Init, SchedulerTypes
  <1>4. \A t \in Tasks : TaskSound(t)
    BY DEF Init, TaskSound, Sound, WakesAfter
  <1>5. \A c \in Clients : CommandSound(c)
    BY IdleFields DEF Init, CommandSound
  <1>6. \A w \in Workers : DeliverySound(w)
    BY IdleFields DEF Init, DeliverySound
  <1> QED
    BY <1>2, <1>3, <1>4, <1>5, <1>6 DEF TasksInv

\* Every step preserves the invariant.
LEMMA StepTasks ==
  ASSUME TasksInv, [Next]_vars PROVE TasksInv'
  <1>1. CASE \E c \in Clients, w \in Workers : Issue(c, w)
    BY <1>1, IssueSafe, CommandEndsSafe DEF Issue
  <1>2. CASE \E c \in Clients : Commit(c) \/ Conflict(c) \/ Sync(c)
    BY <1>2, CommitSafe, CommandEndsSafe
  <1>3. CASE \E w \in Workers : SchedulerStep(w)
    BY <1>3, DispatchSafe, CallbackReadSafe, CallbackWriteSafe, CallbackSyncSafe
       DEF SchedulerStep
  <1> QED
    BY <1>1, <1>2, <1>3, OutsideSafe DEF Next

\* The inductive invariant holds in every state.
THEOREM TasksInvariant == Spec => []TasksInv
  BY InitTasks, StepTasks, PTL DEF Spec

\* The wakeup of an enabled task is an instant of the schedule that it has now,
\* whatever commands and late deliveries overlapped.
THEOREM WakeupInSchedule == Spec => []NextRunInSchedule
  <1>1. TasksInv => NextRunInSchedule
    BY DEF TasksInv, TaskSound, Sound, NextRunInSchedule
  <1> QED
    BY <1>1, TasksInvariant, PTL

\* Only a delivery of the callback that finds the task as it read it creates
\* occurrences.
LEMMA OccurrencesFromCallback ==
  ASSUME TasksInv, [Next]_vars, NEW o \in occurrences' \ occurrences
  PROVE  \E w \in Workers :
           /\ CallbackWrite(w)
           /\ materialization_is_current(callback[w].record, task[callback[w].task])
           /\ o \in Pending(callback[w].task, callback[w].record, callback[w].time)
  <1>1. CASE \E w \in Workers : CallbackWrite(w)
    <2> PICK w \in Workers : CallbackWrite(w)
      BY <1>1
    <2>1. ~LoopFails(w) /\ ~UNCHANGED store
      BY DEF LoopFails, store
    <2> QED
      BY <2>1, CallbackWriteShape
  <1>2. CASE ~\E w \in Workers : CallbackWrite(w)
    <2>1. occurrences' = occurrences
      BY <1>2 DEF Next, Issue, SchedulerStep, update_task, pause_task, enable_task,
           delete_task, create_task, update_schedule, Begin, Retry, Commit, Conflict, Sync,
           dispatch_due, CallbackRead, CallbackSync, CallbackFails, LoopFails, Crash,
           Restart, run_task_now, Leave, Tick, store, vars
    <2> QED
      BY <2>1
  <1> QED
    BY <1>1, <1>2

\* Executions come from the enabled revision that the Store has: a callback
\* that read the task before it was paused, changed or deleted creates nothing.
THEOREM StaleWakeupsAreRefused == Spec => StaleWakeupCreatesNothing
  <1>1. ASSUME TasksInv, [Next]_vars
        PROVE  \A o \in occurrences' \ occurrences :
                 task[o.task].status = "enabled" /\ task[o.task].revision = o.revision
    <2> SUFFICES ASSUME NEW o \in occurrences' \ occurrences
                 PROVE  task[o.task].status = "enabled" /\ task[o.task].revision = o.revision
      OBVIOUS
    <2>1. PICK w \in Workers :
            /\ materialization_is_current(callback[w].record, task[callback[w].task])
            /\ o \in Pending(callback[w].task, callback[w].record, callback[w].time)
      BY <1>1, OccurrencesFromCallback
    <2>2. o.task = callback[w].task /\ o.revision = callback[w].record.revision
      BY <2>1 DEF Pending
    <2> QED
      BY <2>1, <2>2 DEF materialization_is_current
  <1> QED
    BY <1>1, TasksInvariant, PTL DEF Spec, StaleWakeupCreatesNothing

\* An instant that passed before the task was created or enabled is never run:
\* the wakeup of an enabled task lies after that time, and a delivery runs
\* nothing before the wakeup.
THEOREM PauseIsNotCaughtUp == Spec => NoPausedCatchUp
  <1>1. ASSUME TasksInv, [Next]_vars
        PROVE  \A o \in occurrences' \ occurrences : o.at > resumed[o.task]
    <2> SUFFICES ASSUME NEW o \in occurrences' \ occurrences
                 PROVE  o.at > resumed[o.task]
      OBVIOUS
    <2>1. PICK w \in Workers :
            /\ CallbackWrite(w)
            /\ materialization_is_current(callback[w].record, task[callback[w].task])
            /\ o \in Pending(callback[w].task, callback[w].record, callback[w].time)
      BY <1>1, OccurrencesFromCallback
    <2> DEFINE t == callback[w].task
               r == callback[w].record
               time == callback[w].time
    <2>2. callback[w] \in Delivery /\ DeliverySound(w) /\ callback[w].phase = "write"
      BY <1>1, <2>1, CallbackWriteShape
    <2>3. /\ t \in Tasks /\ r \in TaskRecord /\ time \in Instant
          /\ Sound(r) /\ r.next_run_at # NoRun /\ r.status = "enabled"
      BY <2>2 DEF Delivery, DeliverySound
    <2>4. r.next_run_at > resumed[t]
      BY <1>1, <2>1, <2>3, AdvancedSound
    <2>5. o.task = t /\ o.at \in DueAt(r, time)
      BY <2>1 DEF Pending
    <2>6. o.at \in Int /\ r.next_run_at <= o.at
      BY <2>3, <2>5, DueIsMissed
    <2>7. resumed[t] \in Int /\ r.next_run_at \in Int
      BY <1>1, <2>3 DEF TasksInv, TaskTypes, TaskRecord, Instant, NoRun
    <2> QED
      BY <2>4, <2>5, <2>6, <2>7
  <1> QED
    BY <1>1, TasksInvariant, PTL DEF Spec, NoPausedCatchUp

=============================================================================
