---------------------------- MODULE AutomationTasks ----------------------------
(***************************************************************************)
(* Task definitions and their wakeups: AutomationService's task commands,  *)
(* the task half of the Automation Store, one MemoryScheduler in each      *)
(* worker process, and the callback that turns a due wakeup into queued    *)
(* executions.  A command reads the task, writes it in one Store           *)
(* transaction and then tells its own process's scheduler; the callback    *)
(* does the same.  Nothing ties the three steps together, so every         *)
(* interleaving of them is a behaviour.                                    *)
(*                                                                         *)
(* Abstractions.  A schedule is the set of its instants; that              *)
(* next_run_after and materialize_schedule pick from that set what is said *)
(* here is checked in AutomationSchedule.  A task's name, target, input    *)
(* and limits change together, as its revision.  Of the executions only    *)
(* the number in the queue is kept: what becomes of them is                *)
(* AutomationStore.  The scheduler's clock is the Store's.                 *)
(***************************************************************************)
EXTENDS Integers, FiniteSetsExt

CONSTANTS
  Tasks,          \* task ids that may ever be created, numbers
  Workers,        \* processes, each with a Service and a scheduler
  Clients,        \* callers of the Services
  Schedules,      \* sets of instants
  Commands,       \* the commands that clients issue
  RequestIds,     \* whether commands carry a request_id and may be retried
  CatchUp,        \* misfire mode: catch_up, or else latest
  MaxQueuedRuns,
  RetryDelay,     \* the minute after which a full queue is tried again
  MaxTime,        \* bound: the last instant, which stands for all later ones
  MaxCommands,    \* bound: commands issued
  FaultKinds,     \* the faults that happen: "crash", "store"
  MaxFaults       \* bound: process losses and failed Store calls

ASSUME TasksAssumption ==
  /\ Tasks \subseteq Nat
  /\ \A s \in Schedules : s # {} /\ s \subseteq 1 .. MaxTime - 1
  /\ {RequestIds, CatchUp} \subseteq BOOLEAN
  /\ {MaxQueuedRuns, RetryDelay, MaxTime, MaxCommands, MaxFaults} \subseteq Nat

VARIABLES
  now,
  task,         \* task records, absent and deleted ones included
  occurrences,  \* occurrence keys persisted so far
  queue,        \* executions of each task in status queued
  saved,        \* results that are kept for their request_id
  jobs,         \* _jobs of each scheduler
  loop,         \* each scheduler's loop: up, failed, or down with its process
  due,          \* wakeups taken from _jobs and not yet delivered
  callback,     \* the delivery in progress
  cmd,          \* the command each client waits for
  resumed,      \* ghost: the time enable_task read for the current period
  commands, faults

store == <<task, occurrences, queue, saved, resumed>>
scheduler == <<jobs, loop, due, callback>>
vars == <<now, store, scheduler, cmd, commands, faults>>

NoRun == -1
Idle == [phase |-> "idle"]
Instant == 0 .. MaxTime

TaskRecord == [status: {"absent", "enabled", "paused", "deleted"}, revision: Nat,
               next_run_at: Instant \cup {NoRun}, schedule: Schedules \cup {{}}]

Init ==
  /\ now = 0
  /\ task = [t \in Tasks |-> [status |-> "absent", revision |-> 0,
                              next_run_at |-> NoRun, schedule |-> {}]]
  /\ occurrences = {}
  /\ queue = [t \in Tasks |-> 0]
  /\ saved = {}
  /\ jobs = [w \in Workers |-> [t \in Tasks |-> NoRun]]
  /\ loop = [w \in Workers |-> "up"]
  /\ due = [w \in Workers |-> {}]
  /\ callback = [w \in Workers |-> Idle]
  /\ cmd = [c \in Clients |-> Idle]
  /\ resumed = [t \in Tasks |-> 0]
  /\ commands = 0
  /\ faults = 0

Exists(t) == task[t].status \in {"enabled", "paused"}

-----------------------------------------------------------------------------
\* Schedules.

next_run_after(schedule, after) ==
  LET later == {i \in schedule : i > after} IN IF later = {} THEN NoRun ELSE Min(later)

\* The missed instants that a late wakeup still runs.
DueAt(record, time) ==
  LET missed == {i \in record.schedule : record.next_run_at <= i /\ i <= time}
  IN  IF missed = {} \/ CatchUp THEN missed ELSE {Max(missed)}

-----------------------------------------------------------------------------
\* Commands of a client c, through the Service of worker w.

\* The command has read the task and the time, and made its replacement.
Begin(c, w, kind, t, record) ==
  /\ kind \in Commands
  /\ commands < MaxCommands
  /\ loop[w] # "down"
  /\ cmd[c] = Idle
  /\ cmd' = [cmd EXCEPT ![c] = [phase |-> "write", kind |-> kind, worker |-> w,
                                task |-> t, record |-> record, time |-> now]]
  /\ commands' = commands + 1
  /\ UNCHANGED <<now, store, scheduler, faults>>

Revised(t) == [task[t] EXCEPT !.revision = @ + 1]

create_task(c, w, t, s) ==
  /\ task[t].status = "absent"
  /\ \A d \in Clients : cmd[d] # Idle => cmd[d].task # t
  /\ next_run_after(s, now) # NoRun
  /\ Begin(c, w, "create", t, [status |-> "enabled", revision |-> 1,
                               next_run_at |-> next_run_after(s, now), schedule |-> s])

\* update_task without a new schedule.
update_task(c, w, t) ==
  /\ Exists(t)
  /\ Begin(c, w, "update", t, Revised(t))

\* Fault: the new schedule is saved with the old wakeup.
RescheduledKeeping(t, s) == [Revised(t) EXCEPT !.schedule = s]

\* The wakeup of a paused task is left to enable_task.
Rescheduled(t, s) ==
  [Revised(t) EXCEPT !.schedule = s,
                     !.next_run_at = IF task[t].status = "enabled"
                                     THEN next_run_after(s, now) ELSE @]

\* update_task with a new schedule.
update_schedule(c, w, t, s) ==
  /\ Exists(t)
  /\ task[t].status = "enabled" => next_run_after(s, now) # NoRun
  /\ Begin(c, w, "reschedule", t, Rescheduled(t, s))

pause_task(c, w, t) ==
  /\ Exists(t)
  /\ Begin(c, w, "pause", t, [Revised(t) EXCEPT !.status = "paused"])

\* Fault: the task goes on where it was paused.
EnabledAgain(t) == [Revised(t) EXCEPT !.status = "enabled"]

Enabled(t) ==
  [Revised(t) EXCEPT !.status = "enabled",
                     !.next_run_at = next_run_after(task[t].schedule, now)]

enable_task(c, w, t) ==
  /\ Exists(t)
  /\ next_run_after(task[t].schedule, now) # NoRun
  /\ Begin(c, w, "enable", t, Enabled(t))

delete_task(c, w, t) ==
  /\ Exists(t)
  /\ Begin(c, w, "delete", t, [Revised(t) EXCEPT !.status = "deleted"])

\* An additional execution, which only takes room in the queue.
run_task_now(t) ==
  /\ "run_now" \in Commands
  /\ commands < MaxCommands
  /\ Exists(t)
  /\ queue[t] + 1 <= MaxQueuedRuns
  /\ queue' = [queue EXCEPT ![t] = @ + 1]
  /\ commands' = commands + 1
  /\ UNCHANGED <<now, task, occurrences, saved, resumed, scheduler, cmd, faults>>

\* The Store checks the revision that the client expects, writes the record and
\* keeps it for its request_id.
Current(c) == cmd[c].record.revision = task[cmd[c].task].revision + 1

Commit(c) ==
  /\ cmd[c].phase = "write"
  /\ Current(c)
  /\ cmd[c].kind = "create" \/ Exists(cmd[c].task)
  /\ LET t == cmd[c].task
         r == cmd[c].record
     IN  /\ task' = [task EXCEPT ![t] = r]
         /\ queue' = IF cmd[c].kind = "delete" THEN [queue EXCEPT ![t] = 0] ELSE queue
         /\ resumed' = IF cmd[c].kind \in {"create", "enable"}
                       THEN [resumed EXCEPT ![t] = cmd[c].time] ELSE resumed
         /\ saved' = IF RequestIds
                     THEN saved \cup {[kind |-> cmd[c].kind, task |-> t, record |-> r]} ELSE saved
  /\ cmd' = [cmd EXCEPT ![c].phase = "sync"]
  /\ UNCHANGED <<now, occurrences, scheduler, commands, faults>>

Conflict(c) ==
  /\ cmd[c].phase = "write"
  /\ ~(Current(c) /\ (cmd[c].kind = "create" \/ Exists(cmd[c].task)))
  /\ cmd' = [cmd EXCEPT ![c] = Idle]
  /\ UNCHANGED <<now, store, scheduler, commands, faults>>

\* A client repeats a command that was committed.  The Store returns the result
\* it kept, and the Service hands that to the scheduler like a new one.
Retry(c, w) ==
  /\ commands < MaxCommands
  /\ loop[w] # "down"
  /\ cmd[c] = Idle
  /\ \E m \in saved :
       /\ m.kind \notin {"create", "delete"} => Exists(m.task)
       /\ CASE m.kind = "create" -> next_run_after(m.record.schedule, now) # NoRun
            [] m.kind = "update" -> task[m.task].schedule = m.record.schedule
            [] m.kind = "enable" -> next_run_after(task[m.task].schedule, now) # NoRun
            [] m.kind = "reschedule" -> task[m.task].status = "enabled"
                                          => next_run_after(m.record.schedule, now) # NoRun
            [] OTHER -> TRUE
       /\ cmd' = [cmd EXCEPT ![c] = [phase |-> "sync", kind |-> m.kind, worker |-> w,
                                     task |-> m.task, record |-> m.record, time |-> now]]
  /\ commands' = commands + 1
  /\ UNCHANGED <<now, store, scheduler, faults>>

\* schedule_task or remove_task of one scheduler.
Wakeup(record) == IF record.status = "enabled" THEN record.next_run_at ELSE NoRun

SyncTask(w, t, record) == jobs' = [jobs EXCEPT ![w][t] = Wakeup(record)]

Sync(c) ==
  /\ cmd[c].phase = "sync"
  /\ SyncTask(cmd[c].worker, cmd[c].task, cmd[c].record)
  /\ cmd' = [cmd EXCEPT ![c] = Idle]
  /\ UNCHANGED <<now, store, loop, due, callback, commands, faults>>

-----------------------------------------------------------------------------
\* The scheduler of worker w: its loop delivers due tasks one at a time.

Ready(w) == {t \in Tasks : jobs[w][t] # NoRun /\ jobs[w][t] <= now}

dispatch_due(w) ==
  /\ loop[w] = "up"
  /\ due[w] = {} /\ callback[w] = Idle
  /\ Ready(w) # {}
  /\ due' = [due EXCEPT ![w] = {<<jobs[w][t], t>> : t \in Ready(w)}]
  /\ jobs' = [jobs EXCEPT ![w] = [t \in Tasks |-> IF t \in Ready(w) THEN NoRun ELSE @[t]]]
  /\ UNCHANGED <<now, store, loop, callback, cmd, commands, faults>>

\* Deliveries go by time, then by task id.
First(w) ==
  CHOOSE d \in due[w] : \A o \in due[w] : d[1] < o[1] \/ (d[1] = o[1] /\ d[2] <= o[2])

\* An exception of the callback ends the loop, and with it every delivery.
LoopFails(w) ==
  /\ loop' = [loop EXCEPT ![w] = "failed"]
  /\ due' = [due EXCEPT ![w] = {}]
  /\ callback' = [callback EXCEPT ![w] = Idle]
  /\ UNCHANGED <<now, store, jobs, cmd, commands>>

\* _materialize_due_task reads the task; a deleted one raises TaskNotFoundError.
CallbackRead(w) ==
  /\ due[w] # {} /\ callback[w] = Idle
  /\ LET t == First(w)[2]
         r == task[t]
         rest == [due EXCEPT ![w] = @ \ {First(w)}]
     IN  \/ ~Exists(t) /\ LoopFails(w)
         \/ /\ Exists(t)
            /\ r.status # "enabled" \/ r.next_run_at = NoRun
            /\ jobs' = [jobs EXCEPT ![w][t] = NoRun]
            /\ due' = rest
            /\ UNCHANGED <<now, store, loop, callback, cmd, commands>>
         \/ /\ r.status = "enabled" /\ r.next_run_at # NoRun
            /\ callback' = [callback EXCEPT ![w] = [phase |-> "write", task |-> t,
                                                    record |-> r, time |-> now]]
            /\ due' = rest
            /\ UNCHANGED <<now, store, jobs, loop, cmd, commands>>
  /\ UNCHANGED faults

\* Fault: only the wakeup is compared, not the revision or the status.
SameWakeup(r, current) == current.next_run_at = r.next_run_at

materialization_is_current(r, current) ==
  /\ current.next_run_at = r.next_run_at
  /\ current.revision = r.revision
  /\ current.status = "enabled"

\* pending_occurrences: deduplicated by task, revision and instant.
Pending(t, r, time) ==
  IF r.next_run_at > time THEN {}
  ELSE {[task |-> t, revision |-> r.revision, at |-> i] : i \in DueAt(r, time)} \ occurrences

Advanced(r, time) ==
  [r EXCEPT !.next_run_at = IF @ > time THEN @ ELSE next_run_after(r.schedule, time)]

\* materialize_task and what the callback does with its result.
CallbackWrite(w) ==
  /\ callback[w].phase = "write"
  /\ LET t == callback[w].task
         r == callback[w].record
         time == callback[w].time
         new == Pending(t, r, time)
         Goes(phase, record) ==
           callback' = [callback EXCEPT ![w].phase = phase, ![w].record = record]
     IN  \/ ~Exists(t) /\ LoopFails(w)
         \/ /\ Exists(t)
            /\ ~materialization_is_current(r, task[t])
            /\ Goes("sync", task[t])
            /\ UNCHANGED <<now, store, jobs, loop, due, cmd, commands>>
         \/ /\ Exists(t)
            /\ materialization_is_current(r, task[t])
            /\ queue[t] + Cardinality(new) > MaxQueuedRuns
            /\ Goes("retry", r)
            /\ UNCHANGED <<now, store, jobs, loop, due, cmd, commands>>
         \/ /\ Exists(t)
            /\ materialization_is_current(r, task[t])
            /\ queue[t] + Cardinality(new) <= MaxQueuedRuns
            /\ task' = [task EXCEPT ![t] = Advanced(r, time)]
            /\ occurrences' = occurrences \cup new
            /\ queue' = [queue EXCEPT ![t] = @ + Cardinality(new)]
            /\ Goes("sync", Advanced(r, time))
            /\ UNCHANGED <<now, saved, resumed, jobs, loop, due, cmd, commands>>
  /\ UNCHANGED faults

\* When a wakeup is tried again after QueueFullError.
RetryAt(time) == IF time + RetryDelay > MaxTime THEN MaxTime ELSE time + RetryDelay

CallbackSync(w) ==
  /\ callback[w].phase \in {"sync", "retry"}
  /\ jobs' = [jobs EXCEPT ![w][callback[w].task] =
                IF callback[w].phase = "retry" THEN RetryAt(callback[w].time)
                ELSE Wakeup(callback[w].record)]
  /\ callback' = [callback EXCEPT ![w] = Idle]
  /\ UNCHANGED <<now, store, loop, due, cmd, commands, faults>>

SchedulerStep(w) == dispatch_due(w) \/ CallbackRead(w) \/ CallbackWrite(w) \/ CallbackSync(w)

-----------------------------------------------------------------------------
\* Faults, and the world around.

Fault(kind) == kind \in FaultKinds /\ faults < MaxFaults /\ faults' = faults + 1

\* A Store call of the callback raises.
CallbackFails(w) ==
  /\ Fault("store")
  /\ callback[w].phase = "write"
  /\ LoopFails(w)

\* The process is lost with its scheduler and the commands in progress.
Crash(w) ==
  /\ Fault("crash")
  /\ loop[w] # "down"
  /\ loop' = [loop EXCEPT ![w] = "down"]
  /\ jobs' = [jobs EXCEPT ![w] = [t \in Tasks |-> NoRun]]
  /\ due' = [due EXCEPT ![w] = {}]
  /\ callback' = [callback EXCEPT ![w] = Idle]
  /\ cmd' = [c \in Clients |-> IF cmd[c] # Idle /\ cmd[c].worker = w THEN Idle ELSE cmd[c]]
  /\ UNCHANGED <<now, store, commands>>

\* Fault: the new scheduler waits to be told of the tasks.
RestartEmpty(w) ==
  /\ loop[w] = "down"
  /\ loop' = [loop EXCEPT ![w] = "up"]
  /\ UNCHANGED <<now, store, jobs, due, callback, cmd, commands, faults>>

\* AutomationEngine.start: a new scheduler is told of every enabled task.
Restart(w) ==
  /\ loop[w] = "down"
  /\ loop' = [loop EXCEPT ![w] = "up"]
  /\ jobs' = [jobs EXCEPT ![w] = [t \in Tasks |-> Wakeup(task[t])]]
  /\ UNCHANGED <<now, store, due, callback, cmd, commands, faults>>

\* An engine starts, times out or cancels a queued execution.
Leave(t) ==
  /\ queue[t] > 0
  /\ queue' = [queue EXCEPT ![t] = @ - 1]
  /\ UNCHANGED <<now, task, occurrences, saved, resumed, scheduler, cmd, commands, faults>>

Tick ==
  /\ now < MaxTime
  /\ now' = now + 1
  /\ UNCHANGED <<store, scheduler, cmd, commands, faults>>

Issue(c, w) ==
  \/ \E t \in Tasks : \/ update_task(c, w, t) \/ pause_task(c, w, t)
                      \/ enable_task(c, w, t) \/ delete_task(c, w, t)
  \/ \E t \in Tasks, s \in Schedules : create_task(c, w, t, s) \/ update_schedule(c, w, t, s)
  \/ Retry(c, w)

Next ==
  \/ \E c \in Clients, w \in Workers : Issue(c, w)
  \/ \E c \in Clients : Commit(c) \/ Conflict(c) \/ Sync(c)
  \/ \E w \in Workers : SchedulerStep(w) \/ CallbackFails(w) \/ Crash(w) \/ Restart(w)
  \/ \E t \in Tasks : run_task_now(t) \/ Leave(t)
  \/ Tick

Spec == Init /\ [][Next]_vars

\* The event loop runs commands and schedulers, the host restarts a lost process,
\* the engines empty the queues, and time passes.
Fairness ==
  /\ WF_vars(Tick)
  /\ \A c \in Clients : WF_vars(Commit(c) \/ Conflict(c) \/ Sync(c))
  /\ \A w \in Workers : WF_vars(SchedulerStep(w)) /\ WF_vars(Restart(w))
  /\ \A t \in Tasks : WF_vars(Leave(t))

FairSpec == Spec /\ Fairness

-----------------------------------------------------------------------------
\* Properties.

\* The wakeup of an enabled task is an instant of the schedule it has now, also
\* when the schedule was changed while it was paused or while a wakeup was late.
NextRunInSchedule ==
  \A t \in Tasks :
    task[t].status = "enabled" => task[t].next_run_at \in task[t].schedule \cup {NoRun}

\* A callback that read the task before it was paused, changed or deleted creates
\* nothing: executions come from the enabled revision that the Store has.
StaleWakeupCreatesNothing ==
  [][\A o \in occurrences' \ occurrences :
       task[o.task].status = "enabled" /\ task[o.task].revision = o.revision]_vars

\* An instant that passed before the task was created or enabled is never run.
NoPausedCatchUp ==
  [][\A o \in occurrences' \ occurrences : o.at > resumed[o.task]]_vars

\* A due task of which a live scheduler was told is materialised, or its wakeup
\* moves, or it is no longer enabled: no wakeup is lost.
DueIsMaterialized ==
  \A t \in Tasks :
    (task[t].status = "enabled" /\ task[t].next_run_at \in 0 .. now)
      ~> ~(task[t].status = "enabled" /\ task[t].next_run_at \in 0 .. now)

\* A one-time schedule runs once: no instant of a task gives two executions.
FiresOnce ==
  \A o, p \in occurrences : o.task = p.task /\ o.at = p.at => o = p

=============================================================================
