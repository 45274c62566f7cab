--------------------------- MODULE AutomationEngine ---------------------------
(***************************************************************************)
(* AutomationEngine workers that share one Automation Store: the           *)
(* supervisor that claims work and reaps its tasks, _process_claim with    *)
(* its target, deadline, cancellation and renewal waits, the interrupt     *)
(* callback, shutdown, and the ways a worker is lost.  Every Store call is *)
(* an operation of AutomationStore, so what is proved of the Store holds   *)
(* under the workers.                                                      *)
(*                                                                         *)
(* Abstractions.  The engine's clock is the Store's.  The supervisor's     *)
(* loop is its two acts, Dispatch and Reap, in any order (polling and      *)
(* _wake only decide when).  A target or callback that was cancelled is    *)
(* joined however long it takes, and the lease is not renewed meanwhile.   *)
(* A Store call that raises may or may not have committed.                 *)
(***************************************************************************)
EXTENDS AutomationStore

CONSTANTS
  Workers,
  Unregistered,  \* executions whose target no engine registers
  FinalCancel,   \* executions whose target has cancellation_is_final
  OnInterrupt,   \* whether the engines have an on_interrupt callback
  Shutdown,      \* whether the host closes engines
  LastEnqueue,   \* bound: no execution is created after this instant
  LastRenewal,   \* bound: no late renewal is granted after this instant
  MaxFaults      \* bound: crashes, failed Store calls and failed cleanups

ASSUME EngineAssumption ==
  /\ Outcomes = Terminal
  /\ Unregistered \subseteq Executions
  /\ FinalCancel \subseteq Executions
  /\ OnInterrupt \in BOOLEAN
  /\ Shutdown \in BOOLEAN
  /\ LastEnqueue \in Nat
  /\ LastRenewal \in Nat
  /\ MaxFaults \in Nat

VARIABLES
  engine,       \* lifecycle of each worker's engine
  tasks,        \* the _process_claim tasks of all engines
  alive,        \* executions whose external work may still be going on
  invocations,  \* how often target.run was called for an execution
  resolved,     \* executions that a person resolved
  faults        \* faults so far

engineVars == <<engine, tasks, alive, invocations, resolved, faults>>
vars == <<storeVars, engineVars>>

\* One asyncio task: its claim, what it waits for, the status it will finish
\* with, its cancel_requested event, and whether _owned still refers to it.
\* In the four Joining phases it waits for a child that it cancelled: a target or
\* a callback that is to be recorded, one whose claim could not be renewed, or
\* either of them at shutdown.
Joining == {"stopping", "cutting", "giving_up", "draining"}

Task == [worker: Workers, kind: Kinds, execution: Executions, fence: Nat,
         phase: {"claimed", "running", "callback", "mark", "settle", "stopped", "failed"}
                  \cup Joining,
         status: Statuses, cancel_requested: BOOLEAN, owned: BOOLEAN]

EngineInit ==
  /\ StoreInit
  /\ engine = [w \in Workers |-> "running"]
  /\ tasks = {}
  /\ alive = {}
  /\ invocations = [e \in Executions |-> 0]
  /\ resolved = {}
  /\ faults = 0

-----------------------------------------------------------------------------
\* Tasks.

\* The claim that a task presents to the Store.
Holds(t) == ValidClaim(t.kind, t.execution, t.fence)

\* A task ends: _reap_finished will only look at a failed one that is owned by
\* an engine still supervising; any other is simply gone.
Ended(t, failed) ==
  IF failed /\ t.owned /\ engine[t.worker] = "running"
  THEN {[t EXCEPT !.phase = "failed"]} ELSE {}

Becomes(t, ts) == tasks' = (tasks \ {t}) \cup ts

Goes(t, phase) == Becomes(t, {[t EXCEPT !.phase = phase]})

\* The task has decided how to finish: with its outcome, or once the target that
\* it cancelled has ended.
Decides(t, phase, status) == Becomes(t, {[t EXCEPT !.phase = phase, !.status = status]})

Settles(t, status) == Decides(t, "settle", status)

\* A target that was cancelled and joined is over only if it promises that.
AfterCancel(t) == IF t.execution \in FinalCancel THEN alive \ {t.execution} ELSE alive

\* Where a new claim's task starts.  An expired interrupt is finished at once,
\* and so is an execution without a registered target.
NewTask(w, k, e) ==
  [worker |-> w, kind |-> k, execution |-> e, fence |-> work'[k][e].fence,
   phase |-> IF k = "expire_interrupt" \/ e \in Unregistered THEN "settle" ELSE "claimed",
   status |-> IF k = "expire_interrupt" THEN "timed_out"
              ELSE IF e \in Unregistered THEN "failed" ELSE "queued",
   cancel_requested |-> FALSE, owned |-> TRUE]

Owned(w) == {t \in tasks : t.worker = w /\ t.owned}

-----------------------------------------------------------------------------
\* The supervisor.

\* The new task replaces an older one of the same execution in _owned.
Adopt(w) ==
  tasks' = {IF t.worker = w /\ \E i \in Selected : i[2] = t.execution
            THEN [t EXCEPT !.owned = FALSE] ELSE t : t \in tasks}
             \cup {NewTask(w, i[1], i[2]) : i \in Selected}

Dispatch(w) ==
  /\ engine[w] = "running"
  /\ Cardinality(Owned(w)) < GlobalConcurrency
  /\ ClaimWork
  /\ Adopt(w)
  /\ UNCHANGED <<engine, alive, invocations, resolved, faults>>

\* The first failed task that is reaped stops the supervisor.
Reap(w) ==
  /\ engine[w] = "running"
  /\ \E t \in Owned(w) : t.phase = "failed"
  /\ engine' = [engine EXCEPT ![w] = "failed"]
  /\ tasks' = {t \in tasks : ~(t.worker = w /\ t.phase = "failed")}
  /\ UNCHANGED <<storeVars, alive, invocations, resolved, faults>>

-----------------------------------------------------------------------------
\* _process_claim.

KeepWorld == UNCHANGED <<engine, invocations, resolved, faults>>

\* Fault: a live claim is taken for the permission to start.
StartUnauthorized(t) ==
  /\ t.phase = "claimed"
  /\ Holds(t)
  /\ Goes(t, "running")
  /\ alive' = alive \cup {t.execution}
  /\ invocations' = [invocations EXCEPT ![t.execution] = @ + 1]
  /\ UNCHANGED <<storeVars, engine, resolved, faults>>

Start(t) ==
  /\ t.phase = "claimed"
  /\ AuthorizeStart(t.execution, t.fence)
  /\ Goes(t, "running")
  /\ alive' = alive \cup {t.execution}
  /\ invocations' = [invocations EXCEPT ![t.execution] = @ + 1]
  /\ UNCHANGED <<engine, resolved, faults>>

\* authorize_start raises: the claim is no longer this task's to start.
StartRefused(t) ==
  /\ t.phase = "claimed"
  /\ ~(Holds(t) /\ exec[t.execution].status = "queued" /\ t.execution \in admitted)
  /\ Becomes(t, Ended(t, TRUE))
  /\ UNCHANGED <<storeVars, alive>>
  /\ KeepWorld

\* The target returns or raises.
TargetReturns(t) ==
  /\ t.phase = "running"
  /\ \/ /\ \E status \in {"succeeded", "failed"} : Settles(t, status)
        /\ alive' = alive \ {t.execution}
     \/ /\ Settles(t, "needs_attention")   \* ExecutionUncertain
        /\ alive' = alive
     \/ /\ Goes(t, IF OnInterrupt THEN "callback" ELSE "mark")
        /\ alive' = alive \ {t.execution}
  /\ UNCHANGED storeVars
  /\ KeepWorld

\* Fault: cancelling the target's coroutine is taken to have stopped its work.
StopAssumed(t, status) ==
  /\ Decides(t, "stopping", status)
  /\ UNCHANGED <<storeVars, alive>>
  /\ KeepWorld

\* The running target is cancelled; only some targets promise that this stops it.
Stop(t, status) ==
  /\ Decides(t, "stopping", IF t.execution \in FinalCancel THEN status ELSE "needs_attention")
  /\ UNCHANGED <<storeVars, alive>>
  /\ KeepWorld

DeadlinePassed(t) == exec[t.execution].execution_deadline <= now

TargetCancelled(t) ==
  t.phase = "running" /\ t.cancel_requested /\ Stop(t, "cancelled")

\* Fault: the deadline is only looked at when a cancellation woke the task.
TargetNeverTimesOut(t) ==
  t.phase = "running" /\ t.cancel_requested /\ DeadlinePassed(t) /\ Stop(t, "timed_out")

TargetTimesOut(t) ==
  t.phase = "running" /\ ~t.cancel_requested /\ DeadlinePassed(t) /\ Stop(t, "timed_out")

\* on_interrupt keeps waiting or fails the execution, or is itself cancelled.
CallbackReturns(t) ==
  /\ t.phase = "callback"
  /\ Goes(t, "mark") \/ Settles(t, "failed")
  /\ UNCHANGED <<storeVars, alive>>
  /\ KeepWorld

CallbackCut(t) ==
  /\ t.phase = "callback"
  /\ \/ t.cancel_requested /\ Decides(t, "cutting", "cancelled")
     \/ ~t.cancel_requested /\ DeadlinePassed(t) /\ Decides(t, "cutting", "timed_out")
  /\ UNCHANGED <<storeVars, alive>>
  /\ KeepWorld

Waiting(t) == t.phase \in {"running", "callback"}

\* Fault: the lease is kept up while a cancelled target or callback is joined.
RenewWhileJoining(t) ==
  /\ Waiting(t) \/ t.phase \in Joining
  /\ work[t.kind][t.execution].lease_until < now + LeaseDuration
  /\ RenewClaim(t.kind, t.execution, t.fence)
  /\ UNCHANGED <<engine, tasks, alive, invocations, resolved, faults>>

\* A waiting task looks at the cancellation and the deadline before it renews; one
\* of them may come while renew_claim is under way.
Renew(t) ==
  /\ Waiting(t)
  /\ t.cancel_requested \/ DeadlinePassed(t) => now <= LastRenewal
  /\ work[t.kind][t.execution].lease_until < now + LeaseDuration
  /\ RenewClaim(t.kind, t.execution, t.fence)
  /\ UNCHANGED <<engine, tasks, alive, invocations, resolved, faults>>

\* renew_claim raises: the operation is cancelled, and the task will fail.
RenewRefused(t) ==
  /\ Waiting(t)
  /\ ~Holds(t)
  /\ Goes(t, "giving_up")
  /\ UNCHANGED <<storeVars, alive>>
  /\ KeepWorld

\* The cancelled target or callback ends, and is joined.
ChildJoined(t) ==
  /\ \/ t.phase = "stopping" /\ Goes(t, "stopped")
     \/ t.phase \in {"cutting", "draining"} /\ Goes(t, "settle")
     \/ t.phase = "giving_up" /\ Becomes(t, Ended(t, TRUE))
  /\ alive' = AfterCancel(t)
  /\ UNCHANGED storeVars
  /\ KeepWorld

Finish(t) ==
  /\ t.phase \in {"settle", "stopped"}
  /\ FinishExecution(t.kind, t.execution, t.fence, t.status)
  /\ Becomes(t, Ended(t, FALSE))
  /\ UNCHANGED alive
  /\ KeepWorld

\* Fault: the interruption is recorded without presenting the claim.
MarkUnclaimed(t) ==
  /\ t.phase = "mark"
  /\ exec' = [exec EXCEPT ![t.execution].status = "interrupted"]
  /\ UNCHANGED <<now, work>>
  /\ KeepCapacity
  /\ Becomes(t, Ended(t, FALSE))
  /\ UNCHANGED alive
  /\ KeepWorld

Mark(t) ==
  /\ t.phase = "mark"
  /\ MarkInterrupted(t.kind, t.execution, t.fence)
  /\ Becomes(t, Ended(t, FALSE))
  /\ UNCHANGED alive
  /\ KeepWorld

SettleRefused(t) ==
  /\ t.phase \in {"settle", "stopped", "mark"}
  /\ ~Holds(t)
  /\ Becomes(t, Ended(t, TRUE))
  /\ UNCHANGED <<storeVars, alive>>
  /\ KeepWorld

\* What the engine itself does with a task; what the host's code does.
EngineStep(t) ==
  \/ Start(t) \/ StartRefused(t)
  \/ TargetCancelled(t) \/ TargetTimesOut(t) \/ CallbackCut(t)
  \/ Renew(t) \/ RenewRefused(t)
  \/ Finish(t) \/ Mark(t) \/ SettleRefused(t)

HostStep(t) == TargetReturns(t) \/ CallbackReturns(t) \/ ChildJoined(t)

-----------------------------------------------------------------------------
\* Faults.  A worker is lost only while its leases can still lapse before the
\* clock's horizon.

Fault == faults < MaxFaults /\ faults' = faults + 1 /\ now + LeaseDuration <= MaxTime

\* A Store call of a task raises although it may have committed.
StoreCallFails(t) ==
  /\ Fault
  /\ \/ /\ \/ t.phase = "claimed" /\ (AuthorizeStart(t.execution, t.fence) \/ UNCHANGED storeVars)
           \/ /\ t.phase \in {"settle", "stopped"}
              /\ \/ FinishExecution(t.kind, t.execution, t.fence, t.status)
                 \/ UNCHANGED storeVars
           \/ /\ t.phase = "mark"
              /\ MarkInterrupted(t.kind, t.execution, t.fence) \/ UNCHANGED storeVars
        /\ Becomes(t, Ended(t, TRUE))
     \/ /\ Waiting(t)
        /\ RenewClaim(t.kind, t.execution, t.fence) \/ UNCHANGED storeVars
        /\ Goes(t, "giving_up")
  /\ UNCHANGED <<engine, alive, invocations, resolved>>

\* The cancelled target or callback raises instead of ending: its error replaces
\* the deadline or the cancellation, so that nothing is recorded, but not the
\* cancellation by a shutdown.
CleanupFails(t) ==
  /\ Fault
  /\ \/ t.phase \in Joining \ {"draining"} /\ Becomes(t, Ended(t, TRUE))
     \/ t.phase = "draining" /\ Goes(t, "settle")
  /\ UNCHANGED <<storeVars, engine, alive, invocations, resolved>>

DispatchFails(w) ==
  /\ Fault
  /\ engine[w] = "running"
  /\ ClaimWork \/ UNCHANGED storeVars
  /\ engine' = [engine EXCEPT ![w] = "failed"]
  /\ UNCHANGED <<tasks, alive, invocations, resolved>>

\* The process dies; its targets' external work does not die with it.
Crash(w) ==
  /\ Fault
  /\ engine[w] # "stopped"
  /\ engine' = [engine EXCEPT ![w] = "stopped"]
  /\ tasks' = {t \in tasks : t.worker # w}
  /\ UNCHANGED <<storeVars, alive, invocations, resolved>>

-----------------------------------------------------------------------------
\* Shutdown: close() stops admission, drains, then cancels and joins.

Close(w) ==
  /\ Shutdown \/ engine[w] = "failed"
  /\ engine[w] \in {"running", "failed"}
  /\ engine' = [engine EXCEPT ![w] = "closing"]
  /\ tasks' = {t \in tasks : ~(t.worker = w /\ t.phase = "failed")}
  /\ UNCHANGED <<storeVars, alive, invocations, resolved, faults>>

\* The drain interval is over.  An authorised task records the uncertainty, once
\* its target or callback has ended; one that never started just stops and its
\* claim lapses, and so does one that is cut while it records the end of a target
\* it has already stopped.
DrainCancel(t) ==
  /\ engine[t.worker] = "closing"
  /\ now + LeaseDuration <= MaxTime
  /\ t.owned
  /\ \/ /\ t.kind = "execute" /\ t.execution \notin Unregistered
        /\ \/ /\ Waiting(t) \/ t.phase \in Joining \ {"draining"}
              /\ Decides(t, "draining", "needs_attention")
           \/ /\ t.phase \in {"mark", "settle"} /\ t.status # "needs_attention"
              /\ Settles(t, "needs_attention")
     \/ /\ \/ t.kind = "expire_interrupt"
           \/ t.execution \in Unregistered
           \/ t.phase \in {"claimed", "stopped"}
        /\ Becomes(t, {})
  /\ UNCHANGED <<storeVars, alive>>
  /\ KeepWorld

Closed(w) ==
  /\ engine[w] = "closing"
  /\ Owned(w) = {}
  /\ engine' = [engine EXCEPT ![w] = "stopped"]
  /\ UNCHANGED <<storeVars, tasks, alive, invocations, resolved, faults>>

\* The host starts a new engine in its place.
Restart(w) ==
  /\ engine[w] = "stopped"
  /\ engine' = [engine EXCEPT ![w] = "running"]
  /\ UNCHANGED <<storeVars, tasks, alive, invocations, resolved, faults>>

-----------------------------------------------------------------------------
\* Users, through the Service of some worker's process.

Enqueue(e) ==
  /\ now <= LastEnqueue
  /\ EnqueueExecution(e)
  /\ UNCHANGED engineVars

\* The Store records the cancellation; only this process's engine is told.
UserCancel(w, e) ==
  /\ \/ CancelExecution(e)
     \/ exec[e].status = "cancel_requested" /\ UNCHANGED storeVars
  /\ tasks' = IF exec[e].status \in {"running", "cancel_requested"}
              THEN {IF t \in Owned(w) /\ t.execution = e
                    THEN [t EXCEPT !.cancel_requested = TRUE] ELSE t : t \in tasks}
              ELSE tasks
  /\ UNCHANGED <<engine, alive, invocations, resolved, faults>>

UserResolve(e) ==
  /\ \E outcome \in Outcomes : ResolveExecution(e, outcome)
  /\ resolved' = resolved \cup {e}
  /\ UNCHANGED <<engine, tasks, alive, invocations, faults>>

Time == Tick /\ UNCHANGED engineVars

EngineNext ==
  \/ \E w \in Workers : Dispatch(w) \/ Reap(w) \/ DispatchFails(w) \/ Crash(w)
                          \/ Close(w) \/ Closed(w) \/ Restart(w)
  \/ \E t \in tasks : \/ EngineStep(t) \/ HostStep(t) \/ StoreCallFails(t)
                        \/ CleanupFails(t) \/ DrainCancel(t)
  \/ \E e \in Executions : Enqueue(e) \/ UserResolve(e) \/ \E w \in Workers : UserCancel(w, e)
  \/ Time

EngineSpec == EngineInit /\ [][EngineNext]_vars

\* The event loop runs every engine and every task it created, the host closes a
\* failed engine and starts another, and time passes.  Nothing is assumed of the
\* users, the faults, and the targets and callbacks: they may never return, and
\* never end once they are cancelled.
Fairness ==
  /\ WF_vars(Time)
  /\ \A w \in Workers :
       /\ WF_vars(Dispatch(w))
       /\ WF_vars(Reap(w))
       /\ WF_vars(engine[w] = "failed" /\ Close(w))
       /\ WF_vars(Closed(w))
       /\ WF_vars(Restart(w))
       /\ \A e \in Executions :
            WF_vars(\E t \in tasks : t.worker = w /\ t.execution = e /\ EngineStep(t))

FairEngineSpec == EngineSpec /\ Fairness

-----------------------------------------------------------------------------
\* Properties.

\* The tasks and ghosts keep their shape.
EngineTypeOK ==
  /\ TypeOK
  /\ engine \in [Workers -> {"running", "failed", "closing", "stopped"}]
  /\ tasks \subseteq Task
  /\ alive \subseteq Executions
  /\ invocations \in [Executions -> Nat]
  /\ resolved \subseteq Executions
  /\ faults \in 0..MaxFaults

\* However claims lapse, calls fail after they committed and workers crash and
\* restart, no execution's target is invoked twice.
InvokedOnce == \A e \in Executions : invocations[e] <= 1

\* Work whose external completion is unconfirmed keeps its reservation until a
\* person resolves it: the limits bound what really runs, not what is recorded.
UnconfirmedReserved == alive \subseteq admitted \cup resolved

\* Two tasks never hold a good claim on the same work item.
OneHolder ==
  \A t, u \in tasks :
    Holds(t) /\ Holds(u) /\ t.kind = u.kind /\ t.execution = u.execution => t = u

\* Every execution that was accepted is settled, or waits for a person: no crash,
\* lost claim, target that does not return or interrupt leaves one behind.  It
\* holds where cancelled targets end, and otherwise where some engine keeps a
\* free slot: it records what a target that never ends was doing.
EverythingSettles ==
  \A e \in Executions :
    exec[e].status \in {"queued", "running", "cancel_requested", "interrupted"}
      ~> exec[e].status \in Terminal \cup {"needs_attention"}

=============================================================================
