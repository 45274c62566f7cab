--------------------------- MODULE AutomationStore ---------------------------
(***************************************************************************)
(* The execution half of the Automation Store: queued executions, their    *)
(* claimable work items, and the reserved concurrency, as the Store        *)
(* operations of packages/tinkerfin-automation change them.  Every         *)
(* operation is one atomic boundary (the asyncio lock of                   *)
(* MemoryAutomationStore, one transaction of SqlAlchemyAutomationStore),   *)
(* and _rules.py decides the change both stores apply.                     *)
(*                                                                         *)
(* This module is also the contract the workers rely on: a claim of item   *)
(* (k, e) is its fence f, and ANY fence ever issued may be presented at    *)
(* ANY time, so nothing is assumed about the worker that holds it.         *)
(* AutomationEngine is shown to implement it.                              *)
(*                                                                         *)
(* Abstractions.  One namespace.  A claim's random token is fresh with     *)
(* every fence, so the fence stands for both.  The order of work_item_id   *)
(* (a random UUID) is the constant WorkItemId.  An operation that raises   *)
(* changes nothing and is a stuttering step here.  claim_work is taken     *)
(* with limit 1: a batch of n is n such steps at one instant.              *)
(***************************************************************************)
EXTENDS Integers, FiniteSets

CONSTANTS
  Executions,         \* execution ids that may ever be created
  Scopes,             \* capacity scopes: a task, or an owner's taskless work
  ScopeOf,            \* [Executions -> Scopes], _rules.execution_scope
  MaxConcurrentRuns,  \* [Executions -> Nat], the limits saved with the execution
  MaxQueuedRuns,      \* [Executions -> Nat]
  GlobalConcurrency,  \* the engines' global_concurrency
  ScanLimit,          \* candidates one claim_work examines (limit * 4 in SQL)
  WorkItemId,         \* [Kinds -> [Executions -> Nat]], ties of the claim order
  Outcomes,           \* terminal statuses that workers and resolutions report
  LeaseDuration, QueueTimeout, ExecutionTimeout,
  MaxTime,            \* bound: the last instant of the clock
  MaxFence            \* bound: the claims of one work item

Kinds == {"execute", "expire_interrupt"}
Terminal == {"succeeded", "failed", "timed_out", "cancelled"}

ASSUME StoreAssumption ==
  /\ IsFiniteSet(Executions)
  /\ ScopeOf \in [Executions -> Scopes]
  /\ MaxConcurrentRuns \in [Executions -> Nat \ {0}]
  /\ MaxQueuedRuns \in [Executions -> Nat]
  /\ GlobalConcurrency \in Nat \ {0}
  /\ ScanLimit \in Nat \ {0}
  /\ WorkItemId \in [Kinds -> [Executions -> Nat]]
  /\ Outcomes \subseteq Terminal
  /\ LeaseDuration \in Nat \ {0}
  /\ QueueTimeout \in Nat \ {0}
  /\ ExecutionTimeout \in Nat \ {0}
  /\ MaxTime \in Nat
  /\ MaxFence \in Nat

VARIABLES
  now,              \* the Store's clock
  exec,             \* execution records
  work,             \* work items, by kind and execution
  admitted,         \* executions that hold reserved capacity
  global_allocated, \* the namespace's "global" scope counter
  scope_allocated   \* the task and owner scope counters

storeVars == <<now, exec, work, admitted, global_allocated, scope_allocated>>

-----------------------------------------------------------------------------
\* Records.

None == -1   \* a timestamp column that is NULL

Statuses == {"absent", "queued", "running", "interrupted", "cancel_requested",
             "needs_attention"} \cup Terminal

Execution == [status: Statuses,
              start_authorized: BOOLEAN,
              queue_deadline: Int,
              execution_deadline: Int]

WorkItem == [status: {"absent", "pending", "claimed", "completed"},
             available_at: Int,
             fence: Nat,
             lease_until: Int]

NoExecution == [status |-> "absent", start_authorized |-> FALSE,
                queue_deadline |-> None, execution_deadline |-> None]
NoWork == [status |-> "absent", available_at |-> None, fence |-> 0,
           lease_until |-> None]

NewExecution(t) == [status |-> "queued", start_authorized |-> FALSE,
                    queue_deadline |-> t + QueueTimeout,
                    execution_deadline |-> None]

\* _create_work: a new item, or the same item opened again with its old fence.
Opened(item, t) == [item EXCEPT !.status = "pending", !.available_at = t,
                                !.lease_until = None]

Completed(item) == [item EXCEPT !.status = "completed", !.lease_until = None]

\* _complete_execution_work: whatever items the execution has.
AllCompleted(item) == IF item.status = "absent" THEN item ELSE Completed(item)

StoreInit ==
  /\ now = 0
  /\ exec = [e \in Executions |-> NoExecution]
  /\ work = [k \in Kinds |-> [e \in Executions |-> NoWork]]
  /\ admitted = {}
  /\ global_allocated = 0
  /\ scope_allocated = [s \in Scopes |-> 0]

-----------------------------------------------------------------------------
\* Capacity.

InScope(E, s) == {e \in E : ScopeOf[e] = s}

QueuedIn(s) == {e \in Executions : exec[e].status = "queued" /\ ScopeOf[e] = s}

\* _release_scopes decrements a counter and drops it at zero.
Less(allocated, n) == IF allocated <= n THEN 0 ELSE allocated - n

\* Fault: capacity is returned without asking whether it was ever reserved.
ReleaseUnasked(E) ==
  /\ admitted' = admitted \ E
  /\ global_allocated' = Less(global_allocated, Cardinality(E))
  /\ scope_allocated' =
       [s \in Scopes |-> Less(scope_allocated[s], Cardinality(InScope(E, s)))]

\* The admission of the executions in E ends.
Release(E) ==
  /\ admitted' = admitted \ E
  /\ global_allocated' = Less(global_allocated, Cardinality(admitted \cap E))
  /\ scope_allocated' =
       [s \in Scopes |-> Less(scope_allocated[s],
                              Cardinality(InScope(admitted \cap E, s)))]

KeepCapacity == UNCHANGED <<admitted, global_allocated, scope_allocated>>

-----------------------------------------------------------------------------
\* New work.

\* Fault: each new execution is compared with the queue on its own.
QueueCapacityEach(E) ==
  \A e \in E : Cardinality(QueuedIn(ScopeOf[e])) + 1 <= MaxQueuedRuns[e]

\* enqueue_execution and materialize_task: the queue bound is checked for all
\* the new executions together, in the boundary that inserts them.
QueueCapacity(E) ==
  \A e \in E : Cardinality(QueuedIn(ScopeOf[e])) + Cardinality(E) <= MaxQueuedRuns[e]

Insert(E) ==
  /\ exec' = [e \in Executions |-> IF e \in E THEN NewExecution(now) ELSE exec[e]]
  /\ work' = [work EXCEPT !["execute"] =
                [e \in Executions |-> IF e \in E THEN Opened(NoWork, now) ELSE @[e]]]
  /\ UNCHANGED now
  /\ KeepCapacity

\* execute_once, run_task_now and retry_execution reach enqueue_execution.
EnqueueExecution(e) ==
  /\ exec[e].status = "absent"
  /\ QueueCapacity({e})
  /\ Insert({e})

\* The due occurrences of one task, all or none.
MaterializeTask(E) ==
  /\ E # {}
  /\ \A e \in E : exec[e].status = "absent"
  /\ \A e, f \in E : ScopeOf[e] = ScopeOf[f]
  /\ QueueCapacity(E)
  /\ Insert(E)

-----------------------------------------------------------------------------
\* User operations on existing executions.

\* Fault: the cancelled executions' work items stay open.
CancelKeepingWork(E) ==
  /\ exec' = [e \in Executions |->
                IF e \in E THEN [exec[e] EXCEPT !.status = "cancelled"] ELSE exec[e]]
  /\ Release(E)
  /\ UNCHANGED <<now, work>>

\* The executions in E become terminal and every work item they have is closed.
Cancel(E) ==
  /\ exec' = [e \in Executions |->
                IF e \in E THEN [exec[e] EXCEPT !.status = "cancelled"] ELSE exec[e]]
  /\ work' = [k \in Kinds |-> [e \in Executions |->
                IF e \in E THEN AllCompleted(work[k][e]) ELSE work[k][e]]]
  /\ Release(E)
  /\ UNCHANGED now

\* Only executions that have not started are cancelled with their task.
DeleteTask(s) ==
  /\ QueuedIn(s) # {}
  /\ Cancel(QueuedIn(s))

\* A running target is not known to have stopped: only the intent is recorded.
RequestCancel(e) ==
  /\ exec' = [exec EXCEPT ![e].status = "cancel_requested"]
  /\ UNCHANGED <<now, work>>
  /\ KeepCapacity

CancelExecution(e) ==
  \/ exec[e].status \in {"queued", "interrupted"} /\ Cancel({e})
  \/ exec[e].status = "running" /\ RequestCancel(e)

\* Fault: the resolution is stored in place of the status it stands for.
ResolveUnmapped(e, outcome) ==
  /\ exec[e].status = "needs_attention"
  /\ exec' = [exec EXCEPT ![e].status = "resolved"]
  /\ Release({e})
  /\ UNCHANGED <<now, work>>

\* A person reports any end but a time-out (AttentionResolution).
ResolveExecution(e, outcome) ==
  /\ exec[e].status = "needs_attention"
  /\ outcome # "timed_out"
  /\ exec' = [exec EXCEPT ![e].status = outcome]
  /\ Release({e})
  /\ UNCHANGED <<now, work>>

-----------------------------------------------------------------------------
\* Operations under a claim.

\* Fault: the lease of a presented claim is not compared with the clock.
ValidUntilReclaimed(k, e, f) ==
  work[k][e].status = "claimed" /\ work[k][e].fence = f

ValidClaim(k, e, f) ==
  /\ work[k][e].status = "claimed"
  /\ work[k][e].fence = f
  /\ work[k][e].lease_until > now

RenewClaim(k, e, f) ==
  /\ ValidClaim(k, e, f)
  /\ work' = [work EXCEPT ![k][e].lease_until = now + LeaseDuration]
  /\ UNCHANGED <<now, exec>>
  /\ KeepCapacity

\* The only transition that lets a worker invoke the execution's target.
AuthorizeStart(e, f) ==
  /\ ValidClaim("execute", e, f)
  /\ ~exec[e].start_authorized
  /\ exec[e].status = "queued"
  /\ e \in admitted
  /\ exec' = [exec EXCEPT ![e].status = "running",
                          ![e].start_authorized = TRUE,
                          ![e].execution_deadline = now + ExecutionTimeout]
  /\ UNCHANGED <<now, work>>
  /\ KeepCapacity

\* Fault: the claim ends and nobody is told to expire the waiting graph.
MarkInterruptedForgotten(k, e, f) ==
  /\ ValidClaim(k, e, f)
  /\ exec[e].execution_deadline # None
  /\ exec' = [exec EXCEPT ![e].status = "interrupted"]
  /\ work' = [work EXCEPT ![k][e] = Completed(@)]
  /\ UNCHANGED now
  /\ KeepCapacity

\* The graph waits for a person: its claim ends, its admission does not, and
\* what remains to be done is to expire it at its original deadline.
MarkInterrupted(k, e, f) ==
  /\ ValidClaim(k, e, f)
  /\ exec[e].execution_deadline # None
  /\ exec' = [exec EXCEPT ![e].status = "interrupted"]
  /\ work' = [kk \in Kinds |-> [work[kk] EXCEPT ![e] =
                IF kk = "expire_interrupt" THEN Opened(@, exec[e].execution_deadline)
                ELSE IF kk = k THEN Completed(@) ELSE @]]
  /\ UNCHANGED now
  /\ KeepCapacity

\* Fault: an uncertain outcome also returns the capacity.
FinishReleasing(k, e, f, status) ==
  /\ ValidClaim(k, e, f)
  /\ exec' = [exec EXCEPT ![e].status = status]
  /\ work' = [kk \in Kinds |-> [work[kk] EXCEPT ![e] = AllCompleted(@)]]
  /\ Release({e})
  /\ UNCHANGED now

FinishExecution(k, e, f, status) ==
  /\ ValidClaim(k, e, f)
  /\ exec' = [exec EXCEPT ![e].status = status]
  /\ work' = [kk \in Kinds |-> [work[kk] EXCEPT ![e] = AllCompleted(@)]]
  /\ IF status \in Terminal THEN Release({e}) ELSE KeepCapacity
  /\ UNCHANGED now

-----------------------------------------------------------------------------
\* claim_work.

\* _recover_expired_claims runs first.  A lost claim whose start was authorised
\* is never claimed again; any other returns to the queue.
LeaseExpired(k, e) == work[k][e].status = "claimed" /\ work[k][e].lease_until <= now

\* Fault: every lost claim returns to the queue.
LostNever(k, e) == FALSE

LostAfterStart(k, e) ==
  LeaseExpired(k, e) /\ k = "execute" /\ exec[e].start_authorized

RecoveredStatus(e) ==
  IF LostAfterStart("execute", e) THEN "needs_attention" ELSE exec[e].status

RecoveredItem(k, e) ==
  CASE LostAfterStart(k, e) -> Completed(work[k][e])
    [] LeaseExpired(k, e) /\ ~LostAfterStart(k, e) ->
         [work[k][e] EXCEPT !.status = "pending", !.lease_until = None]
    [] OTHER -> work[k][e]

\* Candidates in claim order, an item being a pair <<kind, execution>>.
Due == {i \in Kinds \X Executions :
          /\ RecoveredItem(i[1], i[2]).status = "pending"
          /\ RecoveredItem(i[1], i[2]).available_at <= now}

Before(i, j) ==
  LET a == work[i[1]][i[2]].available_at
      b == work[j[1]][j[2]].available_at
  IN  a < b \/ (a = b /\ WorkItemId[i[1]][i[2]] < WorkItemId[j[1]][j[2]])

Scanned == {i \in Due : Cardinality({j \in Due : Before(j, i)}) < ScanLimit}

\* claim_candidate: an item without its execution's status is closed, and a
\* queued execution past its deadline ends even when it was admitted before.
Stale(i) ==
  RecoveredStatus(i[2]) # (IF i[1] = "execute" THEN "queued" ELSE "interrupted")

QueueExpired(i) ==
  i[1] = "execute" /\ ~Stale(i) /\ exec[i[2]].queue_deadline <= now

\* Capacity that candidates before i gave back in this same call.
ReturnedBefore(i) ==
  {e \in admitted : LET j == <<"execute", e>>
                    IN  j \in Scanned /\ QueueExpired(j) /\ Before(j, i)}

\* Fault: a scope that is full is compared with <=.
ReservableWhenFull(i) ==
  \/ i[1] = "expire_interrupt"
  \/ i[2] \in admitted
  \/ /\ Less(global_allocated, Cardinality(ReturnedBefore(i))) < GlobalConcurrency
     /\ Less(scope_allocated[ScopeOf[i[2]]],
             Cardinality(InScope(ReturnedBefore(i), ScopeOf[i[2]])))
          <= MaxConcurrentRuns[i[2]]

Reservable(i) ==
  \/ i[1] = "expire_interrupt"
  \/ i[2] \in admitted
  \/ /\ Less(global_allocated, Cardinality(ReturnedBefore(i))) < GlobalConcurrency
     /\ Less(scope_allocated[ScopeOf[i[2]]],
             Cardinality(InScope(ReturnedBefore(i), ScopeOf[i[2]])))
          < MaxConcurrentRuns[i[2]]

Selectable == {i \in Scanned : ~Stale(i) /\ ~QueueExpired(i) /\ Reservable(i)}

\* At most one item: the first that can be claimed.
Selected == {i \in Selectable : \A j \in Selectable \ {i} : Before(i, j)}

\* The loop stops once it has its claim.
Visited == {i \in Scanned : \A j \in Selected : Before(i, j)}

QueueTimeouts == {e \in Executions :
                    <<"execute", e>> \in Visited /\ QueueExpired(<<"execute", e>>)}

NewlyAdmitted == {e \in Executions \ admitted : <<"execute", e>> \in Selected}

ClaimedExec(e) ==
  [exec[e] EXCEPT !.status = IF e \in QueueTimeouts THEN "timed_out"
                             ELSE RecoveredStatus(e)]

\* Fault: a new claim keeps the item's fence.
ClaimedSameFence(k, e) ==
  CASE <<k, e>> \in Selected ->
         [RecoveredItem(k, e) EXCEPT !.status = "claimed",
                                     !.lease_until = now + LeaseDuration]
    [] <<k, e>> \in Visited /\ (Stale(<<k, e>>) \/ QueueExpired(<<k, e>>)) ->
         Completed(RecoveredItem(k, e))
    [] OTHER -> RecoveredItem(k, e)

ClaimedItem(k, e) ==
  CASE <<k, e>> \in Selected ->
         [RecoveredItem(k, e) EXCEPT !.status = "claimed", !.fence = @ + 1,
                                     !.lease_until = now + LeaseDuration]
    [] <<k, e>> \in Visited /\ (Stale(<<k, e>>) \/ QueueExpired(<<k, e>>)) ->
         Completed(RecoveredItem(k, e))
    [] OTHER -> RecoveredItem(k, e)

ClaimWork ==
  /\ \A i \in Selected : work[i[1]][i[2]].fence < MaxFence
  /\ exec' = [e \in Executions |-> ClaimedExec(e)]
  /\ work' = [k \in Kinds |-> [e \in Executions |-> ClaimedItem(k, e)]]
  /\ admitted' = (admitted \ QueueTimeouts) \cup NewlyAdmitted
  /\ global_allocated' =
       Less(global_allocated, Cardinality(admitted \cap QueueTimeouts))
         + Cardinality(NewlyAdmitted)
  /\ scope_allocated' =
       [s \in Scopes |->
          Less(scope_allocated[s], Cardinality(InScope(admitted \cap QueueTimeouts, s)))
            + Cardinality(InScope(NewlyAdmitted, s))]
  /\ UNCHANGED now

-----------------------------------------------------------------------------
\* The clock.
Tick ==
  /\ now < MaxTime
  /\ now' = now + 1
  /\ UNCHANGED <<exec, work>>
  /\ KeepCapacity

\* Any claim ever issued may be presented.
ClaimStep ==
  \E e \in Executions : \E k \in Kinds : \E f \in 1..work[k][e].fence :
    \/ RenewClaim(k, e, f)
    \/ k = "execute" /\ AuthorizeStart(e, f)
    \/ MarkInterrupted(k, e, f)
    \/ \E status \in Outcomes \cup {"needs_attention"} : FinishExecution(k, e, f, status)

UserStep ==
  \/ \E e \in Executions :
       \/ EnqueueExecution(e)
       \/ CancelExecution(e)
       \/ \E outcome \in Outcomes : ResolveExecution(e, outcome)
  \/ \E E \in SUBSET Executions : MaterializeTask(E)
  \/ \E s \in Scopes : DeleteTask(s)

StoreNext == Tick \/ ClaimStep \/ UserStep \/ ClaimWork

StoreSpec == StoreInit /\ [][StoreNext]_storeVars

-----------------------------------------------------------------------------
\* Properties.

\* Every variable keeps its shape, and a clock reading stays within the horizon.
TypeOK ==
  /\ now \in 0..MaxTime
  /\ exec \in [Executions -> Execution]
  /\ work \in [Kinds -> [Executions -> WorkItem]]
  /\ admitted \subseteq Executions
  /\ global_allocated \in Nat
  /\ scope_allocated \in [Scopes -> Nat]

\* No work is lost and none is left over: what each status still needs done has
\* exactly the open item that claim_work will find (a queued execution its
\* execute item, an interrupted one the expiry at its original deadline, a
\* running one the claim whose lease recovery watches), and an open item always
\* belongs to an execution that needs it.
WorkMatchesStatus ==
  \A e \in Executions :
    LET x == work["execute"][e]
        d == work["expire_interrupt"][e]
    IN  /\ x.status = "pending" => exec[e].status = "queued"
        /\ x.status = "claimed" =>
             exec[e].status \in {"queued", "running", "cancel_requested"}
        /\ exec[e].status = "queued" => x.status \in {"pending", "claimed"}
        /\ exec[e].status \in {"running", "cancel_requested"} => x.status = "claimed"
        /\ d.status \in {"pending", "claimed"} <=> exec[e].status = "interrupted"
        /\ exec[e].status = "interrupted" =>
             d.available_at = exec[e].execution_deadline

\* Automatic restart is impossible: once a start was authorised the execute item
\* can only be the claim that started it, or closed; and whatever may still run
\* outside the Store, or may have run without a known outcome, was started.
StartedOnce ==
  \A e \in Executions :
    /\ exec[e].start_authorized <=> exec[e].execution_deadline # None
    /\ exec[e].status \in {"running", "cancel_requested", "interrupted"} =>
         exec[e].start_authorized
    /\ exec[e].start_authorized =>
         /\ exec[e].status # "queued"
         /\ work["execute"][e].status \in {"claimed", "completed"}

\* Uncertain external work keeps its reserved capacity: every execution that was
\* started and is not settled is admitted, and capacity is never held for
\* anything that is settled.
AdmissionMatchesStatus ==
  \A e \in Executions :
    /\ exec[e].status \in {"running", "cancel_requested", "interrupted",
                           "needs_attention"} => e \in admitted
    /\ work["execute"][e].status = "claimed" => e \in admitted
    /\ e \in admitted => exec[e].status \notin {"absent"} \cup Terminal

\* The counters the stores keep are the sets they stand for, whatever the order
\* of admissions, double releases and timeouts.
AllocationExact ==
  /\ global_allocated = Cardinality(admitted)
  /\ \A s \in Scopes : scope_allocated[s] = Cardinality(InScope(admitted, s))

\* Concurrency is bounded, also while executions saved under different limits
\* share a scope: at most n of them run under a limit of n or less.
WithinConcurrency ==
  /\ Cardinality(admitted) <= GlobalConcurrency
  /\ \A e \in admitted :
       Cardinality({d \in InScope(admitted, ScopeOf[e]) :
                      MaxConcurrentRuns[d] <= MaxConcurrentRuns[e]})
         <= MaxConcurrentRuns[e]

\* The queue is bounded in the same sense.
WithinQueue ==
  \A s \in Scopes : \A e \in QueuedIn(s) :
    Cardinality({d \in QueuedIn(s) : MaxQueuedRuns[d] <= MaxQueuedRuns[e]})
      <= MaxQueuedRuns[e]

\* A late answer cannot reopen what is settled: whatever claims are still
\* presented, a terminal execution and its work items never change again, and an
\* uncertain one leaves that state only by an explicit resolution.
SettledIsFinal ==
  [][\A e \in Executions :
       exec[e].status \in Terminal \cup {"needs_attention"} =>
         /\ \A k \in Kinds : work'[k][e] = work[k][e]
         /\ \/ exec'[e] = exec[e]
            \/ /\ exec[e].status = "needs_attention"
               /\ \E outcome \in Outcomes : ResolveExecution(e, outcome)]_storeVars

Live(k, e, f) == /\ work[k][e].status = "claimed"
                 /\ work[k][e].fence = f
                 /\ work[k][e].lease_until > now

\* A claim whose lease lapsed is never good again under the same fence: nothing
\* (a late renewal, a recovery, a new claim of the item) revives it.
LapsedClaimNeverRevives ==
  [][\A k \in Kinds, e \in Executions, f \in 1..MaxFence :
       Live(k, e, f)' => Live(k, e, f) \/ work[k][e].fence < f]_storeVars

=============================================================================
