----------------------- MODULE AutomationEngineProofs -----------------------
(***************************************************************************)
(* Proofs about AutomationEngine, for every set of workers and executions  *)
(* and every bound: the workers only ever take steps of the Store's        *)
(* contract, so the Store's theorems hold under them, and from these no    *)
(* target is invoked twice.                                                *)
(***************************************************************************)
EXTENDS AutomationEngine, AutomationStoreProofs

-----------------------------------------------------------------------------
\* What the Store never takes back.

\* An execution that was not created has no history.
Fresh(e) ==
  exec[e].status = "absent" =>
    ~exec[e].start_authorized /\ work["execute"][e].fence = 0

\* Starts and fences only grow.
Grows(e) ==
  /\ exec[e].start_authorized => exec'[e].start_authorized
  /\ \A k \in Kinds : work[k][e].fence <= work'[k][e].fence

LEMMA RecoveredFence ==
  ASSUME TypeOK, NEW k \in Kinds, NEW e \in Executions
  PROVE  /\ RecoveredItem(k, e).fence = work[k][e].fence
         /\ ClaimedItem(k, e).fence
              = IF <<k, e>> \in Selected THEN work[k][e].fence + 1 ELSE work[k][e].fence
  <1>1. work[k][e] \in WorkItem
    BY DEF TypeOK
  <1>2. RecoveredItem(k, e).fence = work[k][e].fence
    BY <1>1 DEF RecoveredItem, Completed, WorkItem
  <1>3. RecoveredItem(k, e) \in WorkItem
    BY ClaimedItemType
  <1>4. CASE <<k, e>> \in Selected
    <2>1. work[k][e].available_at \in Int /\ WorkItemId[k][e] \in Nat
      BY <1>1, StoreAssumption DEF WorkItem
    <2>2. ~Before(<<k, e>>, <<k, e>>)
      BY <2>1 DEF Before
    <2>3. <<k, e>> \notin Visited
      BY <1>4, <2>2 DEF Visited
    <2>4. ClaimedItem(k, e) =
            [RecoveredItem(k, e) EXCEPT !.status = "claimed", !.fence = @ + 1,
                                        !.lease_until = now + LeaseDuration]
      BY <1>4, <2>3 DEF ClaimedItem
    <2>5. ASSUME NEW item \in WorkItem, NEW n, NEW t
          PROVE  [item EXCEPT !.status = "claimed", !.fence = n, !.lease_until = t].fence = n
      BY DEF WorkItem
    <2> QED BY <1>2, <1>3, <1>4, <2>4, <2>5
  <1>5. CASE <<k, e>> \notin Selected
    BY <1>2, <1>3, <1>5 DEF ClaimedItem, Completed, WorkItem
  <1> QED BY <1>2, <1>4, <1>5

\* An execution keeps its history, and an execution without one is created anew.
LEMMA StoreGrows ==
  ASSUME IInv, [StoreNext]_storeVars, NEW e \in Executions, Fresh(e)
  PROVE  Grows(e) /\ Fresh(e)'
  <1>t. /\ TypeOK /\ CoherentAt(e)
        /\ exec[e] \in Execution
        /\ work["execute"][e] \in WorkItem /\ work["expire_interrupt"][e] \in WorkItem
    BY Fields DEF IInv
  <1>f. work["execute"][e].fence \in Nat /\ work["expire_interrupt"][e].fence \in Nat
    BY <1>t DEF WorkItem
  <1>s. UNCHANGED <<exec[e], work["execute"][e], work["expire_interrupt"][e]>>
          => Grows(e) /\ Fresh(e)'
    BY <1>f, KindsAre DEF Grows, Fresh
  <1>1. CASE ClaimWork
    <2>1. /\ exec'[e] = ClaimedExec(e)
          /\ \A k \in Kinds : work'[k][e] = ClaimedItem(k, e)
      BY <1>1 DEF ClaimWork
    <2>2. /\ exec'[e].start_authorized = exec[e].start_authorized
          /\ exec'[e].status = "absent" => exec[e].status = "absent"
      <3>1. exec'[e].status = IF e \in QueueTimeouts THEN "timed_out" ELSE RecoveredStatus(e)
        BY <1>t, <2>1 DEF ClaimedExec, Execution
      <3>2. ASSUME NEW x \in Execution, NEW status
            PROVE  [x EXCEPT !.status = status].start_authorized = x.start_authorized
        BY DEF Execution
      <3>3. exec'[e].start_authorized = exec[e].start_authorized
        BY <1>t, <2>1, <3>2 DEF ClaimedExec
      <3> QED BY <3>1, <3>3 DEF RecoveredStatus
    <2>3. \A k \in Kinds : work[k][e].fence <= work'[k][e].fence
      <3> SUFFICES ASSUME NEW k \in Kinds PROVE work[k][e].fence <= work'[k][e].fence
        OBVIOUS
      <3>1. work[k][e].fence \in Nat
        BY <1>f, KindsAre
      <3>2. work'[k][e].fence \in {work[k][e].fence, work[k][e].fence + 1}
        BY <1>t, <2>1, RecoveredFence
      <3> QED BY <3>1, <3>2
    <2>4. exec[e].status = "absent" => work'["execute"][e].fence = work["execute"][e].fence
      <3>1. exec[e].status = "absent" => RecoveredItem("execute", e).status # "pending"
        BY RecoveryCoherent
      <3>2. <<"execute", e>> \in Selected => RecoveredItem("execute", e).status = "pending"
        BY DEF Selected, Selectable, Scanned, Due
      <3> QED BY <1>t, <2>1, <3>1, <3>2, RecoveredFence, KindsAre
    <2> QED BY <2>2, <2>3, <2>4 DEF Grows, Fresh
  <1>2. CASE ClaimStep
    <2>1. PICK d \in Executions, k \in Kinds, f \in Int :
            \/ RenewClaim(k, d, f)
            \/ k = "execute" /\ AuthorizeStart(d, f)
            \/ MarkInterrupted(k, d, f)
            \/ \E status \in Outcomes \cup {"needs_attention"} : FinishExecution(k, d, f, status)
      BY <1>2 DEF ClaimStep
    <2>2. /\ exec \in [Executions -> Execution]
          /\ work \in [Kinds -> [Executions -> WorkItem]]
          /\ "execute" \in Kinds /\ "expire_interrupt" \in Kinds
      BY <1>t, KindsAre DEF TypeOK
    <2>3. \A kk \in Kinds : work'[kk][e].fence = work[kk][e].fence
      <3>1. ASSUME NEW item \in WorkItem, NEW t
            PROVE  /\ Completed(item).fence = item.fence
                   /\ AllCompleted(item).fence = item.fence
                   /\ Opened(item, t).fence = item.fence
                   /\ [item EXCEPT !.lease_until = t].fence = item.fence
        BY DEF Completed, AllCompleted, Opened, WorkItem
      <3>2. CASE RenewClaim(k, d, f)
        BY <2>2, <3>1, <3>2 DEF RenewClaim
      <3>3. CASE k = "execute" /\ AuthorizeStart(d, f)
        BY <3>3 DEF AuthorizeStart
      <3>4. CASE MarkInterrupted(k, d, f)
        <4>1. ASSUME NEW kk \in Kinds
              PROVE  work'[kk][e] \in {work[kk][e], Completed(work[kk][e]),
                                      Opened(work[kk][e], exec[d].execution_deadline)}
          BY <2>2, <3>4 DEF MarkInterrupted
        <4>2. ASSUME NEW kk \in Kinds
              PROVE  work'[kk][e].fence = work[kk][e].fence
          <5>1. work[kk][e] \in WorkItem
            BY <2>2
          <5>2. /\ Completed(work[kk][e]).fence = work[kk][e].fence
                /\ Opened(work[kk][e], exec[d].execution_deadline).fence = work[kk][e].fence
            BY <3>1, <5>1
          <5> QED BY <4>1, <5>2
        <4> QED BY <4>2
      <3>5. CASE \E status \in Outcomes \cup {"needs_attention"} : FinishExecution(k, d, f, status)
        <4>1. ASSUME NEW kk \in Kinds
              PROVE  work'[kk][e] \in {work[kk][e], AllCompleted(work[kk][e])}
          BY <2>2, <3>5 DEF FinishExecution
        <4>2. ASSUME NEW kk \in Kinds
              PROVE  work'[kk][e].fence = work[kk][e].fence
          BY <2>2, <3>1, <4>1
        <4> QED BY <4>2
      <3> QED BY <2>1, <3>2, <3>3, <3>4, <3>5
    <2>4. /\ exec[e].start_authorized => exec'[e].start_authorized
          /\ exec'[e].status = "absent" =>
               /\ exec[e].status = "absent"
               /\ exec'[e].start_authorized = exec[e].start_authorized
      <3>1. ASSUME NEW x \in Execution, NEW status, NEW t
            PROVE  /\ [x EXCEPT !.status = status].start_authorized = x.start_authorized
                   /\ [x EXCEPT !.status = status].status = status
                   /\ [x EXCEPT !.status = status, !.start_authorized = TRUE,
                                 !.execution_deadline = t].start_authorized = TRUE
                   /\ [x EXCEPT !.status = status, !.start_authorized = TRUE,
                                 !.execution_deadline = t].status = status
        BY DEF Execution
      <3>2. CASE exec' = exec
        BY <3>2
      <3>3. CASE exec' = [exec EXCEPT ![d].status = "running",
                                      ![d].start_authorized = TRUE,
                                      ![d].execution_deadline = now + ExecutionTimeout]
        BY <2>2, <3>1, <3>3
      <3>4. ASSUME NEW status, status # "absent", exec' = [exec EXCEPT ![d].status = status]
            PROVE  <2>4!:
        BY <2>2, <3>1, <3>4
      <3>5. \A status \in Outcomes \cup {"needs_attention"} : status # "absent"
        BY StoreAssumption DEF Terminal
      <3> QED
        BY <2>1, <3>2, <3>3, <3>4, <3>5
        DEF RenewClaim, AuthorizeStart, MarkInterrupted, FinishExecution
    <2> QED BY <1>f, <2>2, <2>3, <2>4, KindsAre DEF Grows, Fresh
  <1>3. CASE UserStep
    <2>1. /\ exec \in [Executions -> Execution]
          /\ work \in [Kinds -> [Executions -> WorkItem]]
          /\ "execute" \in Kinds /\ "expire_interrupt" \in Kinds
      BY <1>t, KindsAre DEF TypeOK
    <2>2. ASSUME NEW x \in Execution, NEW status
          PROVE  /\ [x EXCEPT !.status = status].start_authorized = x.start_authorized
                 /\ [x EXCEPT !.status = status].status = status
      BY DEF Execution
    <2>3. ASSUME NEW E, \A c \in E : exec[c].status = "absent", Insert(E)
          PROVE  Grows(e) /\ Fresh(e)'
      <3>1. CASE e \in E
        <4>1. exec'[e].status = "queued"
          BY <2>3, <3>1 DEF Insert, NewExecution
        <4>2. /\ ~exec[e].start_authorized
              /\ work["execute"][e].fence = 0
              /\ work["execute"][e].fence <= work'["execute"][e].fence
          <5>1. work'["execute"][e] = Opened(NoWork, now)
            BY <2>1, <2>3, <3>1 DEF Insert
          <5>2. Opened(NoWork, now).fence = 0
            BY DEF Opened, NoWork
          <5> QED BY <2>3, <3>1, <5>1, <5>2 DEF Fresh
        <4>3. work'["expire_interrupt"][e] = work["expire_interrupt"][e]
          BY <2>1, <2>3 DEF Insert
        <4> QED BY <1>f, <4>1, <4>2, <4>3, KindsAre DEF Grows, Fresh
      <3>2. CASE e \notin E
        BY <1>s, <2>1, <2>3, <3>2 DEF Insert
      <3> QED BY <3>1, <3>2
    <2>4. ASSUME NEW E, Cancel(E) PROVE Grows(e) /\ Fresh(e)'
      <3>1. CASE e \in E
        <4>1. exec'[e] = [exec[e] EXCEPT !.status = "cancelled"]
          BY <2>4, <3>1 DEF Cancel
        <4>2. \A k \in Kinds : work'[k][e].fence = work[k][e].fence
          <5>1. ASSUME NEW item \in WorkItem PROVE AllCompleted(item).fence = item.fence
            BY ClosedItems DEF AllCompleted
          <5>2. \A k \in Kinds : work'[k][e] = AllCompleted(work[k][e])
            BY <2>4, <3>1 DEF Cancel
          <5> QED BY <2>1, <5>1, <5>2
        <4> QED BY <1>t, <1>f, <2>2, <4>1, <4>2, KindsAre DEF Grows, Fresh
      <3>2. CASE e \notin E
        BY <1>s, <2>1, <2>4, <3>2 DEF Cancel
      <3> QED BY <3>1, <3>2
    <2>5. ASSUME NEW d \in Executions, NEW status, status # "absent",
                 exec' = [exec EXCEPT ![d].status = status], work' = work
          PROVE  Grows(e) /\ Fresh(e)'
      <3>1. CASE e = d
        BY <1>t, <1>f, <2>1, <2>2, <2>5, <3>1, KindsAre DEF Grows, Fresh
      <3>2. CASE e # d
        BY <1>s, <2>1, <2>5, <3>2
      <3> QED BY <3>1, <3>2
    <2>6. \A outcome \in Outcomes : outcome # "absent"
      BY StoreAssumption DEF Terminal
    <2> QED
      BY <1>3, <2>3, <2>4, <2>5, <2>6
      DEF UserStep, EnqueueExecution, MaterializeTask, DeleteTask, CancelExecution,
          RequestCancel, ResolveExecution
  <1>4. CASE Tick \/ UNCHANGED storeVars
    BY <1>4, <1>s DEF Tick, storeVars
  <1> QED BY <1>1, <1>2, <1>3, <1>4 DEF StoreNext

-----------------------------------------------------------------------------
\* The inductive invariant.  That the workers implement the Store needs what they
\* present: a claim that was issued, by the task of the right kind, with a status
\* the Store accepts.  That they invoke a target once needs that an invocation
\* leaves its trace in the Store, where it is never taken back.

Presents(t) ==
  /\ t.phase \in {"claimed", "running", "callback", "mark"} => t.kind = "execute"
  /\ t.phase \in {"settle", "stopped", "stopping", "cutting", "draining"} =>
       t.status \in Terminal \cup {"needs_attention"}

Issued(t) == t.fence \in 1..work[t.kind][t.execution].fence

SameClaim(t, u) == t.kind = u.kind /\ t.execution = u.execution /\ t.fence = u.fence

TasksSound ==
  /\ \A t \in tasks : t \in Task /\ Presents(t) /\ Issued(t)
  /\ \A t, u \in tasks : SameClaim(t, u) => t = u

Traced ==
  \A e \in Executions :
    invocations[e] = 0 \/ (invocations[e] = 1 /\ exec[e].start_authorized)

WorldTypes ==
  /\ engine \in [Workers -> {"running", "failed", "closing", "stopped"}]
  /\ alive \subseteq Executions
  /\ invocations \in [Executions -> Nat]
  /\ resolved \subseteq Executions
  /\ faults \in 0..MaxFaults

EInv ==
  /\ IInv
  /\ \A e \in Executions : Fresh(e)
  /\ TasksSound
  /\ Traced
  /\ WorldTypes

\* A claim that was issued stays issued.
LEMMA StaysIssued ==
  ASSUME TypeOK, NEW t \in Task, NEW u \in Task, Issued(t), SameClaim(t, u),
         TypeOK', Grows(t.execution)
  PROVE  Issued(u)'
  <1>1. /\ t.kind \in Kinds /\ t.execution \in Executions
        /\ t.fence = u.fence /\ u.kind = t.kind /\ u.execution = t.execution
    BY DEF Task, SameClaim
  <1>2. /\ work[t.kind][t.execution].fence \in Nat
        /\ work'[t.kind][t.execution].fence \in Nat
        /\ work[t.kind][t.execution].fence <= work'[t.kind][t.execution].fence
    BY <1>1 DEF TypeOK, WorkItem, Grows
  <1> QED BY <1>1, <1>2 DEF Issued

\* One task goes on, or ends.
LEMMA OneTaskMoves ==
  ASSUME TypeOK, TypeOK', TasksSound, \A e \in Executions : Grows(e),
         NEW t \in tasks, NEW u \in Task, SameClaim(t, u), Presents(u),
         tasks' \subseteq (tasks \ {t}) \cup {u}
  PROVE  TasksSound'
  <1>1. \A v \in tasks : v \in Task /\ Issued(v) /\ v.execution \in Executions
    BY DEF TasksSound, Task
  <1>2. ASSUME NEW v \in tasks'
        PROVE  v \in Task /\ Presents(v) /\ Issued(v)'
    <2>1. CASE v = u
      BY <1>1, <2>1, StaysIssued
    <2>2. CASE v \in tasks
      <3>1. SameClaim(v, v)
        BY DEF SameClaim
      <3> QED BY <1>1, <2>2, <3>1, StaysIssued DEF TasksSound
    <2> QED BY <2>1, <2>2
  <1>3. ASSUME NEW v \in tasks', NEW w \in tasks', SameClaim(v, w)
        PROVE  v = w
    BY <1>3 DEF TasksSound, SameClaim
  <1> QED BY <1>2, <1>3 DEF TasksSound, Presents, SameClaim

\* Marks on a task change neither its claim nor what it presents.
LEMMA Marked ==
  ASSUME TasksSound, NEW t \in tasks, NEW b \in BOOLEAN,
         NEW u, u \in {t, [t EXCEPT !.cancel_requested = b], [t EXCEPT !.owned = b]}
  PROVE  /\ t \in Task /\ Issued(t) /\ t.execution \in Executions
         /\ u \in Task /\ SameClaim(t, u) /\ Presents(u)
  <1>1. t \in Task /\ Issued(t) /\ Presents(t) /\ t.execution \in Executions
    BY DEF TasksSound, Task
  <1>3. ASSUME NEW r, r \in {[t EXCEPT !.cancel_requested = b], [t EXCEPT !.owned = b]}
        PROVE  r \in Task /\ SameClaim(t, r) /\ r.phase = t.phase /\ r.status = t.status
    BY <1>1, <1>3 DEF Task, SameClaim
  <1>4. SameClaim(t, t)
    BY DEF SameClaim
  <1>5. ASSUME NEW r, SameClaim(t, r), r.phase = t.phase, r.status = t.status
        PROVE  Presents(r)
    BY <1>1, <1>5 DEF Presents, SameClaim
  <1> QED BY <1>1, <1>3, <1>4, <1>5

LEMMA CancelMarks ==
  ASSUME TypeOK, TypeOK', TasksSound, \A e \in Executions : Grows(e), NEW M,
         tasks' = {IF t \in M THEN [t EXCEPT !.cancel_requested = TRUE] ELSE t : t \in tasks}
  PROVE  TasksSound'
  <1>1. ASSUME NEW v \in tasks'
        PROVE  v \in Task /\ Presents(v) /\ Issued(v)'
    <2>1. PICK t \in tasks : v \in {t, [t EXCEPT !.cancel_requested = TRUE]}
      OBVIOUS
    <2>2. t \in Task /\ Issued(t) /\ t.execution \in Executions
      BY Marked
    <2>3. v \in Task /\ SameClaim(t, v) /\ Presents(v)
      BY <2>1, Marked
    <2> QED BY <2>2, <2>3, StaysIssued
  <1>2. ASSUME NEW v \in tasks', NEW w \in tasks', SameClaim(v, w)
        PROVE  v = w
    <2>1. PICK t \in tasks : v = IF t \in M THEN [t EXCEPT !.cancel_requested = TRUE] ELSE t
      OBVIOUS
    <2>2. PICK u \in tasks : w = IF u \in M THEN [u EXCEPT !.cancel_requested = TRUE] ELSE u
      OBVIOUS
    <2>3. SameClaim(t, v) /\ SameClaim(u, w)
      BY <2>1, <2>2, Marked
    <2>4. t = u
      BY <1>2, <2>3 DEF SameClaim, TasksSound
    <2> QED BY <2>1, <2>2, <2>4
  <1> QED BY <1>1, <1>2 DEF TasksSound, Presents, SameClaim

\* A claim's new task carries the fence that was just issued, which no task had.
LEMMA NewTaskSound ==
  ASSUME TypeOK, TypeOK', ClaimWork, NEW w \in Workers, NEW i \in Selected
  PROVE  /\ i[1] \in Kinds /\ i[2] \in Executions
         /\ NewTask(w, i[1], i[2]) \in Task
         /\ NewTask(w, i[1], i[2]).kind = i[1]
         /\ NewTask(w, i[1], i[2]).execution = i[2]
         /\ NewTask(w, i[1], i[2]).fence = work[i[1]][i[2]].fence + 1
         /\ Presents(NewTask(w, i[1], i[2]))
         /\ NewTask(w, i[1], i[2]).fence \in 1..work'[i[1]][i[2]].fence
  <1>1. i[1] \in Kinds /\ i[2] \in Executions /\ i = <<i[1], i[2]>>
    BY DEF Selected, Selectable, Scanned, Due
  <1>2. PICK k \in Kinds, e \in Executions : i[1] = k /\ i[2] = e /\ <<k, e>> \in Selected
    BY <1>1
  <1>3. work'[k][e].fence = work[k][e].fence + 1 /\ work[k][e].fence \in Nat
    BY <1>2, RecoveredFence DEF ClaimWork, TypeOK, WorkItem
  <1> DEFINE n == NewTask(w, k, e)
  <1>4. /\ n.worker = w /\ n.kind = k /\ n.execution = e /\ n.fence = work'[k][e].fence
        /\ n.phase = IF k = "expire_interrupt" \/ e \in Unregistered THEN "settle" ELSE "claimed"
        /\ n.status = IF k = "expire_interrupt" THEN "timed_out"
                      ELSE IF e \in Unregistered THEN "failed" ELSE "queued"
    BY DEF NewTask
  <1>5. n \in Task
    BY <1>3 DEF NewTask, Task, Statuses, Terminal
  <1>6. Presents(n)
    BY <1>4, KindsAre DEF Presents, Terminal
  <1>7. n.fence \in 1..work'[k][e].fence
    BY <1>3, <1>4
  <1> QED BY <1>2, <1>3, <1>4, <1>5, <1>6, <1>7

LEMMA AdoptSound ==
  ASSUME TypeOK, TypeOK', TasksSound, \A e \in Executions : Grows(e),
         ClaimWork, NEW w \in Workers, Adopt(w)
  PROVE  TasksSound'
  <1> DEFINE Old == {t \in tasks : t.worker = w /\ \E i \in Selected : i[2] = t.execution}
             Remaining(t) == IF t \in Old THEN [t EXCEPT !.owned = FALSE] ELSE t
  <1>1. ASSUME NEW v \in tasks'
        PROVE  \/ \E t \in tasks : v = Remaining(t)
               \/ \E i \in Selected : v = NewTask(w, i[1], i[2])
    <2>1. \A t \in tasks :
            t \in Old <=> t.worker = w /\ \E i \in Selected : i[2] = t.execution
      OBVIOUS
    <2> HIDE DEF Old
    <2> QED BY <2>1 DEF Adopt
  <1>2. ASSUME NEW t \in tasks
        PROVE  /\ t \in Task /\ Issued(t) /\ t.execution \in Executions
               /\ Remaining(t) \in Task /\ SameClaim(t, Remaining(t)) /\ Presents(Remaining(t))
    BY Marked
  <1> HIDE DEF Remaining
  <1>3. ASSUME NEW v \in tasks'
        PROVE  v \in Task /\ Presents(v) /\ Issued(v)'
    <2>1. CASE \E t \in tasks : v = Remaining(t)
      BY <1>2, <2>1, StaysIssued
    <2>2. CASE \E i \in Selected : v = NewTask(w, i[1], i[2])
      <3>1. PICK i \in Selected : v = NewTask(w, i[1], i[2])
        BY <2>2
      <3>2. /\ v \in Task /\ Presents(v) /\ v.kind = i[1] /\ v.execution = i[2]
            /\ v.fence \in 1..work'[i[1]][i[2]].fence
        BY <3>1, NewTaskSound
      <3> QED BY <3>2 DEF Issued
    <2> QED BY <1>1, <2>1, <2>2
  <1>4. ASSUME NEW t \in tasks, NEW i \in Selected
        PROVE  ~SameClaim(Remaining(t), NewTask(w, i[1], i[2]))
    <2>1. t.fence <= work[t.kind][t.execution].fence /\ SameClaim(t, Remaining(t))
      BY <1>2 DEF Issued, Task
    <2>2. work[i[1]][i[2]].fence \in Nat
      BY NewTaskSound DEF TypeOK, WorkItem
    <2>3. /\ i[1] \in Kinds /\ i[2] \in Executions
          /\ NewTask(w, i[1], i[2]).kind = i[1]
          /\ NewTask(w, i[1], i[2]).execution = i[2]
          /\ NewTask(w, i[1], i[2]).fence = work[i[1]][i[2]].fence + 1
      BY NewTaskSound
    <2>4. SUFFICES ASSUME SameClaim(Remaining(t), NewTask(w, i[1], i[2])) PROVE FALSE
      OBVIOUS
    <2>5. t.kind = i[1] /\ t.execution = i[2] /\ t.fence = work[i[1]][i[2]].fence + 1
      BY <2>1, <2>3, <2>4 DEF SameClaim
    <2> QED BY <2>1, <2>2, <2>5
  <1>5. ASSUME NEW v \in tasks', NEW u \in tasks', SameClaim(v, u)
        PROVE  v = u
    <2>1. CASE \E t \in tasks : v = Remaining(t)
      <3>1. PICK t \in tasks : v = Remaining(t)
        BY <2>1
      <3>2. PICK r \in tasks : u = Remaining(r)
        BY <1>1, <1>4, <1>5, <3>1
      <3> QED BY <1>2, <1>5, <3>1, <3>2 DEF SameClaim, TasksSound
    <2>2. CASE \E i \in Selected : v = NewTask(w, i[1], i[2])
      <3>1. PICK i \in Selected : v = NewTask(w, i[1], i[2])
        BY <2>2
      <3>2. SameClaim(u, v)
        BY <1>5 DEF SameClaim
      <3>3. PICK j \in Selected : u = NewTask(w, j[1], j[2])
        BY <1>1, <1>4, <3>1, <3>2
      <3> QED BY <1>5, <3>1, <3>3, NewTaskSound DEF SameClaim
    <2> QED BY <1>1, <2>1, <2>2
  <1> QED BY <1>3, <1>5 DEF TasksSound, Presents, SameClaim

-----------------------------------------------------------------------------
\* Every step of the workers is a step of the Store's contract, or none.

LEMMA ClaimSteps ==
  ASSUME EInv, NEW t \in tasks
  PROVE  /\ RenewClaim(t.kind, t.execution, t.fence) => ClaimStep
         /\ t.phase = "claimed" /\ AuthorizeStart(t.execution, t.fence) => ClaimStep
         /\ MarkInterrupted(t.kind, t.execution, t.fence) => ClaimStep
         /\ t.phase \in {"settle", "stopped"}
              /\ FinishExecution(t.kind, t.execution, t.fence, t.status) => ClaimStep
  <1>1. /\ t.kind \in Kinds /\ t.execution \in Executions
        /\ t.fence \in 1..work[t.kind][t.execution].fence
        /\ Presents(t)
    BY DEF EInv, TasksSound, Task, Issued
  <1>2. PICK k \in Kinds, e \in Executions :
          /\ t.kind = k /\ t.execution = e
          /\ t.fence \in 1..work[k][e].fence
    BY <1>1
  <1>3. t.phase = "claimed" => k = "execute"
    BY <1>1, <1>2 DEF Presents
  <1>4. t.phase \in {"settle", "stopped"} => t.status \in Outcomes \cup {"needs_attention"}
    BY <1>1, EngineAssumption DEF Presents
  <1>5. RenewClaim(k, e, t.fence) => ClaimStep
    BY <1>2 DEF ClaimStep
  <1>6. k = "execute" /\ AuthorizeStart(e, t.fence) => ClaimStep
    BY <1>2 DEF ClaimStep
  <1>7. MarkInterrupted(k, e, t.fence) => ClaimStep
    BY <1>2 DEF ClaimStep
  <1>8. t.phase \in {"settle", "stopped"} /\ FinishExecution(k, e, t.fence, t.status) => ClaimStep
    BY <1>2, <1>4 DEF ClaimStep
  <1> QED BY <1>2, <1>3, <1>5, <1>6, <1>7, <1>8

LEMMA Implements ==
  ASSUME EInv, [EngineNext]_vars
  PROVE  [StoreNext]_storeVars
  <1>1. ASSUME NEW w \in Workers,
               \/ Dispatch(w) \/ Reap(w) \/ DispatchFails(w) \/ Crash(w)
               \/ Close(w) \/ Closed(w) \/ Restart(w)
        PROVE  [StoreNext]_storeVars
    BY <1>1 DEF Dispatch, Reap, DispatchFails, Crash, Close, Closed, Restart, StoreNext
  <1>2. ASSUME NEW t \in tasks, EngineStep(t)
        PROVE  [StoreNext]_storeVars
    BY <1>2, ClaimSteps
    DEF EngineStep, Start, StartRefused, TargetCancelled, TargetTimesOut, Stop,
        CallbackCut, Renew, RenewRefused, Finish, Mark, SettleRefused, StoreNext
  <1>3. ASSUME NEW t \in tasks,
               HostStep(t) \/ StoreCallFails(t) \/ CleanupFails(t) \/ DrainCancel(t)
        PROVE  [StoreNext]_storeVars
    BY <1>3, ClaimSteps
    DEF HostStep, TargetReturns, CallbackReturns, ChildJoined, StoreCallFails, CleanupFails,
        DrainCancel, StoreNext
  <1>4. ASSUME NEW e \in Executions,
               \/ Enqueue(e) \/ UserResolve(e)
               \/ \E w \in Workers : UserCancel(w, e)
        PROVE  [StoreNext]_storeVars
    BY <1>4 DEF Enqueue, UserResolve, UserCancel, StoreNext, UserStep
  <1>5. CASE Time \/ UNCHANGED vars
    BY <1>5 DEF Time, StoreNext, vars
  <1> QED BY <1>1, <1>2, <1>3, <1>4, <1>5 DEF EngineNext

-----------------------------------------------------------------------------
\* The invariant is inductive.

\* The ways in which one task goes on.
LEMMA TaskSteps ==
  ASSUME EInv, TypeOK', \A e \in Executions : Grows(e), NEW t \in tasks,
         EngineStep(t) \/ HostStep(t) \/ StoreCallFails(t) \/ CleanupFails(t) \/ DrainCancel(t)
  PROVE  TasksSound'
  <1>0. /\ TypeOK /\ TasksSound /\ t \in Task /\ Presents(t)
        /\ SameClaim(t, t)
    BY DEF EInv, IInv, TasksSound, SameClaim
  <1>1. ASSUME NEW p \in {"running", "callback", "mark", "giving_up", "settle", "stopped"},
               Goes(t, p),
               p \in {"running", "callback", "mark"} => t.kind = "execute",
               p \in {"settle", "stopped"} => t.status \in Terminal \cup {"needs_attention"}
        PROVE  TasksSound'
    <2> DEFINE u == [t EXCEPT !.phase = p]
    <2>1. u \in Task /\ SameClaim(t, u) /\ u.phase = p /\ u.status = t.status
      BY <1>0 DEF Task, SameClaim, Joining
    <2>2. Presents(u)
      BY <1>1, <2>1 DEF Presents, SameClaim
    <2>3. tasks' = (tasks \ {t}) \cup {u}
      BY <1>1 DEF Goes, Becomes
    <2> HIDE DEF u
    <2> QED BY <1>0, <2>1, <2>2, <2>3, OneTaskMoves
  <1>2. ASSUME NEW p \in {"settle", "stopping", "cutting", "draining"},
               NEW status \in Terminal \cup {"needs_attention"}, Decides(t, p, status)
        PROVE  TasksSound'
    <2> DEFINE u == [t EXCEPT !.phase = p, !.status = status]
    <2>1. u \in Task /\ SameClaim(t, u) /\ u.phase = p /\ u.status = status
      BY <1>0 DEF Task, SameClaim, Statuses, Joining
    <2>2. Presents(u)
      BY <2>1 DEF Presents
    <2>3. tasks' = (tasks \ {t}) \cup {u}
      BY <1>2 DEF Decides, Becomes
    <2> HIDE DEF u
    <2> QED BY <1>0, <2>1, <2>2, <2>3, OneTaskMoves
  <1>3. ASSUME NEW failed, Becomes(t, Ended(t, failed)) \/ Becomes(t, {})
        PROVE  TasksSound'
    <2> DEFINE u == [t EXCEPT !.phase = "failed"]
    <2>1. u \in Task /\ SameClaim(t, u) /\ u.phase = "failed"
      BY <1>0 DEF Task, SameClaim
    <2>2. Presents(u)
      BY <2>1 DEF Presents
    <2>3. tasks' \subseteq (tasks \ {t}) \cup {u}
      BY <1>3 DEF Becomes, Ended
    <2> HIDE DEF u
    <2> QED BY <1>0, <2>1, <2>2, <2>3, OneTaskMoves
  <1>4. ASSUME tasks' = tasks PROVE TasksSound'
    BY <1>0, <1>4, OneTaskMoves
  <1>5. CASE Start(t) \/ TargetReturns(t) \/ CallbackReturns(t)
    <2>1. t.kind = "execute"
      BY <1>0, <1>5 DEF Start, TargetReturns, CallbackReturns, Presents
    <2> QED
      BY <1>1, <1>2, <1>5, <2>1
      DEF Start, TargetReturns, CallbackReturns, Settles, Terminal
  <1>6. CASE TargetCancelled(t) \/ TargetTimesOut(t) \/ CallbackCut(t)
    BY <1>2, <1>6
    DEF TargetCancelled, TargetTimesOut, CallbackCut, Stop, Settles, Terminal
  <1>7. CASE StartRefused(t) \/ RenewRefused(t) \/ Finish(t) \/ Mark(t) \/ SettleRefused(t)
             \/ StoreCallFails(t)
    BY <1>1, <1>3, <1>7
    DEF StartRefused, RenewRefused, Finish, Mark, SettleRefused, StoreCallFails
  <1>8. CASE Renew(t)
    BY <1>4, <1>8 DEF Renew
  <1>9. CASE DrainCancel(t)
    BY <1>2, <1>3, <1>9 DEF DrainCancel, Settles
  <1>10. CASE ChildJoined(t) \/ CleanupFails(t)
    BY <1>0, <1>1, <1>3, <1>10 DEF ChildJoined, CleanupFails, Presents
  <1> QED BY <1>5, <1>6, <1>7, <1>8, <1>9, <1>10 DEF EngineStep, HostStep

LEMMA TasksInductive ==
  ASSUME EInv, TypeOK', \A e \in Executions : Grows(e), [EngineNext]_vars
  PROVE  TasksSound'
  <1>0. TypeOK /\ TasksSound
    BY DEF EInv, IInv
  <1>1. ASSUME tasks' \subseteq tasks PROVE TasksSound'
    <2>1. ASSUME NEW v \in tasks'
          PROVE  v \in Task /\ Presents(v) /\ Issued(v)'
      <3>1. v \in Task /\ Presents(v) /\ Issued(v) /\ SameClaim(v, v) /\ v.execution \in Executions
        BY <1>0, <1>1 DEF TasksSound, SameClaim, Task
      <3> QED BY <1>0, <3>1, StaysIssued
    <2> QED BY <1>0, <1>1, <2>1 DEF TasksSound, Presents, SameClaim
  <1>2. ASSUME NEW w \in Workers,
               \/ Reap(w) \/ DispatchFails(w) \/ Crash(w)
               \/ Close(w) \/ Closed(w) \/ Restart(w)
        PROVE  TasksSound'
    BY <1>1, <1>2 DEF Reap, DispatchFails, Crash, Close, Closed, Restart
  <1>3. ASSUME NEW w \in Workers, Dispatch(w)
        PROVE  TasksSound'
    BY <1>0, <1>3, AdoptSound DEF Dispatch
  <1>4. ASSUME NEW e \in Executions, NEW w \in Workers, UserCancel(w, e)
        PROVE  TasksSound'
    <2> DEFINE M == {t \in Owned(w) : t.execution = e}
    <2>1. CASE tasks' = {IF t \in Owned(w) /\ t.execution = e
                        THEN [t EXCEPT !.cancel_requested = TRUE] ELSE t : t \in tasks}
      <3>1. tasks' = {IF t \in M THEN [t EXCEPT !.cancel_requested = TRUE] ELSE t : t \in tasks}
        BY <2>1
      <3> HIDE DEF M
      <3> QED BY <1>0, <3>1, CancelMarks
    <2>2. CASE tasks' = tasks
      BY <1>1, <2>2
    <2> QED BY <1>4, <2>1, <2>2 DEF UserCancel
  <1>5. CASE \E e \in Executions : Enqueue(e) \/ UserResolve(e)
    BY <1>1, <1>5 DEF Enqueue, UserResolve, engineVars
  <1>6. CASE Time \/ UNCHANGED vars
    BY <1>1, <1>6 DEF Time, vars, engineVars
  <1> QED BY <1>2, <1>3, <1>4, <1>5, <1>6, TaskSteps DEF EngineNext

LEMMA TracedInductive ==
  ASSUME EInv, \A e \in Executions : Grows(e), [EngineNext]_vars
  PROVE  Traced'
  <1>0. Traced /\ invocations \in [Executions -> Nat]
    BY DEF EInv, WorldTypes
  <1>1. ASSUME invocations' = invocations PROVE Traced'
    BY <1>0, <1>1 DEF Traced, Grows
  <1>2. ASSUME NEW t \in tasks, Start(t) PROVE Traced'
    <2>1. t.execution \in Executions
      BY DEF EInv, TasksSound, Task
    <2>2. PICK d \in Executions : d = t.execution
      BY <2>1
    <2>3. /\ ~exec[d].start_authorized
          /\ invocations' = [invocations EXCEPT ![d] = @ + 1]
      BY <1>2, <2>2 DEF Start, AuthorizeStart
    <2>4. exec'[d].start_authorized
      <3>1. exec[d] \in Execution /\ exec \in [Executions -> Execution]
        BY DEF EInv, IInv, TypeOK
      <3>2. exec' = [exec EXCEPT ![d].status = "running", ![d].start_authorized = TRUE,
                                 ![d].execution_deadline = now + ExecutionTimeout]
        BY <1>2, <2>2 DEF Start, AuthorizeStart
      <3>3. ASSUME NEW x \in Execution, NEW n
            PROVE  [x EXCEPT !.status = "running", !.start_authorized = TRUE,
                             !.execution_deadline = n].start_authorized = TRUE
        BY DEF Execution
      <3>4. exec'[d] = [exec[d] EXCEPT !.status = "running", !.start_authorized = TRUE,
                                       !.execution_deadline = now + ExecutionTimeout]
        BY <3>1, <3>2
      <3> QED BY <3>1, <3>3, <3>4
    <2>5. invocations[d] = 0
      BY <1>0, <2>3 DEF Traced
    <2> QED BY <1>0, <2>3, <2>4, <2>5 DEF Traced, Grows
  <1>3. ASSUME NEW t \in tasks,
               \/ EngineStep(t) \/ HostStep(t) \/ StoreCallFails(t)
               \/ CleanupFails(t) \/ DrainCancel(t)
        PROVE  Traced'
    BY <1>1, <1>2, <1>3
    DEF EngineStep, HostStep, StartRefused, TargetCancelled, TargetTimesOut, Stop,
        TargetReturns, CallbackReturns, ChildJoined, CallbackCut, Renew, RenewRefused,
        Finish, Mark, SettleRefused, StoreCallFails, CleanupFails, DrainCancel, KeepWorld
  <1>4. ASSUME NEW w \in Workers,
               \/ Dispatch(w) \/ Reap(w) \/ DispatchFails(w) \/ Crash(w)
               \/ Close(w) \/ Closed(w) \/ Restart(w)
               \/ \E e \in Executions : UserCancel(w, e)
        PROVE  Traced'
    BY <1>1, <1>4
    DEF Dispatch, Reap, DispatchFails, Crash, Close, Closed, Restart, UserCancel
  <1>5. CASE Time \/ UNCHANGED vars \/ \E e \in Executions : Enqueue(e) \/ UserResolve(e)
    BY <1>1, <1>5 DEF Time, vars, engineVars, Enqueue, UserResolve
  <1> QED BY <1>3, <1>4, <1>5 DEF EngineNext

LEMMA WorldInductive ==
  ASSUME EInv, [EngineNext]_vars
  PROVE  WorldTypes'
  <1>0. WorldTypes /\ \A t \in tasks : t.execution \in Executions
    BY DEF EInv, TasksSound, Task
  <1>1. ASSUME NEW t \in tasks, EngineStep(t) \/ HostStep(t)
        PROVE  WorldTypes'
    <2>1. CASE Start(t)
      BY <1>0, <2>1 DEF Start, WorldTypes
    <2>2. CASE UNCHANGED <<engine, invocations, resolved, faults>>
               /\ alive' \subseteq alive
      BY <1>0, <2>2 DEF WorldTypes
    <2> QED
      BY <1>1, <2>1, <2>2
      DEF EngineStep, HostStep, StartRefused, TargetCancelled, TargetTimesOut, Stop,
          TargetReturns, CallbackReturns, ChildJoined, CallbackCut, Renew, RenewRefused,
          Finish, Mark, SettleRefused, KeepWorld, AfterCancel
  <1>2. ASSUME NEW t \in tasks, StoreCallFails(t) \/ CleanupFails(t) \/ DrainCancel(t)
        PROVE  WorldTypes'
    <2>1. alive' = alive /\ UNCHANGED <<engine, invocations, resolved>>
      BY <1>2 DEF StoreCallFails, CleanupFails, DrainCancel, KeepWorld
    <2>2. faults' \in 0..MaxFaults
      <3>1. faults \in 0..MaxFaults
        BY <1>0 DEF WorldTypes
      <3>2. (faults < MaxFaults /\ faults' = faults + 1) \/ faults' = faults
        BY <1>2 DEF StoreCallFails, CleanupFails, DrainCancel, KeepWorld, Fault
      <3> QED BY <3>1, <3>2, EngineAssumption
    <2> QED BY <1>0, <2>1, <2>2 DEF WorldTypes
  <1>3. ASSUME NEW w \in Workers,
               \/ Dispatch(w) \/ Reap(w) \/ DispatchFails(w) \/ Crash(w)
               \/ Close(w) \/ Closed(w) \/ Restart(w)
               \/ \E e \in Executions : UserCancel(w, e)
        PROVE  WorldTypes'
    BY <1>0, <1>3, EngineAssumption
    DEF Dispatch, Reap, DispatchFails, Crash, Close, Closed, Restart, UserCancel, Fault,
        WorldTypes
  <1>4. CASE Time \/ UNCHANGED vars \/ \E e \in Executions : Enqueue(e) \/ UserResolve(e)
    BY <1>0, <1>4 DEF Time, vars, engineVars, Enqueue, UserResolve, WorldTypes
  <1> QED BY <1>1, <1>2, <1>3, <1>4 DEF EngineNext

LEMMA EInvInductive == EInv /\ [EngineNext]_vars => EInv'
  <1> SUFFICES ASSUME EInv, [EngineNext]_vars PROVE EInv'
    OBVIOUS
  <1>1. IInv /\ [StoreNext]_storeVars
    BY Implements DEF EInv
  <1>2. IInv' /\ TypeOK'
    BY <1>1, IInvInductive DEF IInv
  <1>3. \A e \in Executions : Grows(e) /\ Fresh(e)'
    BY <1>1, StoreGrows DEF EInv
  <1> QED
    BY <1>2, <1>3, TasksInductive, TracedInductive, WorldInductive DEF EInv

LEMMA EInvInitially == EngineInit => EInv
  <1> SUFFICES ASSUME EngineInit PROVE EInv
    OBVIOUS
  <1>1. IInv
    BY InitType, InitCoherent DEF EngineInit, IInv
  <1>2. \A e \in Executions : Fresh(e)
    <2>1. NoExecution.start_authorized = FALSE /\ NoWork.fence = 0
      BY DEF NoExecution, NoWork
    <2>2. ASSUME NEW e \in Executions
          PROVE  exec[e] = NoExecution /\ work["execute"][e] = NoWork
      BY KindsAre DEF EngineInit, StoreInit
    <2> QED BY <2>1, <2>2 DEF Fresh
  <1>3. TasksSound
    BY DEF EngineInit, TasksSound
  <1>4. Traced
    BY DEF EngineInit, Traced
  <1>5. WorldTypes
    BY EngineAssumption DEF EngineInit, WorldTypes
  <1> QED BY <1>1, <1>2, <1>3, <1>4, <1>5 DEF EInv

LEMMA EInvHolds == EngineSpec => []EInv
  BY EInvInitially, EInvInductive, PTL DEF EngineSpec

-----------------------------------------------------------------------------
\* Results.

\* Engines implement the Store's contract: whatever they claim, renew, start,
\* finish, lose or abandon, they change the Store only by its own operations, and
\* so every theorem about the Store holds for any number of workers.
THEOREM EnginesImplementStore == EngineSpec => StoreSpec
  <1>1. EngineInit => StoreInit
    BY DEF EngineInit
  <1>2. EInv /\ [EngineNext]_vars => [StoreNext]_storeVars
    BY Implements
  <1> QED BY <1>1, <1>2, EInvHolds, PTL DEF EngineSpec, StoreSpec

\* The engines' tasks and bookkeeping keep their types.
THEOREM EngineTypeCorrect == EngineSpec => []EngineTypeOK
  <1>1. EInv => EngineTypeOK
    BY DEF EInv, IInv, TasksSound, WorldTypes, EngineTypeOK
  <1> QED BY <1>1, EInvHolds, PTL

\* No execution's target is ever invoked twice, however many engines run, crash,
\* restart, lose leases or have Store calls fail after they committed.
THEOREM TargetInvokedOnce == EngineSpec => []InvokedOnce
  <1>1. EInv => InvokedOnce
    BY DEF EInv, Traced, InvokedOnce
  <1> QED BY <1>1, EInvHolds, PTL

\* At any time at most one task of all engines holds a good claim of a work item.
THEOREM ClaimsExclude == EngineSpec => []OneHolder
  <1>1. EInv => OneHolder
    BY DEF EInv, TasksSound, SameClaim, OneHolder, Holds, ValidClaim
  <1> QED BY <1>1, EInvHolds, PTL

-----------------------------------------------------------------------------
\* Reserved capacity bounds what really runs.  While the external work of an
\* execution may be going on, its execution is unsettled and the one task whose
\* claim could settle it is still waiting, or will report the uncertainty.

Unsettled == {"running", "cancel_requested", "needs_attention"}

Current(t) ==
  /\ t.kind = "execute"
  /\ work["execute"][t.execution].status = "claimed"
  /\ work["execute"][t.execution].fence = t.fence

Cautious(t) ==
  \/ t.phase \in {"running", "giving_up", "failed"}
  \/ t.phase = "stopping" /\ t.execution \in FinalCancel
  \/ t.phase \in {"stopping", "draining", "settle", "stopped"} /\ t.status = "needs_attention"

AliveGuarded ==
  \A e \in alive \ resolved :
    /\ exec[e].status \in Unsettled
    /\ \A t \in tasks : t.execution = e /\ Current(t) => Cautious(t)

\* An unsettled execution is never claimed anew.
LEMMA NoNewClaim ==
  ASSUME IInv, [StoreNext]_storeVars, NEW e \in Executions,
         exec[e].status \in Unsettled, work'["execute"][e].status = "claimed"
  PROVE  /\ work["execute"][e].status = "claimed"
         /\ work'["execute"][e].fence = work["execute"][e].fence
  <1>t. /\ TypeOK /\ work["execute"][e] \in WorkItem
        /\ work \in [Kinds -> [Executions -> WorkItem]] /\ "execute" \in Kinds
    BY Fields, KindsAre DEF IInv, TypeOK
  <1>u. exec[e].status \notin {"queued", "absent", "interrupted"}
    BY DEF Unsettled
  <1>i. ASSUME NEW item \in WorkItem, NEW n
        PROVE  /\ Completed(item).status # "claimed"
               /\ AllCompleted(item).status # "claimed"
               /\ [item EXCEPT !.lease_until = n].status = item.status
               /\ [item EXCEPT !.lease_until = n].fence = item.fence
    BY DEF Completed, AllCompleted, WorkItem
  <1>c. /\ Completed(work["execute"][e]).status # "claimed"
        /\ AllCompleted(work["execute"][e]).status # "claimed"
    BY <1>t, <1>i
  <1>1. CASE ClaimWork
    <2>1. work'["execute"][e] = RecoveredItem("execute", e)
      BY <1>1, <1>t, <1>u, ClaimedItems DEF ClaimWork
    <2> QED BY <2>1, RecoveryCoherent
  <1>2. CASE ClaimStep
    <2>1. PICK d \in Executions, k \in Kinds, f \in Int :
            \/ RenewClaim(k, d, f)
            \/ AuthorizeStart(d, f)
            \/ MarkInterrupted(k, d, f)
            \/ \E status \in Outcomes \cup {"needs_attention"} : FinishExecution(k, d, f, status)
      BY <1>2 DEF ClaimStep
    <2>2. CASE RenewClaim(k, d, f)
      <3>1. work'["execute"][e] \in
              {work["execute"][e], [work["execute"][e] EXCEPT !.lease_until = now + LeaseDuration]}
        BY <1>t, <2>2 DEF RenewClaim
      <3>2. PICK n : n = now + LeaseDuration
        OBVIOUS
      <3>3. /\ [work["execute"][e] EXCEPT !.lease_until = n].status = work["execute"][e].status
            /\ [work["execute"][e] EXCEPT !.lease_until = n].fence = work["execute"][e].fence
        BY <1>t, <1>i
      <3> QED BY <3>1, <3>2, <3>3
    <2>3. CASE AuthorizeStart(d, f)
      BY <2>3 DEF AuthorizeStart
    <2>4. CASE MarkInterrupted(k, d, f)
      <3>1. work'["execute"][e] \in {work["execute"][e], Completed(work["execute"][e])}
        BY <1>t, <2>4 DEF MarkInterrupted
      <3> QED BY <1>c, <3>1
    <2>5. CASE \E status \in Outcomes \cup {"needs_attention"} : FinishExecution(k, d, f, status)
      <3>1. work'["execute"][e] \in {work["execute"][e], AllCompleted(work["execute"][e])}
        BY <1>t, <2>5 DEF FinishExecution
      <3> QED BY <1>c, <3>1
    <2> QED BY <2>1, <2>2, <2>3, <2>4, <2>5
  <1>3. CASE UserStep
    <2>1. ASSUME NEW E, \A c \in E : exec[c].status = "absent", Insert(E)
          PROVE  work'["execute"][e] = work["execute"][e]
      BY <1>t, <1>u, <2>1 DEF Insert
    <2>2. ASSUME NEW E, Cancel(E)
          PROVE  work'["execute"][e] = work["execute"][e]
      <3>1. work'["execute"][e] \in {work["execute"][e], AllCompleted(work["execute"][e])}
        BY <1>t, <2>2 DEF Cancel
      <3> QED BY <1>c, <3>1
    <2>3. work'["execute"][e] = work["execute"][e]
      BY <1>3, <2>1, <2>2
      DEF UserStep, EnqueueExecution, MaterializeTask, DeleteTask, CancelExecution,
          RequestCancel, ResolveExecution
    <2> QED BY <2>3
  <1>4. CASE Tick \/ UNCHANGED storeVars
    BY <1>4 DEF Tick, storeVars
  <1> QED BY <1>1, <1>2, <1>3, <1>4 DEF StoreNext

\* The status of an execution whose external work may be going on.
LEMMA StaysUnsettled ==
  ASSUME EInv, AliveGuarded, [EngineNext]_vars,
         NEW e \in alive \ resolved, e \notin resolved'
  PROVE  exec'[e].status \in Unsettled
  <1>0. /\ TypeOK /\ CoherentAt(e) /\ e \in Executions
        /\ exec \in [Executions -> Execution] /\ exec[e].status \in Unsettled
    BY DEF EInv, IInv, WorldTypes, TypeOK, AliveGuarded
  <1>1. exec[e].status \notin {"queued", "absent", "interrupted"}
    BY <1>0 DEF Unsettled
  <1>2. ASSUME NEW x \in Execution, NEW status
        PROVE  [x EXCEPT !.status = status].status = status
    BY DEF Execution
  <1>3. ASSUME NEW d \in Executions, NEW status,
               d = e => status \in Unsettled,
               exec' = [exec EXCEPT ![d].status = status]
        PROVE  exec'[e].status \in Unsettled
    BY <1>0, <1>2, <1>3
  <1>4. CASE ClaimWork
    <2>1. exec'[e] = [exec[e] EXCEPT !.status = IF e \in QueueTimeouts THEN "timed_out"
                                               ELSE RecoveredStatus(e)]
      BY <1>0, <1>4 DEF ClaimWork, ClaimedExec
    <2>2. e \notin QueueTimeouts
      BY <1>0, <1>1, ClaimedItems DEF EInv
    <2>3. RecoveredStatus(e) \in Unsettled
      BY <1>0 DEF RecoveredStatus, Unsettled
    <2> QED BY <1>0, <1>2, <2>1, <2>2, <2>3
  <1>5. CASE exec' = exec
    BY <1>0, <1>5
  <1>6. ASSUME NEW t \in tasks,
               \/ EngineStep(t) \/ HostStep(t) \/ StoreCallFails(t)
               \/ CleanupFails(t) \/ DrainCancel(t)
        PROVE  exec'[e].status \in Unsettled
    <2>0. /\ t \in Task /\ Presents(t) /\ t.kind \in Kinds /\ t.execution \in Executions
          /\ t.execution = e /\ Current(t) => Cautious(t)
      BY DEF EInv, TasksSound, Task, AliveGuarded
    <2>1. CASE AuthorizeStart(t.execution, t.fence)
      <3>1. t.execution # e
        BY <1>1, <2>1 DEF AuthorizeStart
      <3> QED BY <1>0, <2>1, <3>1 DEF AuthorizeStart
    <2>2. CASE t.phase = "mark" /\ MarkInterrupted(t.kind, t.execution, t.fence)
      <3>1. t.execution # e
        BY <2>0, <2>2 DEF MarkInterrupted, ValidClaim, Current, Cautious, Presents
      <3> QED BY <1>0, <2>0, <2>2, <3>1 DEF MarkInterrupted
    <2>3. CASE /\ t.phase \in {"settle", "stopped"}
               /\ FinishExecution(t.kind, t.execution, t.fence, t.status)
      <3>1. CASE t.execution # e
        BY <1>0, <2>0, <2>3, <3>1 DEF FinishExecution
      <3>2. CASE t.execution = e
        <4>1. t.kind = "execute"
          BY <1>0, <1>1, <2>0, <2>3, <3>2, KindsAre
          DEF FinishExecution, ValidClaim, CoherentAt, Coherent, Open
        <4>2. Current(t)
          BY <2>3, <3>2, <4>1 DEF FinishExecution, ValidClaim, Current
        <4>3. t.status = "needs_attention"
          BY <2>0, <2>3, <3>2, <4>2 DEF Cautious
        <4> QED BY <1>0, <1>3, <2>3, <3>2, <4>3 DEF FinishExecution, Unsettled
      <3> QED BY <3>1, <3>2
    <2>4. \/ AuthorizeStart(t.execution, t.fence)
          \/ t.phase = "mark" /\ MarkInterrupted(t.kind, t.execution, t.fence)
          \/ /\ t.phase \in {"settle", "stopped"}
             /\ FinishExecution(t.kind, t.execution, t.fence, t.status)
          \/ exec' = exec
      BY <1>6
      DEF EngineStep, HostStep, Start, StartRefused, TargetCancelled, TargetTimesOut, Stop,
          TargetReturns, CallbackReturns, ChildJoined, CallbackCut, Renew, RenewClaim,
          RenewRefused, Finish, Mark, SettleRefused, StoreCallFails, CleanupFails,
          DrainCancel, storeVars
    <2> QED BY <1>5, <2>1, <2>2, <2>3, <2>4
  <1>7. ASSUME NEW d \in Executions, Enqueue(d) PROVE exec'[e].status \in Unsettled
    <2>1. d # e
      BY <1>1, <1>7 DEF Enqueue, EnqueueExecution
    <2> QED BY <1>0, <1>7, <2>1 DEF Enqueue, EnqueueExecution, Insert
  <1>8. ASSUME NEW d \in Executions, UserResolve(d) PROVE exec'[e].status \in Unsettled
    <2>1. d # e
      BY <1>8 DEF UserResolve
    <2> QED BY <1>0, <1>8, <2>1 DEF UserResolve, ResolveExecution
  <1>9. ASSUME NEW d \in Executions, NEW w \in Workers, UserCancel(w, d)
        PROVE  exec'[e].status \in Unsettled
    <2>1. CASE exec[d].status \in {"queued", "interrupted"} /\ Cancel({d})
      BY <1>0, <1>1, <2>1 DEF Cancel
    <2>2. CASE RequestCancel(d)
      BY <1>3, <2>2 DEF RequestCancel, Unsettled
    <2> QED BY <1>5, <1>9, <2>1, <2>2 DEF UserCancel, CancelExecution, storeVars
  <1> QED
    BY <1>4, <1>5, <1>6, <1>7, <1>8, <1>9
    DEF EngineNext, Dispatch, Reap, DispatchFails, Crash, Close, Closed, Restart, Time, Tick,
        vars, storeVars

\* External work begins with a start, and a resolution is never taken back.
LEMMA AliveBefore ==
  ASSUME [EngineNext]_vars, NEW e \in alive' \ resolved',
         ~\E d \in tasks : Start(d) /\ d.execution = e
  PROVE  e \in alive \ resolved
  <1>1. resolved \subseteq resolved'
    BY DEF EngineNext, EngineStep, HostStep, Start, StartRefused, TargetCancelled,
       TargetTimesOut, Stop, TargetReturns, CallbackReturns, ChildJoined, CallbackCut, Renew,
       RenewRefused, Finish, Mark, SettleRefused, StoreCallFails, CleanupFails,
       DrainCancel, KeepWorld,
       Dispatch, Reap, DispatchFails, Crash, Close, Closed, Restart, Enqueue, UserCancel,
       UserResolve, Time, vars, engineVars
  <1>2. alive' \subseteq alive \cup {d.execution : d \in {t \in tasks : Start(t)}}
    BY DEF EngineNext, EngineStep, HostStep, Start, StartRefused, TargetCancelled,
       TargetTimesOut, Stop, TargetReturns, CallbackReturns, ChildJoined, CallbackCut, Renew,
       RenewRefused, Finish, Mark, SettleRefused, StoreCallFails, CleanupFails,
       DrainCancel, KeepWorld,
       Dispatch, Reap, DispatchFails, Crash, Close, Closed, Restart, Enqueue, UserCancel,
       UserResolve, Time, vars, engineVars, AfterCancel
  <1> QED BY <1>1, <1>2

\* The task whose claim could settle such an execution.
LEMMA StaysCautious ==
  ASSUME EInv, AliveGuarded, [EngineNext]_vars,
         NEW e \in alive' \ resolved', NEW u \in tasks', u.execution = e, Current(u)'
  PROVE  Cautious(u)
  <1>0. /\ IInv /\ TypeOK /\ [StoreNext]_storeVars
        /\ \A t \in tasks : t \in Task /\ Presents(t) /\ t.execution \in Executions
        /\ \A t, v \in tasks : SameClaim(t, v) => t = v
        /\ u.kind = "execute" /\ work'["execute"][e].status = "claimed"
        /\ work'["execute"][e].fence = u.fence
    BY Implements DEF EInv, IInv, TasksSound, Task, Current
  <1>1. ASSUME NEW d \in tasks, Start(d), d.execution = e
        PROVE  Cautious(u)
    <2>1. /\ work' = work /\ work["execute"][e].fence = d.fence /\ d.kind = "execute"
          /\ tasks' = (tasks \ {d}) \cup {[d EXCEPT !.phase = "running"]}
      BY <1>0, <1>1 DEF Start, AuthorizeStart, ValidClaim, Goes, Becomes, Presents
    <2>2. u \notin tasks \ {d}
      BY <1>0, <1>1, <2>1 DEF SameClaim
    <2>3. [d EXCEPT !.phase = "running"].phase = "running"
      BY <1>0 DEF Task
    <2> QED BY <2>1, <2>2, <2>3 DEF Cautious
  <1>3. ASSUME e \in alive \ resolved, ~\E d \in tasks : Start(d) /\ d.execution = e
        PROVE  Cautious(u)
    <2>0. e \in Executions /\ exec[e].status \in Unsettled
      BY <1>3 DEF EInv, WorldTypes, AliveGuarded
    <2>1. /\ work["execute"][e].status = "claimed"
          /\ work["execute"][e].fence = u.fence
      BY <1>0, <2>0, NoNewClaim
    <2>2. ASSUME NEW t \in tasks, SameClaim(t, u)
          PROVE  Cautious(t) /\ t.execution = e
      BY <1>0, <1>3, <2>1, <2>2 DEF SameClaim, Current, AliveGuarded
    <2>3. CASE u \in tasks
      BY <2>2, <2>3 DEF SameClaim
    <2>4. ASSUME NEW t \in tasks, Becomes(t, Ended(t, TRUE)) \/ Becomes(t, Ended(t, FALSE))
                                     \/ Becomes(t, {})
          PROVE  Cautious(u)
      <3>1. [t EXCEPT !.phase = "failed"].phase = "failed"
        BY <1>0 DEF Task
      <3> QED BY <2>3, <2>4, <3>1 DEF Becomes, Ended, Cautious
    <2>5. ASSUME NEW t \in tasks, NEW p, NEW status, Decides(t, p, status), u \notin tasks
          PROVE  SameClaim(t, u) /\ u.phase = p /\ u.status = status
      <3>1. u = [t EXCEPT !.phase = p, !.status = status]
        BY <2>5 DEF Decides, Becomes
      <3> QED BY <1>0, <3>1 DEF SameClaim, Task
    <2>6. ASSUME NEW t \in tasks, NEW p, Goes(t, p), u \notin tasks
          PROVE  SameClaim(t, u) /\ u.phase = p /\ u.status = t.status
      <3>1. u = [t EXCEPT !.phase = p]
        BY <2>6 DEF Goes, Becomes
      <3> QED BY <1>0, <3>1 DEF SameClaim, Task
    <2>7. ASSUME NEW t \in tasks, Start(t) \/ TargetReturns(t) \/ CallbackReturns(t) \/ CallbackCut(t)
          PROVE  Cautious(u)
      <3> SUFFICES ASSUME u \notin tasks PROVE Cautious(u)
        BY <2>3
      <3>1. CASE Start(t)
        BY <1>3, <2>2, <2>6, <3>1 DEF Start
      <3>2. CASE TargetReturns(t)
        BY <2>2, <2>5, <2>6, <3>2 DEF TargetReturns, Settles, Cautious
      <3>3. CASE CallbackReturns(t) \/ CallbackCut(t)
        <4>1. SameClaim(t, u)
          BY <2>5, <2>6, <3>3 DEF CallbackReturns, CallbackCut, Settles
        <4> QED BY <2>2, <3>3, <4>1 DEF CallbackReturns, CallbackCut, Cautious
      <3> QED BY <2>7, <3>1, <3>2, <3>3
    <2>8. ASSUME NEW t \in tasks, TargetCancelled(t) \/ TargetTimesOut(t) \/ DrainCancel(t)
          PROVE  Cautious(u)
      <3> SUFFICES ASSUME u \notin tasks PROVE Cautious(u)
        BY <2>3
      <3>1. CASE DrainCancel(t)
        BY <2>4, <2>5, <3>1 DEF DrainCancel, Settles, Cautious
      <3>2. ASSUME NEW status, Stop(t, status), t.phase = "running"
            PROVE  Cautious(u)
        <4>1. SameClaim(t, u) /\ u.phase = "stopping"
          BY <2>5, <3>2 DEF Stop
        <4>2. t.execution \notin FinalCancel => u.status = "needs_attention"
          BY <2>5, <3>2 DEF Stop
        <4> QED BY <4>1, <4>2 DEF Cautious, SameClaim
      <3> QED BY <2>8, <3>1, <3>2 DEF TargetCancelled, TargetTimesOut
    <2>9. ASSUME NEW w \in Workers, Dispatch(w)
          PROVE  Cautious(u)
      <3>1. CASE \E i \in Selected : u = NewTask(w, i[1], i[2])
        <4>1. PICK i \in Selected : u = NewTask(w, i[1], i[2])
          BY <3>1
        <4>2. i[1] = "execute" /\ i[2] = e /\ i = <<i[1], i[2]>>
          BY <1>0, <4>1 DEF NewTask, Selected, Selectable, Scanned, Due
        <4>3. exec[e].status = "queued"
          BY <1>0, <2>0, <4>2, ClaimedItems
        <4> QED BY <2>0, <4>3 DEF Unsettled
      <3>2. CASE \E t \in tasks : u \in {t, [t EXCEPT !.owned = FALSE]}
        <4>1. PICK t \in tasks : u \in {t, [t EXCEPT !.owned = FALSE]}
          BY <3>2
        <4>2. SameClaim(t, u) /\ u.phase = t.phase /\ u.status = t.status
          BY <1>0, <4>1 DEF Task, SameClaim
        <4> QED BY <2>2, <4>2 DEF Cautious
      <3> QED BY <2>9, <3>1, <3>2 DEF Dispatch, Adopt
    <2>10. ASSUME NEW w \in Workers, NEW d \in Executions, UserCancel(w, d)
           PROVE  Cautious(u)
      <3>1. PICK t \in tasks : u \in {t, [t EXCEPT !.cancel_requested = TRUE]}
        BY <2>10 DEF UserCancel
      <3>2. SameClaim(t, u) /\ u.phase = t.phase /\ u.status = t.status
        BY <1>0, <3>1 DEF Task, SameClaim
      <3> QED BY <2>2, <3>2 DEF Cautious
    <2>11. ASSUME NEW t \in tasks,
                  \/ EngineStep(t) \/ HostStep(t) \/ StoreCallFails(t)
                  \/ CleanupFails(t) \/ DrainCancel(t)
           PROVE  Cautious(u)
      <3>1. CASE Renew(t)
        BY <2>3, <3>1 DEF Renew
      <3>2. ASSUME Goes(t, "giving_up") PROVE Cautious(u)
        BY <2>3, <2>6, <3>2 DEF Cautious
      <3>3. CASE StartRefused(t) \/ RenewRefused(t) \/ Finish(t) \/ Mark(t) \/ SettleRefused(t)
                 \/ StoreCallFails(t)
        BY <2>4, <3>2, <3>3
        DEF StartRefused, RenewRefused, Finish, Mark, SettleRefused, StoreCallFails
      <3>4. ASSUME NEW p \in {"settle", "stopped"}, Goes(t, p), t.phase \in {"cutting", "draining"}
            PROVE  Cautious(u)
        <4>1. CASE u \in tasks
          BY <2>3, <4>1
        <4>2. CASE u \notin tasks
          BY <2>2, <2>6, <3>4, <4>2 DEF Cautious
        <4> QED BY <4>1, <4>2
      <3>5. CASE ChildJoined(t) /\ t.phase = "stopping"
        <4>1. CASE u \in tasks
          BY <2>3, <4>1
        <4>2. CASE u \notin tasks
          <5>1. SameClaim(t, u) /\ u.phase = "stopped" /\ u.status = t.status
            BY <2>6, <3>5, <4>2 DEF ChildJoined
          <5>2. Cautious(t) /\ t.execution = e
            BY <2>2, <5>1
          <5>3. t.execution \notin FinalCancel
            BY <3>5, <5>2 DEF ChildJoined, AfterCancel
          <5> QED BY <3>5, <5>1, <5>2, <5>3 DEF Cautious
        <4> QED BY <4>1, <4>2
      <3>6. CASE ChildJoined(t) /\ t.phase # "stopping"
        BY <2>4, <3>4, <3>6 DEF ChildJoined
      <3>7. CASE CleanupFails(t)
        BY <2>4, <3>4, <3>7 DEF CleanupFails
      <3> QED BY <2>7, <2>8, <2>11, <3>1, <3>3, <3>5, <3>6, <3>7 DEF EngineStep, HostStep
    <2>12. ASSUME NEW w \in Workers,
                  \/ Reap(w) \/ DispatchFails(w) \/ Crash(w)
                  \/ Close(w) \/ Closed(w) \/ Restart(w)
           PROVE  Cautious(u)
      BY <2>3, <2>12 DEF Reap, DispatchFails, Crash, Close, Closed, Restart
    <2>13. CASE Time \/ UNCHANGED vars \/ \E d \in Executions : Enqueue(d) \/ UserResolve(d)
      BY <2>3, <2>13 DEF Time, vars, engineVars, Enqueue, UserResolve
    <2> QED BY <2>9, <2>10, <2>11, <2>12, <2>13 DEF EngineNext
  <1> QED BY <1>1, <1>3, AliveBefore

LEMMA AliveGuardedInductive == EInv /\ AliveGuarded /\ [EngineNext]_vars => AliveGuarded'
  <1> SUFFICES ASSUME EInv, AliveGuarded, [EngineNext]_vars, NEW e \in alive' \ resolved'
               PROVE  /\ exec'[e].status \in Unsettled
                      /\ \A t \in tasks' : t.execution = e /\ Current(t)' => Cautious(t)
    BY DEF AliveGuarded, Cautious
  <1>1. exec'[e].status \in Unsettled
    <2>1. ASSUME NEW d \in tasks, Start(d), d.execution = e
          PROVE  exec'[e].status \in Unsettled
      <3>1. exec \in [Executions -> Execution] /\ e \in Executions
        BY <2>1 DEF EInv, IInv, TypeOK, TasksSound, Task
      <3>2. exec' = [exec EXCEPT ![e].status = "running", ![e].start_authorized = TRUE,
                                 ![e].execution_deadline = now + ExecutionTimeout]
        BY <2>1 DEF Start, AuthorizeStart
      <3>3. ASSUME NEW x \in Execution, NEW n
            PROVE  [x EXCEPT !.status = "running", !.start_authorized = TRUE,
                             !.execution_deadline = n].status = "running"
        BY DEF Execution
      <3>4. exec'[e] = [exec[e] EXCEPT !.status = "running", !.start_authorized = TRUE,
                                       !.execution_deadline = now + ExecutionTimeout]
        BY <3>1, <3>2
      <3> QED BY <3>1, <3>3, <3>4 DEF Unsettled
    <2>2. CASE ~\E d \in tasks : Start(d) /\ d.execution = e
      <3>1. e \in alive \ resolved
        BY <2>2, AliveBefore
      <3> QED BY <3>1, StaysUnsettled
    <2> QED BY <2>1, <2>2
  <1> QED BY <1>1, StaysCautious

\* Work whose external completion is unconfirmed keeps its reservation until a
\* person resolves it, under any number of workers, crashes and failed calls.
THEOREM UnconfirmedKeepsReservation == EngineSpec => []UnconfirmedReserved
  <1>1. EngineInit => AliveGuarded
    BY DEF EngineInit, AliveGuarded
  <1>2. EInv /\ AliveGuarded => UnconfirmedReserved
    BY DEF EInv, IInv, WorldTypes, AliveGuarded, UnconfirmedReserved, Unsettled,
           CoherentAt, Coherent, InFlight
  <1> QED BY <1>1, <1>2, EInvHolds, AliveGuardedInductive, PTL DEF EngineSpec

=============================================================================
