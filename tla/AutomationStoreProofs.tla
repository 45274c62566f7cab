----------------------- MODULE AutomationStoreProofs -----------------------
(***************************************************************************)
(* Proofs about AutomationStore, for every set of executions and scopes,   *)
(* every limit and every bound.                                            *)
(***************************************************************************)
EXTENDS AutomationStore, TLAPS, FiniteSetTheorems

\* Cancelling a counter of at least n by n is ordinary subtraction.
LEMMA LessNat ==
  ASSUME NEW a \in Nat, NEW n \in Nat
  PROVE  /\ Less(a, n) \in Nat
         /\ n <= a => Less(a, n) = a - n
  BY DEF Less

LEMMA NoneInt == None \in Int
  BY DEF None

LEMMA KindsAre == Kinds = {"execute", "expire_interrupt"}
  BY DEF Kinds

\* The sets the counters are changed by are finite.
LEMMA FiniteParts ==
  ASSUME TypeOK, NEW E, NEW s \in Scopes
  PROVE  /\ IsFiniteSet(admitted)
         /\ Cardinality(admitted) \in Nat
         /\ Cardinality(admitted \cap E) \in Nat
         /\ Cardinality(InScope(admitted \cap E, s)) \in Nat
         /\ Cardinality(InScope(admitted, s)) \in Nat
  <1>1. IsFiniteSet(Executions) /\ admitted \subseteq Executions
    BY StoreAssumption DEF TypeOK
  <1>2. /\ admitted \cap E \subseteq Executions
        /\ InScope(admitted \cap E, s) \subseteq Executions
        /\ InScope(admitted, s) \subseteq Executions
    BY <1>1 DEF InScope
  <1> QED
    BY <1>1, <1>2, FS_Subset, FS_CardinalityType

\* Release keeps the capacity variables in their types.
LEMMA ReleaseType ==
  ASSUME TypeOK, NEW E, Release(E)
  PROVE  /\ admitted' \subseteq Executions
         /\ global_allocated' \in Nat
         /\ scope_allocated' \in [Scopes -> Nat]
  <1>1. admitted' \subseteq Executions
    BY DEF TypeOK, Release
  <1>2. global_allocated' \in Nat
    <2>1. Cardinality(admitted \cap E) \in Nat
      <3>1. IsFiniteSet(admitted \cap E)
        BY StoreAssumption, FS_Subset DEF TypeOK
      <3> QED BY <3>1, FS_CardinalityType
    <2> QED BY <2>1, LessNat DEF TypeOK, Release
  <1>3. scope_allocated' \in [Scopes -> Nat]
    <2>1. ASSUME NEW s \in Scopes
          PROVE  Less(scope_allocated[s], Cardinality(InScope(admitted \cap E, s))) \in Nat
      BY FiniteParts, LessNat DEF TypeOK
    <2> QED BY <2>1 DEF Release
  <1> QED BY <1>1, <1>2, <1>3

\* The item operations stay within WorkItem.
LEMMA ItemTypes ==
  ASSUME NEW item \in WorkItem, NEW t \in Int
  PROVE  /\ Opened(item, t) \in WorkItem
         /\ Completed(item) \in WorkItem
         /\ AllCompleted(item) \in WorkItem
         /\ Opened(NoWork, t) \in WorkItem
         /\ [item EXCEPT !.lease_until = t] \in WorkItem
  <1>1. Opened(item, t) \in WorkItem
    BY NoneInt DEF WorkItem, Opened
  <1>2. Completed(item) \in WorkItem
    BY NoneInt DEF WorkItem, Completed
  <1>3. AllCompleted(item) \in WorkItem
    BY <1>2 DEF AllCompleted
  <1>4. NoWork \in WorkItem
    BY DEF WorkItem, NoWork, None
  <1>5. Opened(NoWork, t) \in WorkItem
    BY <1>4, NoneInt DEF WorkItem, Opened
  <1>6. [item EXCEPT !.lease_until = t] \in WorkItem
    BY DEF WorkItem
  <1> QED BY <1>1, <1>2, <1>3, <1>5, <1>6

LEMMA InitType == StoreInit => TypeOK
  BY StoreAssumption
  DEF StoreInit, TypeOK, NoExecution, NoWork, Execution, WorkItem, Statuses, None

\* Each operation keeps the types.
LEMMA InsertType ==
  ASSUME TypeOK, NEW E, Insert(E)
  PROVE  TypeOK'
  <1>1. now \in Int /\ now + QueueTimeout \in Int
    BY StoreAssumption DEF TypeOK
  <1>2. NewExecution(now) \in Execution
    BY <1>1 DEF NewExecution, Execution, Statuses, None
  <1>3. exec' \in [Executions -> Execution]
    BY <1>2 DEF TypeOK, Insert
  <1>4. Opened(NoWork, now) \in WorkItem
    <2>1. NoWork \in WorkItem
      BY DEF NoWork, WorkItem, None
    <2> QED BY <1>1, <2>1, ItemTypes
  <1>5. work' \in [Kinds -> [Executions -> WorkItem]]
    BY <1>4, KindsAre DEF TypeOK, Insert
  <1> QED
    BY <1>3, <1>5 DEF TypeOK, Insert, KeepCapacity

LEMMA CancelType ==
  ASSUME TypeOK, NEW E, Cancel(E)
  PROVE  TypeOK'
  <1>1. exec' \in [Executions -> Execution]
    <2>1. ASSUME NEW e \in Executions
          PROVE  [exec[e] EXCEPT !.status = "cancelled"] \in Execution
      BY DEF TypeOK, Execution, Statuses, Terminal
    <2> QED BY <2>1 DEF TypeOK, Cancel
  <1>2. work' \in [Kinds -> [Executions -> WorkItem]]
    <2>1. ASSUME NEW k \in Kinds, NEW e \in Executions
          PROVE  AllCompleted(work[k][e]) \in WorkItem
      BY ItemTypes, NoneInt DEF TypeOK
    <2> QED BY <2>1 DEF TypeOK, Cancel
  <1>3. Release(E) /\ now' = now
    BY DEF Cancel
  <1> QED BY <1>1, <1>2, <1>3, ReleaseType DEF TypeOK

LEMMA UserStepType ==
  ASSUME TypeOK, UserStep
  PROVE  TypeOK'
  <1>1. CASE \E e \in Executions : EnqueueExecution(e)
    BY <1>1, InsertType DEF EnqueueExecution
  <1>2. CASE \E E \in SUBSET Executions : MaterializeTask(E)
    BY <1>2, InsertType DEF MaterializeTask
  <1>3. CASE \E s \in Scopes : DeleteTask(s)
    BY <1>3, CancelType DEF DeleteTask
  <1>4. ASSUME NEW e \in Executions, CancelExecution(e)
        PROVE  TypeOK'
    <2>1. CASE Cancel({e})
      BY <2>1, CancelType
    <2>2. CASE RequestCancel(e)
      <3>1. exec' \in [Executions -> Execution]
        BY <2>2 DEF TypeOK, RequestCancel, Execution, Statuses
      <3> QED BY <2>2, <3>1 DEF TypeOK, RequestCancel, KeepCapacity
    <2> QED BY <1>4, <2>1, <2>2 DEF CancelExecution
  <1>5. ASSUME NEW e \in Executions, NEW outcome \in Outcomes,
               ResolveExecution(e, outcome)
        PROVE  TypeOK'
    <2>1. outcome \in Statuses
      BY StoreAssumption DEF Statuses
    <2>2. exec' \in [Executions -> Execution]
      BY <1>5, <2>1 DEF TypeOK, ResolveExecution, Execution
    <2>3. Release({e}) /\ UNCHANGED <<now, work>>
      BY <1>5 DEF ResolveExecution
    <2> QED BY <2>2, <2>3, ReleaseType DEF TypeOK
  <1> QED BY <1>1, <1>2, <1>3, <1>4, <1>5 DEF UserStep

LEMMA ClaimStepType ==
  ASSUME TypeOK, ClaimStep
  PROVE  TypeOK'
  <1>p. PICK e \in Executions, k \in Kinds :
          \E f \in 1..work[k][e].fence :
            \/ RenewClaim(k, e, f)
            \/ k = "execute" /\ AuthorizeStart(e, f)
            \/ MarkInterrupted(k, e, f)
            \/ \E status \in Outcomes \cup {"needs_attention"} :
                 FinishExecution(k, e, f, status)
    BY DEF ClaimStep
  <1>f. PICK f \in 1..work[k][e].fence :
          \/ RenewClaim(k, e, f)
          \/ k = "execute" /\ AuthorizeStart(e, f)
          \/ MarkInterrupted(k, e, f)
          \/ \E status \in Outcomes \cup {"needs_attention"} :
               FinishExecution(k, e, f, status)
    BY <1>p
  <1>0. now \in Int
    BY DEF TypeOK
  <1>1. CASE RenewClaim(k, e, f)
    <2>1. now + LeaseDuration \in Int
      BY <1>0, StoreAssumption
    <2>2. [work[k][e] EXCEPT !.lease_until = now + LeaseDuration] \in WorkItem
      BY <2>1, ItemTypes DEF TypeOK
    <2>3. work' \in [Kinds -> [Executions -> WorkItem]]
      BY <1>1, <2>2 DEF TypeOK, RenewClaim
    <2> QED BY <1>1, <2>3 DEF TypeOK, RenewClaim, KeepCapacity
  <1>2. CASE AuthorizeStart(e, f)
    <2>1. now + ExecutionTimeout \in Int
      BY <1>0, StoreAssumption
    <2>2. exec' \in [Executions -> Execution]
      BY <1>2, <2>1 DEF TypeOK, AuthorizeStart, Execution, Statuses
    <2> QED BY <1>2, <2>2 DEF TypeOK, AuthorizeStart, KeepCapacity
  <1>3. CASE MarkInterrupted(k, e, f)
    <2>1. exec' \in [Executions -> Execution]
      BY <1>3 DEF TypeOK, MarkInterrupted, Execution, Statuses
    <2>2. ASSUME NEW kk \in Kinds
          PROVE  /\ Opened(work[kk][e], exec[e].execution_deadline) \in WorkItem
                 /\ Completed(work[kk][e]) \in WorkItem
      <3>1. work[kk][e] \in WorkItem /\ exec[e].execution_deadline \in Int
        BY DEF TypeOK, Execution
      <3> QED BY <3>1, ItemTypes
    <2>3. work' \in [Kinds -> [Executions -> WorkItem]]
      BY <1>3, <2>2 DEF TypeOK, MarkInterrupted
    <2> QED BY <1>3, <2>1, <2>3 DEF TypeOK, MarkInterrupted, KeepCapacity
  <1>4. ASSUME NEW status \in Outcomes \cup {"needs_attention"},
               FinishExecution(k, e, f, status)
        PROVE  TypeOK'
    <2>1. status \in Statuses
      BY StoreAssumption DEF Statuses
    <2>2. exec' \in [Executions -> Execution]
      BY <1>4, <2>1 DEF TypeOK, FinishExecution, Execution
    <2>3. ASSUME NEW kk \in Kinds
          PROVE  AllCompleted(work[kk][e]) \in WorkItem
      BY ItemTypes, NoneInt DEF TypeOK
    <2>4. work' \in [Kinds -> [Executions -> WorkItem]]
      BY <1>4, <2>3 DEF TypeOK, FinishExecution
    <2>5. Release({e}) \/ KeepCapacity
      BY <1>4 DEF FinishExecution
    <2>6. now' = now
      BY <1>4 DEF FinishExecution
    <2>7. CASE KeepCapacity
      BY <2>2, <2>4, <2>6, <2>7 DEF TypeOK, KeepCapacity
    <2>8. CASE Release({e})
      BY <2>2, <2>4, <2>6, <2>8, ReleaseType DEF TypeOK
    <2> QED BY <2>5, <2>7, <2>8
  <1> QED BY <1>f, <1>1, <1>2, <1>3, <1>4

\* What claim_work leaves of one item.
LEMMA ClaimedItemType ==
  ASSUME TypeOK, NEW k \in Kinds, NEW e \in Executions
  PROVE  /\ RecoveredItem(k, e) \in WorkItem
         /\ ClaimedItem(k, e) \in WorkItem
  <1>1. work[k][e] \in WorkItem
    BY DEF TypeOK
  <1>2. RecoveredItem(k, e) \in WorkItem
    <2>1. [work[k][e] EXCEPT !.status = "pending", !.lease_until = None] \in WorkItem
      BY <1>1, NoneInt DEF WorkItem
    <2> QED BY <1>1, <2>1, NoneInt, ItemTypes DEF RecoveredItem
  <1>3. now + LeaseDuration \in Int
    BY StoreAssumption DEF TypeOK
  <1>4. ASSUME NEW item \in WorkItem, NEW n \in Nat, NEW t \in Int
        PROVE  [item EXCEPT !.status = "claimed", !.fence = n, !.lease_until = t]
                 \in WorkItem
    BY DEF WorkItem
  <1>5. RecoveredItem(k, e).fence + 1 \in Nat
    BY <1>2 DEF WorkItem
  <1>6. [RecoveredItem(k, e) EXCEPT !.status = "claimed", !.fence = @ + 1,
                                    !.lease_until = now + LeaseDuration] \in WorkItem
    BY <1>2, <1>3, <1>4, <1>5
  <1>7. ClaimedItem(k, e) \in WorkItem
    BY <1>2, <1>6, NoneInt, ItemTypes DEF ClaimedItem
  <1> QED BY <1>2, <1>7

LEMMA FiniteChanges ==
  ASSUME TypeOK, NEW s
  PROVE  /\ Cardinality(admitted \cap QueueTimeouts) \in Nat
         /\ Cardinality(NewlyAdmitted) \in Nat
         /\ Cardinality(InScope(admitted \cap QueueTimeouts, s)) \in Nat
         /\ Cardinality(InScope(NewlyAdmitted, s)) \in Nat
  <1>1. /\ admitted \cap QueueTimeouts \subseteq Executions
        /\ NewlyAdmitted \subseteq Executions
        /\ InScope(admitted \cap QueueTimeouts, s) \subseteq Executions
        /\ InScope(NewlyAdmitted, s) \subseteq Executions
    BY DEF TypeOK, NewlyAdmitted, InScope
  <1> QED BY <1>1, StoreAssumption, FS_Subset, FS_CardinalityType

LEMMA ClaimWorkType ==
  ASSUME TypeOK, ClaimWork
  PROVE  TypeOK'
  <1>1. exec' \in [Executions -> Execution]
    <2>1. ASSUME NEW e \in Executions
          PROVE  ClaimedExec(e) \in Execution
      <3>1. (IF e \in QueueTimeouts THEN "timed_out" ELSE RecoveredStatus(e)) \in Statuses
        BY DEF TypeOK, Execution, RecoveredStatus, Statuses, Terminal
      <3> QED BY <3>1 DEF TypeOK, ClaimedExec, Execution
    <2> QED BY <2>1 DEF ClaimWork
  <1>2. work' \in [Kinds -> [Executions -> WorkItem]]
    BY ClaimedItemType DEF ClaimWork
  <1>3. admitted' \subseteq Executions
    BY DEF ClaimWork, TypeOK, NewlyAdmitted
  <1>4. global_allocated' \in Nat
    <2>1. /\ Cardinality(admitted \cap QueueTimeouts) \in Nat
          /\ Cardinality(NewlyAdmitted) \in Nat
      BY FiniteChanges
    <2>2. Less(global_allocated, Cardinality(admitted \cap QueueTimeouts)) \in Nat
      BY <2>1, LessNat DEF TypeOK
    <2> QED BY <2>1, <2>2 DEF ClaimWork
  <1>5. scope_allocated' \in [Scopes -> Nat]
    <2>1. ASSUME NEW s \in Scopes
          PROVE  Less(scope_allocated[s],
                      Cardinality(InScope(admitted \cap QueueTimeouts, s)))
                   + Cardinality(InScope(NewlyAdmitted, s)) \in Nat
      <3>1. /\ Cardinality(InScope(admitted \cap QueueTimeouts, s)) \in Nat
            /\ Cardinality(InScope(NewlyAdmitted, s)) \in Nat
        BY FiniteChanges
      <3>2. Less(scope_allocated[s],
                 Cardinality(InScope(admitted \cap QueueTimeouts, s))) \in Nat
        BY <3>1, LessNat DEF TypeOK
      <3> QED BY <3>1, <3>2
    <2> QED BY <2>1 DEF ClaimWork
  <1>6. now' = now
    BY DEF ClaimWork
  <1> QED BY <1>1, <1>2, <1>3, <1>4, <1>5, <1>6 DEF TypeOK

\* Type correctness: no operation of the Store, whatever claims are presented to
\* it, leaves a record, a counter or the clock outside its type.
THEOREM TypeCorrect == StoreSpec => []TypeOK
  <1>1. StoreInit => TypeOK
    BY InitType
  <1>2. TypeOK /\ [StoreNext]_storeVars => TypeOK'
    <2> SUFFICES ASSUME TypeOK, [StoreNext]_storeVars
                 PROVE  TypeOK'
      OBVIOUS
    <2>1. CASE Tick
      BY <2>1, StoreAssumption DEF TypeOK, Tick, KeepCapacity
    <2>2. CASE UNCHANGED storeVars
      BY <2>2 DEF TypeOK, storeVars
    <2> QED
      BY <2>1, <2>2, ClaimWorkType, ClaimStepType, UserStepType DEF StoreNext
  <1> QED BY <1>1, <1>2, PTL DEF StoreSpec

-----------------------------------------------------------------------------
\* The inductive invariant.  None of WorkMatchesStatus, StartedOnce and
\* AdmissionMatchesStatus is inductive alone: that a recovered item may return to
\* the queue needs "not started", that a start finds capacity needs "claimed".
\* Together they are, one execution at a time: Coherent relates the record x, the
\* execute item w, the expiry item d and the admission a of one execution.

Open == {"pending", "claimed"}
InFlight == {"running", "cancel_requested"}

Coherent(x, w, d, a) ==
  /\ w.status = "pending" => x.status = "queued"
  /\ w.status = "claimed" => x.status \in {"queued"} \cup InFlight
  /\ x.status = "queued" => w.status \in Open
  /\ x.status \in InFlight => w.status = "claimed"
  /\ d.status \in Open <=> x.status = "interrupted"
  /\ x.status = "interrupted" => d.available_at = x.execution_deadline
  /\ x.start_authorized <=> x.execution_deadline # None
  /\ x.status \in InFlight \cup {"interrupted"} => x.start_authorized
  /\ x.start_authorized => x.status # "queued" /\ w.status \in {"claimed", "completed"}
  /\ x.status \in InFlight \cup {"interrupted", "needs_attention"} => a
  /\ w.status = "claimed" => a
  /\ a => x.status \notin {"absent"} \cup Terminal

CoherentAt(e) ==
  Coherent(exec[e], work["execute"][e], work["expire_interrupt"][e], e \in admitted)

IInv == TypeOK /\ \A e \in Executions : CoherentAt(e)

\* The invariant contains the three properties the runs check.
LEMMA IInvImplies ==
  IInv => WorkMatchesStatus /\ StartedOnce /\ AdmissionMatchesStatus
  BY DEF IInv, CoherentAt, Coherent, Open, InFlight,
         WorkMatchesStatus, StartedOnce, AdmissionMatchesStatus

LEMMA InitCoherent == StoreInit => \A e \in Executions : CoherentAt(e)
  BY KindsAre
  DEF StoreInit, CoherentAt, Coherent, Open, InFlight, NoExecution, NoWork, Terminal

\* An execution that a step leaves alone stays coherent.
LEMMA Untouched ==
  ASSUME NEW e \in Executions, CoherentAt(e),
         exec'[e] = exec[e],
         work'["execute"][e] = work["execute"][e],
         work'["expire_interrupt"][e] = work["expire_interrupt"][e],
         e \in admitted' <=> e \in admitted
  PROVE  CoherentAt(e)'
  BY DEF CoherentAt, Coherent

\* Fields of the records, so that the steps below need not unfold their types.
LEMMA Fields ==
  ASSUME TypeOK, NEW e \in Executions
  PROVE  /\ exec[e] \in Execution
         /\ work["execute"][e] \in WorkItem
         /\ work["expire_interrupt"][e] \in WorkItem
         /\ now \in Nat
  BY KindsAre DEF TypeOK

LEMMA InsertCoherent ==
  ASSUME IInv, NEW E, Insert(E), \A e \in E : exec[e].status = "absent",
         NEW e \in Executions
  PROVE  CoherentAt(e)'
  <1>1. CASE e \notin E
    <2>1. /\ exec'[e] = exec[e]
          /\ work'["execute"][e] = work["execute"][e]
          /\ work'["expire_interrupt"][e] = work["expire_interrupt"][e]
          /\ admitted' = admitted
      BY <1>1, KindsAre DEF IInv, TypeOK, Insert, KeepCapacity
    <2> QED BY <2>1, Untouched DEF IInv
  <1>2. CASE e \in E
    <2>1. /\ exec'[e] = NewExecution(now)
          /\ work'["execute"][e] = Opened(NoWork, now)
          /\ work'["expire_interrupt"][e] = work["expire_interrupt"][e]
          /\ admitted' = admitted
      BY <1>2, KindsAre DEF IInv, TypeOK, Insert, KeepCapacity
    <2>2. /\ exec'[e].status = "queued"
          /\ exec'[e].start_authorized = FALSE
          /\ exec'[e].execution_deadline = None
          /\ work'["execute"][e].status = "pending"
      BY <2>1 DEF NewExecution, Opened, NoWork
    <2>3. exec[e].status = "absent" /\ CoherentAt(e)
      BY <1>2 DEF IInv
    <2> QED BY <2>1, <2>2, <2>3 DEF CoherentAt, Coherent, Open, InFlight, Terminal
  <1> QED BY <1>1, <1>2

\* Every item of a settled execution is closed.
LEMMA ClosedItems ==
  ASSUME NEW item \in WorkItem
  PROVE  /\ AllCompleted(item).status \in {"absent", "completed"}
         /\ item.status # "absent" => AllCompleted(item).status = "completed"
         /\ Completed(item).status = "completed"
         /\ Completed(item).available_at = item.available_at
         /\ Completed(item).fence = item.fence
  BY NoneInt DEF AllCompleted, Completed, WorkItem

LEMMA CancelCoherent ==
  ASSUME IInv, NEW E, Cancel(E),
         \A e \in E : exec[e].status \in {"queued", "interrupted"},
         NEW e \in Executions
  PROVE  CoherentAt(e)'
  <1>1. CASE e \notin E
    <2>1. /\ exec'[e] = exec[e]
          /\ work'["execute"][e] = work["execute"][e]
          /\ work'["expire_interrupt"][e] = work["expire_interrupt"][e]
          /\ e \in admitted' <=> e \in admitted
      BY <1>1, KindsAre DEF IInv, TypeOK, Cancel, Release
    <2> QED BY <2>1, Untouched DEF IInv
  <1>2. CASE e \in E
    <2>1. /\ exec'[e] = [exec[e] EXCEPT !.status = "cancelled"]
          /\ work'["execute"][e] = AllCompleted(work["execute"][e])
          /\ work'["expire_interrupt"][e] = AllCompleted(work["expire_interrupt"][e])
          /\ e \notin admitted'
      BY <1>2, KindsAre DEF IInv, TypeOK, Cancel, Release
    <2>2. /\ exec'[e].status = "cancelled"
          /\ exec'[e].start_authorized = exec[e].start_authorized
          /\ exec'[e].execution_deadline = exec[e].execution_deadline
      BY <2>1, Fields DEF IInv, Execution
    <2>3. /\ work'["execute"][e].status \in {"absent", "completed"}
          /\ work'["expire_interrupt"][e].status \in {"absent", "completed"}
          /\ work["execute"][e].status # "absent" => work'["execute"][e].status = "completed"
      BY <2>1, Fields, ClosedItems DEF IInv
    <2>4. CoherentAt(e)
      BY DEF IInv
    <2> QED
      BY <2>1, <2>2, <2>3, <2>4 DEF CoherentAt, Coherent, Open, InFlight, Terminal
  <1> QED BY <1>1, <1>2

LEMMA UserStepCoherent ==
  ASSUME IInv, UserStep, NEW c \in Executions
  PROVE  CoherentAt(c)'
  <1>0. TypeOK /\ CoherentAt(c)
    BY DEF IInv
  <1>1. ASSUME NEW e \in Executions, EnqueueExecution(e)
        PROVE  CoherentAt(c)'
    BY <1>1, InsertCoherent DEF EnqueueExecution
  <1>2. ASSUME NEW E \in SUBSET Executions, MaterializeTask(E)
        PROVE  CoherentAt(c)'
    BY <1>2, InsertCoherent DEF MaterializeTask
  <1>3. ASSUME NEW s \in Scopes, DeleteTask(s)
        PROVE  CoherentAt(c)'
    <2>1. \A e \in QueuedIn(s) : exec[e].status \in {"queued", "interrupted"}
      BY DEF QueuedIn
    <2> QED BY <1>3, <2>1, CancelCoherent DEF DeleteTask
  <1>4. ASSUME NEW e \in Executions, CancelExecution(e)
        PROVE  CoherentAt(c)'
    <2>1. CASE exec[e].status \in {"queued", "interrupted"} /\ Cancel({e})
      BY <2>1, CancelCoherent
    <2>2. CASE exec[e].status = "running" /\ RequestCancel(e)
      <3>1. /\ work' = work /\ admitted' = admitted
            /\ c # e => exec'[c] = exec[c]
        BY <2>2 DEF RequestCancel, KeepCapacity, IInv, TypeOK
      <3>2. CASE c # e
        BY <1>0, <3>1, <3>2, Untouched
      <3>3. CASE c = e
        <4>1. /\ exec'[e].status = "cancel_requested"
              /\ exec'[e].start_authorized = exec[e].start_authorized
              /\ exec'[e].execution_deadline = exec[e].execution_deadline
          BY <2>2, <1>0, Fields DEF RequestCancel, TypeOK, Execution
        <4> QED
          BY <1>0, <2>2, <3>1, <3>3, <4>1
          DEF CoherentAt, Coherent, Open, InFlight, Terminal
      <3> QED BY <3>2, <3>3
    <2> QED BY <1>4, <2>1, <2>2 DEF CancelExecution
  <1>5. ASSUME NEW e \in Executions, NEW outcome \in Outcomes,
               ResolveExecution(e, outcome)
        PROVE  CoherentAt(c)'
    <2>1. /\ work' = work
          /\ c # e => exec'[c] = exec[c] /\ (c \in admitted' <=> c \in admitted)
      BY <1>5 DEF ResolveExecution, Release, IInv, TypeOK
    <2>2. CASE c # e
      BY <1>0, <2>1, <2>2, Untouched
    <2>3. CASE c = e
      <3>1. /\ exec'[e].status = outcome
            /\ exec'[e].start_authorized = exec[e].start_authorized
            /\ exec'[e].execution_deadline = exec[e].execution_deadline
            /\ exec[e].status = "needs_attention"
        BY <1>5, <1>0, Fields DEF ResolveExecution, TypeOK, Execution
      <3>2. outcome \in Terminal /\ e \notin admitted'
        BY <1>5, StoreAssumption DEF ResolveExecution, Release
      <3> QED
        BY <1>0, <2>1, <2>3, <3>1, <3>2
        DEF CoherentAt, Coherent, Open, InFlight, Terminal
    <2> QED BY <2>2, <2>3
  <1> QED BY <1>1, <1>2, <1>3, <1>4, <1>5 DEF UserStep

\* A valid claim and what it says of its execution.
LEMMA ClaimedCoherent ==
  ASSUME IInv, NEW k \in Kinds, NEW e \in Executions, NEW f, ValidClaim(k, e, f)
  PROVE  /\ e \in admitted
         /\ k = "execute" => exec[e].status \in {"queued"} \cup InFlight
         /\ k = "expire_interrupt" => exec[e].status = "interrupted"
         /\ work["execute"][e].status # "absent" \/ ~exec[e].start_authorized
  BY KindsAre DEF IInv, CoherentAt, Coherent, ValidClaim, Open, InFlight

LEMMA RenewCoherent ==
  ASSUME IInv, NEW k \in Kinds, NEW e \in Executions, NEW f, RenewClaim(k, e, f),
         NEW c \in Executions
  PROVE  CoherentAt(c)'
  <1>1. exec' = exec /\ admitted' = admitted
    BY DEF RenewClaim, KeepCapacity
  <1>2. now + LeaseDuration \in Int
    BY StoreAssumption DEF IInv, TypeOK
  <1>3. ASSUME NEW kk \in Kinds
        PROVE  /\ work'[kk][c].status = work[kk][c].status
               /\ work'[kk][c].available_at = work[kk][c].available_at
    <2>1. work[kk][c] \in WorkItem
      BY DEF IInv, TypeOK
    <2>2. CASE kk = k /\ c = e
      <3>1. work'[kk][c] = [work[k][e] EXCEPT !.lease_until = now + LeaseDuration]
        BY <2>2 DEF RenewClaim, IInv, TypeOK
      <3> QED BY <2>1, <2>2, <3>1, <1>2 DEF WorkItem
    <2>3. CASE ~(kk = k /\ c = e)
      <3>1. work'[kk][c] = work[kk][c]
        BY <2>3 DEF RenewClaim, IInv, TypeOK
      <3> QED BY <3>1
    <2> QED BY <2>2, <2>3
  <1> QED BY <1>1, <1>3, KindsAre DEF IInv, CoherentAt, Coherent

LEMMA StartCoherent ==
  ASSUME IInv, NEW e \in Executions, NEW f, AuthorizeStart(e, f), NEW c \in Executions
  PROVE  CoherentAt(c)'
  <1>0. TypeOK /\ CoherentAt(c)
    BY DEF IInv
  <1>1. work' = work /\ admitted' = admitted /\ (c # e => exec'[c] = exec[c])
    BY <1>0 DEF AuthorizeStart, KeepCapacity, TypeOK
  <1>2. CASE c # e
    BY <1>0, <1>1, <1>2, Untouched
  <1>3. CASE c = e
    <2>0. now + ExecutionTimeout # None
      BY <1>0, StoreAssumption DEF TypeOK, None
    <2>1. exec'[e] = [exec[e] EXCEPT !.status = "running", !.start_authorized = TRUE,
                                     !.execution_deadline = now + ExecutionTimeout]
      BY <1>0 DEF AuthorizeStart, TypeOK
    <2>2. /\ exec'[e].status = "running"
          /\ exec'[e].start_authorized = TRUE
          /\ exec'[e].execution_deadline = now + ExecutionTimeout
      BY <1>0, <2>1, Fields DEF Execution
    <2>3. /\ exec[e].status = "queued"
          /\ work["execute"][e].status = "claimed"
          /\ e \in admitted
      BY DEF AuthorizeStart, ValidClaim
    <2> QED
      BY <1>0, <1>1, <1>3, <2>0, <2>2, <2>3
      DEF CoherentAt, Coherent, Open, InFlight, Terminal
  <1> QED BY <1>2, <1>3

LEMMA MarkCoherent ==
  ASSUME IInv, NEW k \in Kinds, NEW e \in Executions, NEW f, MarkInterrupted(k, e, f),
         NEW c \in Executions
  PROVE  CoherentAt(c)'
  <1>0. TypeOK /\ CoherentAt(c) /\ ValidClaim(k, e, f)
    BY DEF IInv, MarkInterrupted
  <1>1. admitted' = admitted
    BY DEF MarkInterrupted, KeepCapacity
  <1>2. CASE c # e
    <2>1. /\ exec'[c] = exec[c]
          /\ work'["execute"][c] = work["execute"][c]
          /\ work'["expire_interrupt"][c] = work["expire_interrupt"][c]
      BY <1>0, <1>2, KindsAre DEF MarkInterrupted, TypeOK
    <2> QED BY <1>0, <1>1, <2>1, Untouched
  <1>3. CASE c = e
    <2>1. /\ exec'[e] = [exec[e] EXCEPT !.status = "interrupted"]
          /\ work'["expire_interrupt"][e] =
               Opened(work["expire_interrupt"][e], exec[e].execution_deadline)
          /\ k = "execute" => work'["execute"][e] = Completed(work["execute"][e])
          /\ k # "execute" => work'["execute"][e] = work["execute"][e]
      BY <1>0, KindsAre DEF MarkInterrupted, TypeOK
    <2>2. /\ exec'[e].status = "interrupted"
          /\ exec'[e].start_authorized = exec[e].start_authorized
          /\ exec'[e].execution_deadline = exec[e].execution_deadline
      BY <1>0, <2>1, Fields DEF Execution
    <2>3. /\ work'["expire_interrupt"][e].status = "pending"
          /\ work'["expire_interrupt"][e].available_at = exec[e].execution_deadline
      <3>1. exec[e].execution_deadline \in Int
        BY <1>0, Fields DEF Execution
      <3> QED BY <1>0, <2>1, <3>1, Fields, NoneInt DEF Opened, WorkItem
    <2>4. exec[e].execution_deadline # None
      BY DEF MarkInterrupted
    <2>5. k = "execute" => work'["execute"][e].status = "completed"
      BY <1>0, <2>1, Fields, ClosedItems
    <2>6. k = "execute" \/ exec[e].status = "interrupted"
      BY <1>0, ClaimedCoherent, KindsAre
    <2>7. e \in admitted
      BY <1>0, ClaimedCoherent
    <2> QED
      BY <1>0, <1>1, <1>3, <2>1, <2>2, <2>3, <2>4, <2>5, <2>6, <2>7
      DEF CoherentAt, Coherent, Open, InFlight, Terminal
  <1> QED BY <1>2, <1>3

LEMMA FinishCoherent ==
  ASSUME IInv, NEW k \in Kinds, NEW e \in Executions, NEW f,
         NEW status \in Outcomes \cup {"needs_attention"},
         FinishExecution(k, e, f, status), NEW c \in Executions
  PROVE  CoherentAt(c)'
  <1>0. TypeOK /\ CoherentAt(c) /\ ValidClaim(k, e, f)
    BY DEF IInv, FinishExecution
  <1>1. CASE c # e
    <2>1. /\ exec'[c] = exec[c]
          /\ work'["execute"][c] = work["execute"][c]
          /\ work'["expire_interrupt"][c] = work["expire_interrupt"][c]
      BY <1>0, <1>1, KindsAre DEF FinishExecution, TypeOK
    <2>2. c \in admitted' <=> c \in admitted
      BY <1>1 DEF FinishExecution, Release, KeepCapacity
    <2> QED BY <1>0, <2>1, <2>2, Untouched
  <1>2. CASE c = e
    <2>1. /\ exec'[e] = [exec[e] EXCEPT !.status = status]
          /\ work'["execute"][e] = AllCompleted(work["execute"][e])
          /\ work'["expire_interrupt"][e] = AllCompleted(work["expire_interrupt"][e])
      BY <1>0, KindsAre DEF FinishExecution, TypeOK
    <2>2. /\ exec'[e].status = status
          /\ exec'[e].start_authorized = exec[e].start_authorized
          /\ exec'[e].execution_deadline = exec[e].execution_deadline
      BY <1>0, <2>1, Fields DEF Execution
    <2>3. /\ work'["execute"][e].status \in {"absent", "completed"}
          /\ work'["expire_interrupt"][e].status \in {"absent", "completed"}
          /\ work["execute"][e].status # "absent" => work'["execute"][e].status = "completed"
      BY <1>0, <2>1, Fields, ClosedItems
    <2>4. status \in Terminal \cup {"needs_attention"}
      BY StoreAssumption
    <2>5. e \in admitted' <=> status \notin Terminal
      <3>1. e \in admitted
        BY <1>0, ClaimedCoherent
      <3> QED BY <3>1 DEF FinishExecution, Release, KeepCapacity
    <2> QED
      BY <1>0, <1>2, <2>1, <2>2, <2>3, <2>4, <2>5
      DEF CoherentAt, Coherent, Open, InFlight, Terminal
  <1> QED BY <1>1, <1>2

LEMMA ClaimStepCoherent ==
  ASSUME IInv, ClaimStep, NEW c \in Executions
  PROVE  CoherentAt(c)'
  BY RenewCoherent, StartCoherent, MarkCoherent, FinishCoherent DEF ClaimStep

\* Recovery returns an item to the queue only when its execution never started,
\* and then its execution still waits for it: no candidate is ever stale.
LEMMA RecoveryCoherent ==
  ASSUME IInv, NEW e \in Executions
  PROVE  /\ RecoveredItem("execute", e).status = "pending" =>
              /\ exec[e].status = "queued"
              /\ ~LostAfterStart("execute", e)
         /\ RecoveredItem("expire_interrupt", e).status = "pending" =>
              exec[e].status = "interrupted"
         /\ LostAfterStart("execute", e) =>
              /\ exec[e].status \in InFlight
              /\ RecoveredItem("execute", e).status = "completed"
         /\ ~LostAfterStart("expire_interrupt", e)
         /\ ~LeaseExpired("execute", e) => RecoveredItem("execute", e) = work["execute"][e]
         /\ LeaseExpired("execute", e) /\ ~LostAfterStart("execute", e) =>
              RecoveredItem("execute", e).status = "pending"
         /\ ~LeaseExpired("expire_interrupt", e) =>
              RecoveredItem("expire_interrupt", e) = work["expire_interrupt"][e]
         /\ LeaseExpired("expire_interrupt", e) =>
              /\ RecoveredItem("expire_interrupt", e).status = "pending"
              /\ RecoveredItem("expire_interrupt", e).available_at
                   = work["expire_interrupt"][e].available_at
  <1>1. TypeOK /\ CoherentAt(e)
    BY DEF IInv
  <1>2. ASSUME NEW k \in Kinds
        PROVE  /\ LostAfterStart(k, e) => RecoveredItem(k, e).status = "completed"
               /\ LeaseExpired(k, e) /\ ~LostAfterStart(k, e) =>
                    /\ RecoveredItem(k, e).status = "pending"
                    /\ RecoveredItem(k, e).available_at = work[k][e].available_at
               /\ ~LeaseExpired(k, e) => RecoveredItem(k, e) = work[k][e]
    <2>1. work[k][e] \in WorkItem
      BY <1>1 DEF TypeOK
    <2>2. /\ [work[k][e] EXCEPT !.status = "pending", !.lease_until = None].status
               = "pending"
          /\ [work[k][e] EXCEPT !.status = "pending", !.lease_until = None].available_at
               = work[k][e].available_at
      BY <2>1, NoneInt DEF WorkItem
    <2>3. LostAfterStart(k, e) => LeaseExpired(k, e)
      BY DEF LostAfterStart
    <2> QED BY <2>1, <2>2, <2>3, ClosedItems DEF RecoveredItem
  <1>3. /\ LostAfterStart("execute", e) <=>
             LeaseExpired("execute", e) /\ exec[e].start_authorized
        /\ ~LostAfterStart("expire_interrupt", e)
        /\ LeaseExpired("execute", e) => work["execute"][e].status = "claimed"
        /\ LeaseExpired("expire_interrupt", e) =>
             work["expire_interrupt"][e].status = "claimed"
    BY DEF LostAfterStart, LeaseExpired
  <1> QED
    BY <1>1, <1>2, <1>3, KindsAre DEF CoherentAt, Coherent, Open, InFlight

\* How claim_work treats an item: it is selected, it is closed because its
\* execution's queue deadline passed, or it is only recovered.
LEMMA ClaimedItems ==
  ASSUME IInv, NEW e \in Executions
  PROVE  /\ <<"execute", e>> \in Selected =>
              /\ e \notin QueueTimeouts
              /\ exec[e].status = "queued" /\ ~LostAfterStart("execute", e)
              /\ ClaimedItem("execute", e).status = "claimed"
         /\ e \in QueueTimeouts =>
              /\ exec[e].status = "queued" /\ ~LostAfterStart("execute", e)
              /\ ClaimedItem("execute", e).status = "completed"
         /\ <<"execute", e>> \notin Selected /\ e \notin QueueTimeouts =>
              ClaimedItem("execute", e) = RecoveredItem("execute", e)
         /\ <<"expire_interrupt", e>> \in Selected =>
              /\ exec[e].status = "interrupted"
              /\ ClaimedItem("expire_interrupt", e).status = "claimed"
              /\ ClaimedItem("expire_interrupt", e).available_at
                   = RecoveredItem("expire_interrupt", e).available_at
         /\ <<"expire_interrupt", e>> \notin Selected =>
              ClaimedItem("expire_interrupt", e) = RecoveredItem("expire_interrupt", e)
  <1> DEFINE x == <<"execute", e>>
             d == <<"expire_interrupt", e>>
  <1>0. TypeOK /\ RecoveredItem("execute", e) \in WorkItem
               /\ RecoveredItem("expire_interrupt", e) \in WorkItem
    BY ClaimedItemType, KindsAre DEF IInv
  <1>1. /\ x \in Scanned => RecoveredItem("execute", e).status = "pending"
        /\ d \in Scanned => RecoveredItem("expire_interrupt", e).status = "pending"
    BY DEF Scanned, Due
  <1>2. /\ x \in Selected => x \in Scanned /\ ~QueueExpired(x)
        /\ d \in Selected => d \in Scanned
        /\ x \in Visited => x \in Scanned
        /\ d \in Visited => d \in Scanned
    BY DEF Selected, Selectable, Visited
  <1>3. e \in QueueTimeouts <=> x \in Visited /\ QueueExpired(x)
    BY DEF QueueTimeouts
  <1>4. /\ x \in Scanned => ~Stale(x)
        /\ d \in Scanned => ~Stale(d)
        /\ ~QueueExpired(d)
    BY <1>1, RecoveryCoherent DEF Stale, QueueExpired, RecoveredStatus, InFlight
  <1>5. ASSUME NEW k \in Kinds, <<k, e>> \in Selected
        PROVE  /\ ClaimedItem(k, e).status = "claimed"
               /\ ClaimedItem(k, e).available_at = RecoveredItem(k, e).available_at
    <2>1. ASSUME NEW item \in WorkItem, NEW n, NEW t
          PROVE  /\ [item EXCEPT !.status = "claimed", !.fence = n,
                                 !.lease_until = t].status = "claimed"
                 /\ [item EXCEPT !.status = "claimed", !.fence = n,
                                 !.lease_until = t].available_at = item.available_at
      BY DEF WorkItem
    <2>2. ClaimedItem(k, e) =
            [RecoveredItem(k, e) EXCEPT !.status = "claimed", !.fence = @ + 1,
                                        !.lease_until = now + LeaseDuration]
      <3>1. ~Before(<<k, e>>, <<k, e>>)
        <4>1. work[k][e].available_at \in Int /\ WorkItemId[k][e] \in Nat
          BY <1>0, StoreAssumption DEF TypeOK, WorkItem
        <4> QED BY <4>1 DEF Before
      <3>2. <<k, e>> \notin Visited
        BY <1>5, <3>1 DEF Visited
      <3> QED BY <1>5, <3>2 DEF ClaimedItem
    <2>3. RecoveredItem(k, e) \in WorkItem
      BY <1>0, KindsAre
    <2> QED BY <2>1, <2>2, <2>3
  <1>6. /\ x \in Selected => ClaimedItem("execute", e).status = "claimed"
        /\ d \in Selected =>
             /\ ClaimedItem("expire_interrupt", e).status = "claimed"
             /\ ClaimedItem("expire_interrupt", e).available_at
                  = RecoveredItem("expire_interrupt", e).available_at
    BY <1>5, KindsAre
  <1>7. /\ e \in QueueTimeouts /\ x \notin Selected =>
             ClaimedItem("execute", e) = Completed(RecoveredItem("execute", e))
        /\ x \notin Selected /\ ~(x \in Visited /\ (Stale(x) \/ QueueExpired(x))) =>
             ClaimedItem("execute", e) = RecoveredItem("execute", e)
        /\ d \notin Selected /\ ~(d \in Visited /\ (Stale(d) \/ QueueExpired(d))) =>
             ClaimedItem("expire_interrupt", e) = RecoveredItem("expire_interrupt", e)
    BY <1>3 DEF ClaimedItem
  <1>8. e \in QueueTimeouts => ClaimedItem("execute", e).status = "completed"
    BY <1>0, <1>2, <1>3, <1>7, ClosedItems
  <1> QED BY <1>1, <1>2, <1>3, <1>4, <1>6, <1>7, <1>8, RecoveryCoherent

LEMMA ClaimWorkCoherent ==
  ASSUME IInv, ClaimWork, NEW e \in Executions
  PROVE  CoherentAt(e)'
  <1>0. TypeOK /\ CoherentAt(e)
    BY DEF IInv
  <1>1. /\ work'["execute"][e] = ClaimedItem("execute", e)
        /\ work'["expire_interrupt"][e] = ClaimedItem("expire_interrupt", e)
        /\ exec'[e] = ClaimedExec(e)
    BY KindsAre DEF ClaimWork
  <1>2. /\ exec'[e].status = IF e \in QueueTimeouts THEN "timed_out" ELSE RecoveredStatus(e)
        /\ exec'[e].start_authorized = exec[e].start_authorized
        /\ exec'[e].execution_deadline = exec[e].execution_deadline
    BY <1>0, <1>1, Fields DEF ClaimedExec, Execution
  <1>3. e \in admitted' <=> \/ e \in admitted /\ e \notin QueueTimeouts
                            \/ e \notin admitted /\ <<"execute", e>> \in Selected
    BY DEF ClaimWork, NewlyAdmitted
  <1>4. /\ LeaseExpired("execute", e) => work["execute"][e].status = "claimed"
        /\ LeaseExpired("expire_interrupt", e) =>
             work["expire_interrupt"][e].status = "claimed"
        /\ LostAfterStart("execute", e) => LeaseExpired("execute", e)
    BY DEF LeaseExpired, LostAfterStart
  <1>5. /\ LostAfterStart("execute", e) =>
             /\ exec[e].status \in InFlight
             /\ RecoveredItem("execute", e).status = "completed"
        /\ LeaseExpired("execute", e) /\ ~LostAfterStart("execute", e) =>
             /\ RecoveredItem("execute", e).status = "pending"
             /\ exec[e].status = "queued"
        /\ ~LeaseExpired("execute", e) => RecoveredItem("execute", e) = work["execute"][e]
        /\ LeaseExpired("expire_interrupt", e) =>
             /\ RecoveredItem("expire_interrupt", e).status = "pending"
             /\ RecoveredItem("expire_interrupt", e).available_at
                  = work["expire_interrupt"][e].available_at
        /\ ~LeaseExpired("expire_interrupt", e) =>
             RecoveredItem("expire_interrupt", e) = work["expire_interrupt"][e]
    BY RecoveryCoherent
  <1>6. CASE e \in QueueTimeouts
    <2>1. /\ exec[e].status = "queued"
          /\ work'["execute"][e].status = "completed"
          /\ <<"expire_interrupt", e>> \notin Selected
          /\ <<"execute", e>> \notin Selected
      BY <1>1, <1>6, ClaimedItems
    <2>2. work'["expire_interrupt"][e] = RecoveredItem("expire_interrupt", e)
      BY <1>1, <2>1, ClaimedItems
    <2>3. work'["expire_interrupt"][e] = work["expire_interrupt"][e]
      BY <1>0, <1>4, <1>5, <2>1, <2>2 DEF CoherentAt, Coherent, Open
    <2>4. exec'[e].status = "timed_out" /\ e \notin admitted'
      BY <1>2, <1>3, <1>6, <2>1
    <2> QED
      BY <1>0, <1>2, <2>1, <2>3, <2>4
      DEF CoherentAt, Coherent, Open, InFlight, Terminal
  <1>7. CASE e \notin QueueTimeouts
    <2>1. exec'[e].status = RecoveredStatus(e)
      BY <1>2, <1>7
    <2>2. e \in admitted' <=> e \in admitted \/ <<"execute", e>> \in Selected
      BY <1>3, <1>7
    <2>3. /\ work'["expire_interrupt"][e].status \in Open
               <=> work["expire_interrupt"][e].status \in Open
          /\ work["expire_interrupt"][e].status \in Open =>
               work'["expire_interrupt"][e].available_at
                 = work["expire_interrupt"][e].available_at
      <3>1. CASE <<"expire_interrupt", e>> \in Selected
        <4>1. work'["expire_interrupt"][e].status = "claimed"
          BY <1>1, <3>1, ClaimedItems
        <4>2. work'["expire_interrupt"][e].available_at
                = RecoveredItem("expire_interrupt", e).available_at
          BY <1>1, <3>1, ClaimedItems
        <4>3. exec[e].status = "interrupted"
          BY <3>1, ClaimedItems
        <4> QED
          BY <1>0, <1>5, <4>1, <4>2, <4>3 DEF CoherentAt, Coherent, Open
      <3>2. CASE <<"expire_interrupt", e>> \notin Selected
        <4>1. work'["expire_interrupt"][e] = RecoveredItem("expire_interrupt", e)
          BY <1>1, <3>2, ClaimedItems
        <4> QED BY <1>4, <1>5, <4>1 DEF Open
      <3> QED BY <3>1, <3>2
    <2>4. CASE <<"execute", e>> \in Selected
      <3>1. /\ exec[e].status = "queued" /\ ~LostAfterStart("execute", e)
            /\ work'["execute"][e].status = "claimed"
        BY <1>1, <2>4, ClaimedItems
      <3>2. exec'[e].status = "queued" /\ e \in admitted'
        BY <2>1, <2>2, <2>4, <3>1 DEF RecoveredStatus
      <3> QED
        BY <1>0, <1>2, <2>3, <3>1, <3>2
        DEF CoherentAt, Coherent, Open, InFlight, Terminal
    <2>5. CASE <<"execute", e>> \notin Selected
      <3>1. work'["execute"][e] = RecoveredItem("execute", e)
        BY <1>1, <1>7, <2>5, ClaimedItems
      <3>2. e \in admitted' <=> e \in admitted
        BY <2>2, <2>5
      <3>3. CASE LostAfterStart("execute", e)
        <4>1. /\ exec'[e].status = "needs_attention"
              /\ work'["execute"][e].status = "completed"
              /\ exec[e].status \in InFlight
          BY <1>5, <2>1, <3>1, <3>3 DEF RecoveredStatus
        <4> QED
          BY <1>0, <1>2, <2>3, <3>2, <4>1
          DEF CoherentAt, Coherent, Open, InFlight, Terminal
      <3>4. CASE ~LostAfterStart("execute", e)
        <4>1. exec'[e].status = exec[e].status
          BY <2>1, <3>4 DEF RecoveredStatus
        <4>2. \/ work'["execute"][e] = work["execute"][e]
              \/ /\ work'["execute"][e].status = "pending"
                 /\ exec[e].status = "queued"
          BY <1>5, <3>1, <3>4
        <4> QED
          BY <1>0, <1>2, <2>3, <3>2, <4>1, <4>2
          DEF CoherentAt, Coherent, Open, InFlight, Terminal
      <3> QED BY <3>3, <3>4
    <2> QED BY <2>4, <2>5
  <1> QED BY <1>6, <1>7

LEMMA IInvInductive == IInv /\ [StoreNext]_storeVars => IInv'
  <1> SUFFICES ASSUME IInv, [StoreNext]_storeVars
               PROVE  TypeOK' /\ \A e \in Executions : CoherentAt(e)'
    BY DEF IInv
  <1>1. CASE ClaimWork
    BY <1>1, ClaimWorkType, ClaimWorkCoherent DEF IInv
  <1>2. CASE ClaimStep
    BY <1>2, ClaimStepType, ClaimStepCoherent DEF IInv
  <1>3. CASE UserStep
    BY <1>3, UserStepType, UserStepCoherent DEF IInv
  <1>4. CASE Tick \/ UNCHANGED storeVars
    <2>1. exec' = exec /\ work' = work /\ admitted' = admitted
      BY <1>4 DEF Tick, KeepCapacity, storeVars
    <2>2. TypeOK'
      BY <1>4, StoreAssumption DEF IInv, TypeOK, Tick, KeepCapacity, storeVars
    <2> QED BY <2>1, <2>2 DEF IInv, CoherentAt
  <1> QED BY <1>1, <1>2, <1>3, <1>4 DEF StoreNext

LEMMA IInvHolds == StoreSpec => []IInv
  <1>1. StoreInit => IInv
    BY InitType, InitCoherent DEF IInv
  <1> QED BY <1>1, IInvInductive, PTL DEF StoreSpec

\* No work is lost or left over, in any instance of the Store: whatever a status
\* still needs done is the open item that claim_work will find.
THEOREM WorkNeverLost == StoreSpec => []WorkMatchesStatus
  BY IInvHolds, IInvImplies, PTL

\* No execution is ever started twice or returned to the queue once its start was
\* authorised, under any interleaving of claims, lapses, recoveries and cancels.
THEOREM NoAutomaticRestart == StoreSpec => []StartedOnce
  BY IInvHolds, IInvImplies, PTL

\* External work that may still be alive always holds its reserved capacity, and
\* nothing settled does.
THEOREM UncertainKeepsCapacity == StoreSpec => []AdmissionMatchesStatus
  BY IInvHolds, IInvImplies, PTL

-----------------------------------------------------------------------------
\* The counters.

\* Counting what is left of a finite set, and what a disjoint addition gives.
LEMMA CountLess ==
  ASSUME NEW S, IsFiniteSet(S), NEW T
  PROVE  Less(Cardinality(S), Cardinality(S \cap T)) = Cardinality(S \ T)
  <1>1. Cardinality(S \ T) = Cardinality(S) - Cardinality(S \cap T)
    BY FS_Difference
  <1>2. Cardinality(S \cap T) <= Cardinality(S)
    BY FS_Subset
  <1>3. Cardinality(S) \in Nat /\ Cardinality(S \cap T) \in Nat
    BY FS_Subset, FS_CardinalityType
  <1> QED BY <1>1, <1>2, <1>3, LessNat

LEMMA CountMore ==
  ASSUME NEW S, IsFiniteSet(S), NEW T, IsFiniteSet(T), S \cap T = {}
  PROVE  Cardinality(S \cup T) = Cardinality(S) + Cardinality(T)
  <1>1. Cardinality(S \cup T)
          = Cardinality(S) + Cardinality(T) - Cardinality(S \cap T)
    BY FS_Union
  <1>2. Cardinality(S \cap T) = 0
    BY FS_EmptySet
  <1>3. Cardinality(S) \in Nat /\ Cardinality(T) \in Nat
    BY FS_CardinalityType
  <1> QED BY <1>1, <1>2, <1>3

LEMMA ReleaseExact ==
  ASSUME TypeOK, AllocationExact, NEW E, Release(E)
  PROVE  AllocationExact'
  <1>1. IsFiniteSet(admitted)
    BY StoreAssumption, FS_Subset DEF TypeOK
  <1>2. global_allocated' = Cardinality(admitted')
    BY <1>1, CountLess DEF Release, AllocationExact
  <1>3. ASSUME NEW s \in Scopes
        PROVE  scope_allocated'[s] = Cardinality(InScope(admitted', s))
    <2>1. IsFiniteSet(InScope(admitted, s))
      BY <1>1, FS_Subset DEF InScope
    <2>2. /\ InScope(admitted \cap E, s) = InScope(admitted, s) \cap E
          /\ InScope(admitted \ E, s) = InScope(admitted, s) \ E
      BY DEF InScope
    <2>3. Less(Cardinality(InScope(admitted, s)), Cardinality(InScope(admitted, s) \cap E))
            = Cardinality(InScope(admitted, s) \ E)
      BY <2>1, CountLess
    <2> QED BY <2>2, <2>3 DEF Release, AllocationExact
  <1> QED BY <1>2, <1>3 DEF AllocationExact

LEMMA ClaimWorkExact ==
  ASSUME TypeOK, AllocationExact, ClaimWork
  PROVE  AllocationExact'
  <1> DEFINE Kept == admitted \ QueueTimeouts
  <1>1. /\ IsFiniteSet(admitted) /\ IsFiniteSet(NewlyAdmitted) /\ IsFiniteSet(Kept)
        /\ Kept \cap NewlyAdmitted = {}
    BY StoreAssumption, FS_Subset DEF TypeOK, NewlyAdmitted
  <1>2. global_allocated' = Cardinality(admitted')
    <2>1. Less(global_allocated, Cardinality(admitted \cap QueueTimeouts))
            = Cardinality(Kept)
      BY <1>1, CountLess DEF AllocationExact
    <2>2. Cardinality(Kept \cup NewlyAdmitted)
            = Cardinality(Kept) + Cardinality(NewlyAdmitted)
      BY <1>1, CountMore
    <2> QED BY <2>1, <2>2 DEF ClaimWork
  <1>3. ASSUME NEW s \in Scopes
        PROVE  scope_allocated'[s] = Cardinality(InScope(admitted', s))
    <2> DEFINE A == InScope(admitted, s)
               K == InScope(Kept, s)
               N == InScope(NewlyAdmitted, s)
    <2>1. /\ A \subseteq admitted /\ K \subseteq Kept /\ N \subseteq NewlyAdmitted
          /\ InScope(admitted \cap QueueTimeouts, s) = A \cap QueueTimeouts
          /\ K = A \ QueueTimeouts
          /\ K \cap N = {}
          /\ InScope(Kept \cup NewlyAdmitted, s) = K \cup N
      BY <1>1 DEF InScope
    <2>2. IsFiniteSet(A) /\ IsFiniteSet(K) /\ IsFiniteSet(N)
      BY <1>1, <2>1, FS_Subset
    <2>3. Less(Cardinality(A), Cardinality(A \cap QueueTimeouts))
            = Cardinality(A \ QueueTimeouts)
      BY <2>2, CountLess
    <2>4. Cardinality(K \cup N) = Cardinality(K) + Cardinality(N)
      BY <2>1, <2>2, CountMore
    <2>5. scope_allocated[s] = Cardinality(A)
      BY DEF AllocationExact
    <2>6. scope_allocated'[s] =
            Less(scope_allocated[s], Cardinality(InScope(admitted \cap QueueTimeouts, s)))
              + Cardinality(N)
      BY DEF ClaimWork
    <2>7. InScope(admitted', s) = K \cup N
      BY <2>1 DEF ClaimWork
    <2> QED BY <2>1, <2>3, <2>4, <2>5, <2>6, <2>7
  <1> QED BY <1>2, <1>3 DEF AllocationExact

\* Every other step either releases or leaves capacity alone.
LEMMA ExactInductive ==
  TypeOK /\ AllocationExact /\ [StoreNext]_storeVars => AllocationExact'
  <1> SUFFICES ASSUME TypeOK, AllocationExact, [StoreNext]_storeVars
               PROVE  AllocationExact'
    OBVIOUS
  <1>1. KeepCapacity => AllocationExact'
    BY DEF KeepCapacity, AllocationExact
  <1>2. CASE ClaimWork
    BY <1>2, ClaimWorkExact
  <1>3. CASE ClaimStep
    BY <1>1, <1>3, ReleaseExact
    DEF ClaimStep, RenewClaim, AuthorizeStart, MarkInterrupted, FinishExecution
  <1>4. CASE UserStep
    BY <1>1, <1>4, ReleaseExact
    DEF UserStep, EnqueueExecution, MaterializeTask, Insert, DeleteTask,
        CancelExecution, Cancel, RequestCancel, ResolveExecution
  <1>5. CASE Tick
    BY <1>1, <1>5 DEF Tick
  <1>6. CASE UNCHANGED storeVars
    BY <1>1, <1>6 DEF storeVars, KeepCapacity
  <1> QED BY <1>2, <1>3, <1>4, <1>5, <1>6 DEF StoreNext

\* The global and scope counters always equal the number of admitted executions
\* they stand for, so no sequence of reservations, double cancels, queue timeouts
\* and late finishes leaks capacity or lends it twice.
THEOREM CountersExact == StoreSpec => []AllocationExact
  <1>1. StoreInit => AllocationExact
    <2>1. ASSUME StoreInit PROVE AllocationExact
      <3>1. \A s \in Scopes : InScope({}, s) = {}
        BY DEF InScope
      <3> QED BY <2>1, <3>1, FS_EmptySet DEF StoreInit, AllocationExact
    <2> QED BY <2>1
  <1> QED BY <1>1, TypeCorrect, ExactInductive, PTL DEF StoreSpec

-----------------------------------------------------------------------------
\* The bounds.

\* A part of a finite set of executions is finite, and not larger.
LEMMA SmallerPart ==
  ASSUME NEW S \in SUBSET Executions, NEW T \in SUBSET S
  PROVE  /\ IsFiniteSet(S) /\ IsFiniteSet(T)
         /\ Cardinality(S) \in Nat /\ Cardinality(T) \in Nat
         /\ Cardinality(T) <= Cardinality(S)
  <1>1. IsFiniteSet(S)
    BY StoreAssumption, FS_Subset
  <1> QED
    BY <1>1, FS_Subset, FS_CardinalityType

\* One more.
LEMMA OneMore ==
  ASSUME NEW S \in SUBSET Executions, NEW e \in Executions
  PROVE  Cardinality(S \cup {e}) <= Cardinality(S) + 1
  <1>1. IsFiniteSet(S) /\ Cardinality(S) \in Nat
    BY SmallerPart
  <1> QED
    BY <1>1, FS_AddElement

\* The members of S whose limit is not above that of e.
Tighter(S, limit, e) == {d \in S : limit[d] <= limit[e]}

\* A set E of newcomers that fits below the limit of each of them keeps the
\* bound of everybody: who has a limit below all of theirs does not count them,
\* and whoever has a higher one has the room they were checked for.
LEMMA NewcomersFit ==
  ASSUME NEW limit \in [Executions -> Nat], NEW S \in SUBSET Executions,
         NEW E \in SUBSET Executions, NEW n \in Nat,
         Cardinality(S \cup E) <= n, \A c \in E : n <= limit[c],
         \A c \in S : Cardinality(Tighter(S, limit, c)) <= limit[c],
         NEW e \in S \cup E
  PROVE  Cardinality(Tighter(S \cup E, limit, e)) <= limit[e]
  <1>0. /\ limit[e] \in Nat /\ \A c \in E : limit[c] \in Nat
        /\ S \cup E \in SUBSET Executions
        /\ Tighter(S \cup E, limit, e) \in SUBSET (S \cup E)
    BY DEF Tighter
  <1>1. /\ Cardinality(Tighter(S \cup E, limit, e)) <= Cardinality(S \cup E)
        /\ Cardinality(Tighter(S \cup E, limit, e)) \in Nat
        /\ Cardinality(S \cup E) \in Nat
    BY <1>0, SmallerPart
  <1>2. CASE \E c \in E : limit[c] <= limit[e]
    BY <1>0, <1>1, <1>2
  <1>3. CASE \A c \in E : ~(limit[c] <= limit[e])
    <2>1. e \in S /\ Tighter(S \cup E, limit, e) = Tighter(S, limit, e)
      BY <1>0, <1>3 DEF Tighter
    <2> QED
      BY <2>1
  <1> QED
    BY <1>2, <1>3

\* The bound holds of a part as well.
LEMMA PartFits ==
  ASSUME NEW limit \in [Executions -> Nat], NEW S \in SUBSET Executions,
         NEW T \in SUBSET S, NEW e \in T,
         Cardinality(Tighter(S, limit, e)) <= limit[e]
  PROVE  Cardinality(Tighter(T, limit, e)) <= limit[e]
  <1>1. /\ Tighter(S, limit, e) \in SUBSET Executions
        /\ Tighter(T, limit, e) \in SUBSET Tighter(S, limit, e)
    BY DEF Tighter
  <1>2. /\ Cardinality(Tighter(T, limit, e)) <= Cardinality(Tighter(S, limit, e))
        /\ Cardinality(Tighter(T, limit, e)) \in Nat
        /\ Cardinality(Tighter(S, limit, e)) \in Nat
    BY <1>1, SmallerPart
  <1> QED
    BY <1>2

\* The claim order has no ties that go both ways, so at most one is selected.
LEMMA AtMostOneSelected ==
  ASSUME TypeOK, NEW i \in Selected, NEW j \in Selected
  PROVE  i = j
  <1> SUFFICES ASSUME i # j PROVE FALSE
    OBVIOUS
  <1>1. Before(i, j) /\ Before(j, i)
    BY DEF Selected
  <1>2. i \in Kinds \X Executions /\ j \in Kinds \X Executions
    BY DEF Selected, Selectable, Scanned, Due
  <1>3. /\ work[i[1]][i[2]].available_at \in Int /\ work[j[1]][j[2]].available_at \in Int
        /\ WorkItemId[i[1]][i[2]] \in Nat /\ WorkItemId[j[1]][j[2]] \in Nat
    BY <1>2, StoreAssumption DEF TypeOK, WorkItem
  <1> QED
    BY <1>1, <1>3 DEF Before

\* The one execution claim_work admits found room for it, globally and in its
\* scope, among the executions that are still admitted after the call.
LEMMA AdmittedWithRoom ==
  ASSUME TypeOK, AllocationExact, NEW e \in NewlyAdmitted
  PROVE  /\ NewlyAdmitted = {e} /\ e \in Executions \ admitted
         /\ Cardinality(admitted \ QueueTimeouts) < GlobalConcurrency
         /\ Cardinality(InScope(admitted \ QueueTimeouts, ScopeOf[e]))
              < MaxConcurrentRuns[e]
  <1> DEFINE i == <<"execute", e>>
             R == ReturnedBefore(i)
             s == ScopeOf[e]
  <1>1. e \in Executions \ admitted /\ i \in Selected /\ s \in Scopes
    BY StoreAssumption DEF NewlyAdmitted
  <1>2. Selected = {i}
    BY <1>1, AtMostOneSelected
  <1>3. NewlyAdmitted = {e}
    <2>1. \A c \in NewlyAdmitted : <<"execute", c>> = <<"execute", e>>
      BY <1>2 DEF NewlyAdmitted
    <2> QED
      BY <2>1
  <1>4. R = admitted \cap QueueTimeouts
    <2>1. Visited = {j \in Scanned : Before(j, i)}
      BY <1>2 DEF Visited
    <2>2. \A c \in Executions :
            c \in QueueTimeouts <=>
              /\ <<"execute", c>> \in Scanned /\ Before(<<"execute", c>>, i)
              /\ QueueExpired(<<"execute", c>>)
      BY <2>1 DEF QueueTimeouts
    <2>3. \A c \in admitted :
            c \in R <=> /\ <<"execute", c>> \in Scanned
                        /\ QueueExpired(<<"execute", c>>) /\ Before(<<"execute", c>>, i)
      BY DEF ReturnedBefore
    <2>4. R \subseteq admitted /\ admitted \subseteq Executions
      BY DEF ReturnedBefore, TypeOK
    <2> QED
      BY <2>2, <2>3, <2>4
  <1>5. i[1] = "execute" /\ i[2] = e
    OBVIOUS
  <1>6. /\ Less(global_allocated, Cardinality(R)) < GlobalConcurrency
        /\ Less(scope_allocated[s], Cardinality(InScope(R, s))) < MaxConcurrentRuns[e]
    <2>1. Reservable(i)
      BY <1>1 DEF Selected, Selectable
    <2> HIDE DEF i
    <2> QED
      BY <1>1, <1>5, <2>1 DEF Reservable
  <1>7. IsFiniteSet(admitted) /\ IsFiniteSet(InScope(admitted, s))
    BY SmallerPart DEF TypeOK, InScope
  <1>8. /\ InScope(admitted \cap QueueTimeouts, s) = InScope(admitted, s) \cap QueueTimeouts
        /\ InScope(admitted \ QueueTimeouts, s) = InScope(admitted, s) \ QueueTimeouts
    BY DEF InScope
  <1>9. /\ global_allocated = Cardinality(admitted)
        /\ scope_allocated[s] = Cardinality(InScope(admitted, s))
    BY <1>1 DEF AllocationExact
  <1>10. Cardinality(admitted \ QueueTimeouts) < GlobalConcurrency
    BY <1>4, <1>6, <1>7, <1>9, CountLess
  <1>11. Cardinality(InScope(admitted \ QueueTimeouts, s)) < MaxConcurrentRuns[e]
    BY <1>4, <1>6, <1>7, <1>8, <1>9, CountLess
  <1> QED
    BY <1>1, <1>3, <1>10, <1>11

\* The concurrency bound, scope by scope.
LEMMA ConcurrencyByScope ==
  ASSUME TypeOK
  PROVE  WithinConcurrency <=>
           /\ Cardinality(admitted) <= GlobalConcurrency
           /\ \A s \in Scopes : \A e \in InScope(admitted, s) :
                Cardinality(Tighter(InScope(admitted, s), MaxConcurrentRuns, e))
                  <= MaxConcurrentRuns[e]
  <1>1. /\ \A e \in admitted : ScopeOf[e] \in Scopes /\ e \in InScope(admitted, ScopeOf[e])
        /\ \A s \in Scopes : \A e \in InScope(admitted, s) : e \in admitted /\ ScopeOf[e] = s
    BY StoreAssumption DEF TypeOK, InScope
  <1> QED
    BY <1>1 DEF WithinConcurrency, Tighter

\* The limits are numbers.
LEMMA Limits ==
  /\ MaxConcurrentRuns \in [Executions -> Nat]
  /\ MaxQueuedRuns \in [Executions -> Nat]
  /\ GlobalConcurrency \in Nat
  BY StoreAssumption

\* Fewer admitted executions are within the bound.
LEMMA FewerAdmitted ==
  ASSUME TypeOK, TypeOK', WithinConcurrency, admitted' \subseteq admitted
  PROVE  WithinConcurrency'
  <1>1. Cardinality(admitted') <= GlobalConcurrency
    <2>1. /\ Cardinality(admitted') <= Cardinality(admitted)
          /\ Cardinality(admitted') \in Nat /\ Cardinality(admitted) \in Nat
      BY SmallerPart DEF TypeOK
    <2> QED
      BY <2>1, Limits DEF WithinConcurrency
  <1>2. ASSUME NEW s \in Scopes, NEW e \in InScope(admitted', s)
        PROVE  Cardinality(Tighter(InScope(admitted', s), MaxConcurrentRuns, e))
                 <= MaxConcurrentRuns[e]
    <2>1. /\ InScope(admitted, s) \in SUBSET Executions
          /\ InScope(admitted', s) \in SUBSET InScope(admitted, s)
          /\ e \in InScope(admitted, s)
      BY DEF TypeOK, InScope
    <2>2. Cardinality(Tighter(InScope(admitted, s), MaxConcurrentRuns, e))
            <= MaxConcurrentRuns[e]
      BY <2>1, ConcurrencyByScope
    <2> QED
      BY <2>1, <2>2, PartFits, Limits
  <1>3. \A e \in admitted' : ScopeOf[e] \in Scopes /\ e \in InScope(admitted', ScopeOf[e])
    BY StoreAssumption DEF TypeOK, InScope
  <1> QED
    BY <1>1, <1>2, <1>3 DEF WithinConcurrency, Tighter

\* claim_work.
LEMMA ClaimWorkWithin ==
  ASSUME TypeOK, TypeOK', AllocationExact, WithinConcurrency, ClaimWork
  PROVE  WithinConcurrency'
  <1> DEFINE Kept == admitted \ QueueTimeouts
  <1>0. admitted' = Kept \cup NewlyAdmitted /\ Kept \in SUBSET Executions
    BY DEF ClaimWork, TypeOK
  <1>1. CASE NewlyAdmitted = {}
    BY <1>0, <1>1, FewerAdmitted
  <1>2. CASE NewlyAdmitted # {}
    <2> PICK e \in NewlyAdmitted : TRUE
      BY <1>2
    <2>1. /\ NewlyAdmitted = {e} /\ e \in Executions
          /\ Cardinality(Kept) < GlobalConcurrency
          /\ Cardinality(InScope(Kept, ScopeOf[e])) < MaxConcurrentRuns[e]
      BY AdmittedWithRoom
    <2>2. Cardinality(admitted') <= GlobalConcurrency
      <3>1. /\ Cardinality(Kept \cup {e}) <= Cardinality(Kept) + 1
            /\ Cardinality(Kept) \in Nat /\ Cardinality(Kept \cup {e}) \in Nat
        BY <1>0, <2>1, OneMore, SmallerPart
      <3> QED
        BY <1>0, <2>1, <3>1, Limits
    <2>3. ASSUME NEW s \in Scopes
          PROVE  /\ InScope(Kept, s) \in SUBSET Executions
                 /\ \A c \in InScope(Kept, s) :
                      Cardinality(Tighter(InScope(Kept, s), MaxConcurrentRuns, c))
                        <= MaxConcurrentRuns[c]
      <3>1. /\ InScope(admitted, s) \in SUBSET Executions
            /\ InScope(Kept, s) \in SUBSET InScope(admitted, s)
        BY DEF TypeOK, InScope
      <3>2. \A c \in InScope(Kept, s) :
              Cardinality(Tighter(InScope(admitted, s), MaxConcurrentRuns, c))
                <= MaxConcurrentRuns[c]
        BY <3>1, ConcurrencyByScope
      <3> QED
        BY <3>1, <3>2, PartFits, Limits
    <2>4. ASSUME NEW s \in Scopes, NEW c \in InScope(admitted', s)
          PROVE  Cardinality(Tighter(InScope(admitted', s), MaxConcurrentRuns, c))
                   <= MaxConcurrentRuns[c]
      <3>1. CASE s # ScopeOf[e]
        <4>1. InScope(admitted', s) = InScope(Kept, s)
          BY <1>0, <2>1, <3>1 DEF InScope
        <4> QED
          BY <2>3, <2>4, <4>1
      <3>2. CASE s = ScopeOf[e]
        <4> DEFINE S == InScope(Kept, s)
        <4>1. InScope(admitted', s) = S \cup {e} /\ {e} \in SUBSET Executions
          BY <1>0, <2>1, <3>2 DEF InScope
        <4>2. /\ Cardinality(S \cup {e}) <= Cardinality(S) + 1
              /\ Cardinality(S) \in Nat /\ Cardinality(S \cup {e}) \in Nat
          BY <2>1, <2>3, OneMore, SmallerPart
        <4>3. MaxConcurrentRuns[e] \in Nat /\ Cardinality(S) < MaxConcurrentRuns[e]
          BY <2>1, <3>2, Limits
        <4>4. Cardinality(S \cup {e}) <= MaxConcurrentRuns[e]
          BY <4>2, <4>3
        <4>5. \A d \in {e} : MaxConcurrentRuns[e] <= MaxConcurrentRuns[d]
          BY <4>3
        <4>6. S \in SUBSET Executions /\ c \in S \cup {e}
          BY <2>3, <2>4, <4>1
        <4>7. \A d \in S : Cardinality(Tighter(S, MaxConcurrentRuns, d))
                             <= MaxConcurrentRuns[d]
          BY <2>3
        <4> HIDE DEF S
        <4>8. Cardinality(Tighter(S \cup {e}, MaxConcurrentRuns, c)) <= MaxConcurrentRuns[c]
          BY <4>1, <4>3, <4>4, <4>5, <4>6, <4>7, NewcomersFit, Limits
        <4> QED
          BY <4>1, <4>8
      <3> QED
        BY <3>1, <3>2
    <2>5. \A c \in admitted' : ScopeOf[c] \in Scopes /\ c \in InScope(admitted', ScopeOf[c])
      BY StoreAssumption DEF TypeOK, InScope
    <2> QED
      BY <2>2, <2>4, <2>5 DEF WithinConcurrency, Tighter
  <1> QED
    BY <1>1, <1>2

\* Only claim_work admits.
LEMMA OnlyClaimWorkAdmits ==
  ASSUME [StoreNext]_storeVars
  PROVE  ClaimWork \/ admitted' \subseteq admitted
  <1>1. (KeepCapacity => admitted' \subseteq admitted)
    BY DEF KeepCapacity
  <1>2. \A E : Release(E) => admitted' \subseteq admitted
    BY DEF Release
  <1>3. CASE ClaimStep
    BY <1>1, <1>2, <1>3
    DEF ClaimStep, RenewClaim, AuthorizeStart, MarkInterrupted, FinishExecution
  <1>4. CASE UserStep
    BY <1>1, <1>2, <1>4
    DEF UserStep, EnqueueExecution, MaterializeTask, Insert, DeleteTask,
        CancelExecution, Cancel, RequestCancel, ResolveExecution
  <1>5. CASE Tick
    BY <1>1, <1>5 DEF Tick
  <1>6. CASE UNCHANGED storeVars
    BY <1>1, <1>6 DEF storeVars, KeepCapacity
  <1> QED
    BY <1>3, <1>4, <1>5, <1>6 DEF StoreNext

\* The reserved concurrency never exceeds a limit, globally or in a scope whose
\* executions were saved under different limits: what a claim checks before it
\* reserves, with the capacity that the same call gave back, is what it adds to.
THEOREM ConcurrencyBounded == StoreSpec => []WithinConcurrency
  <1>1. StoreInit => WithinConcurrency
    <2>1. ASSUME StoreInit PROVE WithinConcurrency
      <3>1. admitted = {} /\ Cardinality({}) = 0
        BY <2>1, FS_EmptySet DEF StoreInit
      <3> QED
        BY <3>1, Limits DEF WithinConcurrency
    <2> QED
      BY <2>1
  <1>2. TypeOK /\ TypeOK' /\ AllocationExact /\ WithinConcurrency /\ [StoreNext]_storeVars
          => WithinConcurrency'
    BY OnlyClaimWorkAdmits, FewerAdmitted, ClaimWorkWithin
  <1> QED
    BY <1>1, <1>2, TypeCorrect, CountersExact, PTL DEF StoreSpec

\* Newly inserted executions are within the queue bound of their scope.
LEMMA InsertWithin ==
  ASSUME TypeOK, WithinQueue, NEW E \in SUBSET Executions, QueueCapacity(E), Insert(E),
         \A e, f \in E : ScopeOf[e] = ScopeOf[f]
  PROVE  WithinQueue'
  <1> SUFFICES ASSUME NEW s \in Scopes, NEW e \in QueuedIn(s)'
               PROVE  Cardinality(Tighter(QueuedIn(s)', MaxQueuedRuns, e)) <= MaxQueuedRuns[e]
    BY DEF WithinQueue, Tighter
  <1> DEFINE S == QueuedIn(s)
             F == InScope(E, s)
  <1>1. /\ S \in SUBSET Executions /\ F \in SUBSET Executions /\ F \in SUBSET E
        /\ \A c \in S : Cardinality(Tighter(S, MaxQueuedRuns, c)) <= MaxQueuedRuns[c]
    BY DEF QueuedIn, InScope, WithinQueue, Tighter
  <1>2. QueuedIn(s)' \subseteq S \cup F
    BY DEF QueuedIn, InScope, Insert
  <1>3. S \cup F \subseteq QueuedIn(s)'
    <2>1. NewExecution(now).status = "queued"
      BY DEF NewExecution
    <2> QED
      BY <2>1 DEF QueuedIn, InScope, Insert
  <1>4. QueuedIn(s)' = S \cup F
    BY <1>2, <1>3
  <1>5. CASE F = {}
    <2>1. QueuedIn(s)' = S
      BY <1>4, <1>5
    <2> QED
      BY <1>1, <2>1
  <1>6. CASE F # {}
    <2> DEFINE n == Cardinality(S) + Cardinality(F)
    <2>1. /\ IsFiniteSet(S) /\ IsFiniteSet(F) /\ Cardinality(S) \in Nat
          /\ Cardinality(F) \in Nat /\ Cardinality(E) \in Nat
          /\ Cardinality(F) <= Cardinality(E)
      BY <1>1, SmallerPart
    <2>2. n \in Nat /\ Cardinality(S \cup F) <= n
      <3>1. Cardinality(S \cup F) = Cardinality(S) + Cardinality(F) - Cardinality(S \cap F)
        BY <2>1, FS_Union
      <3>2. Cardinality(S \cap F) \in Nat
        BY <1>1, SmallerPart
      <3> QED
        BY <2>1, <3>1, <3>2
    <2>3. ASSUME NEW c \in F PROVE n <= MaxQueuedRuns[c]
      <3>1. Cardinality(S) + Cardinality(E) <= MaxQueuedRuns[c]
        BY <1>1 DEF QueueCapacity, InScope
      <3>2. MaxQueuedRuns[c] \in Nat
        BY <1>1, Limits
      <3> QED
        BY <2>1, <3>1, <3>2
    <2>4. e \in S \cup F
      BY <1>4
    <2> HIDE DEF S, F, n
    <2>5. Cardinality(Tighter(S \cup F, MaxQueuedRuns, e)) <= MaxQueuedRuns[e]
      BY <1>1, <2>2, <2>3, <2>4, NewcomersFit, Limits
    <2> QED
      BY <1>4, <2>5
  <1> QED
    BY <1>5, <1>6

\* Nothing but an insertion puts an execution into the queue.
LEMMA OnlyInsertQueues ==
  ASSUME TypeOK, [StoreNext]_storeVars, NEW e \in Executions, exec'[e].status = "queued"
  PROVE  \/ exec[e].status = "queued"
         \/ \E c \in Executions : EnqueueExecution(c)
         \/ \E E \in SUBSET Executions : MaterializeTask(E)
  <1>0. exec \in [Executions -> Execution] /\ exec[e] \in Execution
    BY DEF TypeOK
  <1>1. CASE ClaimWork
    <2>1. exec'[e] = ClaimedExec(e)
      BY <1>1 DEF ClaimWork
    <2>2. ClaimedExec(e).status =
            IF e \in QueueTimeouts THEN "timed_out" ELSE RecoveredStatus(e)
      BY <1>0 DEF ClaimedExec, Execution
    <2> QED
      BY <2>1, <2>2 DEF RecoveredStatus
  <1>2. CASE ClaimStep
    <2> PICK c \in Executions, k \in Kinds :
          \E f \in 1..work[k][c].fence :
            \/ RenewClaim(k, c, f)
            \/ k = "execute" /\ AuthorizeStart(c, f)
            \/ MarkInterrupted(k, c, f)
            \/ \E status \in Outcomes \cup {"needs_attention"} :
                 FinishExecution(k, c, f, status)
      BY <1>2 DEF ClaimStep
    <2>1. \/ exec' = exec
          \/ \E d : exec' = [exec EXCEPT ![c].status = "running",
                               ![c].start_authorized = TRUE, ![c].execution_deadline = d]
          \/ \E status \in Outcomes \cup {"interrupted", "needs_attention"} :
               exec' = [exec EXCEPT ![c].status = status]
      BY DEF RenewClaim, AuthorizeStart, MarkInterrupted, FinishExecution
    <2>2. "queued" \notin Outcomes
      BY StoreAssumption DEF Terminal
    <2> QED
      BY <1>0, <2>1, <2>2 DEF Execution
  <1>3. CASE UserStep
    <2>1. CASE \E s \in Scopes : DeleteTask(s)
      BY <1>0, <2>1 DEF DeleteTask, Cancel, Execution
    <2>2. CASE \E c \in Executions : CancelExecution(c)
      BY <1>0, <2>2 DEF CancelExecution, Cancel, RequestCancel, Execution
    <2>3. CASE \E c \in Executions : \E outcome \in Outcomes : ResolveExecution(c, outcome)
      <3>1. "queued" \notin Outcomes
        BY StoreAssumption DEF Terminal
      <3> QED
        BY <1>0, <2>3, <3>1 DEF ResolveExecution, Execution
    <2> QED
      BY <1>3, <2>1, <2>2, <2>3 DEF UserStep
  <1>4. CASE Tick \/ UNCHANGED storeVars
    BY <1>4 DEF Tick, storeVars
  <1> QED
    BY <1>1, <1>2, <1>3, <1>4 DEF StoreNext

\* A shorter queue is within the bound.
LEMMA FewerQueued ==
  ASSUME WithinQueue,
         \A e \in Executions : exec'[e].status = "queued" => exec[e].status = "queued"
  PROVE  WithinQueue'
  <1> SUFFICES ASSUME NEW s \in Scopes, NEW e \in QueuedIn(s)'
               PROVE  Cardinality(Tighter(QueuedIn(s)', MaxQueuedRuns, e)) <= MaxQueuedRuns[e]
    BY DEF WithinQueue, Tighter
  <1>1. /\ QueuedIn(s) \in SUBSET Executions /\ QueuedIn(s)' \in SUBSET QueuedIn(s)
        /\ Cardinality(Tighter(QueuedIn(s), MaxQueuedRuns, e)) <= MaxQueuedRuns[e]
    BY DEF QueuedIn, WithinQueue, Tighter
  <1> QED
    BY <1>1, PartFits, Limits

\* The queue of a scope never exceeds the limit of an execution in it, counting
\* those saved under the same or a lower limit: a batch of due occurrences is
\* admitted as a whole or not at all.
THEOREM QueueBounded == StoreSpec => []WithinQueue
  <1>1. StoreInit => WithinQueue
    BY DEF StoreInit, NoExecution, WithinQueue, QueuedIn
  <1>2. TypeOK /\ WithinQueue /\ [StoreNext]_storeVars => WithinQueue'
    <2> SUFFICES ASSUME TypeOK, WithinQueue, [StoreNext]_storeVars PROVE WithinQueue'
      OBVIOUS
    <2>1. CASE \E c \in Executions : EnqueueExecution(c)
      BY <2>1, InsertWithin DEF EnqueueExecution
    <2>2. CASE \E E \in SUBSET Executions : MaterializeTask(E)
      BY <2>2, InsertWithin DEF MaterializeTask
    <2> QED
      BY <2>1, <2>2, OnlyInsertQueues, FewerQueued
  <1> QED
    BY <1>1, <1>2, TypeCorrect, PTL DEF StoreSpec

-----------------------------------------------------------------------------
\* What is over stays over.

\* What a recovery and a claim do to an item that is not open: nothing.
LEMMA ClosedStaysClosed ==
  ASSUME TypeOK, NEW k \in Kinds, NEW e \in Executions, work[k][e].status \notin Open
  PROVE  /\ ClaimedItem(k, e) = work[k][e]
         /\ <<k, e>> \notin Scanned
         /\ ~LeaseExpired(k, e)
  <1>1. ~LeaseExpired(k, e) /\ ~LostAfterStart(k, e)
    BY DEF LeaseExpired, LostAfterStart, Open
  <1>2. RecoveredItem(k, e) = work[k][e]
    BY <1>1 DEF RecoveredItem
  <1>3. <<k, e>> \notin Scanned
    BY <1>2 DEF Scanned, Due, Open
  <1>4. <<k, e>> \notin Selected /\ <<k, e>> \notin Visited
    BY <1>3 DEF Selected, Selectable, Visited
  <1> QED
    BY <1>1, <1>2, <1>3, <1>4 DEF ClaimedItem

Settled(e) == exec[e].status \in Terminal \cup {"needs_attention"}

\* The items of a settled execution are closed.
LEMMA SettledIsClosed ==
  ASSUME IInv, NEW e \in Executions, Settled(e), NEW k \in Kinds
  PROVE  work[k][e].status \notin Open
  BY KindsAre DEF IInv, CoherentAt, Coherent, Settled, Open, InFlight, Terminal

\* A step leaves a settled execution alone, or is its resolution.
LEMMA SettledStep ==
  ASSUME IInv, [StoreNext]_storeVars, NEW e \in Executions, Settled(e)
  PROVE  /\ \A k \in Kinds : work'[k][e] = work[k][e]
         /\ \/ exec'[e] = exec[e]
            \/ /\ exec[e].status = "needs_attention"
               /\ \E outcome \in Outcomes : ResolveExecution(e, outcome)
  <1>0. /\ TypeOK /\ exec \in [Executions -> Execution] /\ exec[e] \in Execution
        /\ work \in [Kinds -> [Executions -> WorkItem]]
        /\ \A k \in Kinds : work[k][e].status \notin Open
        /\ exec[e].status \notin {"absent", "queued", "running", "interrupted"}
    BY SettledIsClosed DEF IInv, TypeOK, Settled, Terminal
  <1>1. CASE ClaimWork
    <2>1. \A k \in Kinds : work'[k][e] = work[k][e]
      BY <1>0, <1>1, ClosedStaysClosed DEF ClaimWork
    <2>2. e \notin QueueTimeouts /\ ~LostAfterStart("execute", e)
      BY <1>0, ClosedStaysClosed, KindsAre DEF QueueTimeouts, Visited, LostAfterStart
    <2>3. exec'[e] = [exec[e] EXCEPT !.status = exec[e].status]
      BY <1>1, <2>2 DEF ClaimWork, ClaimedExec, RecoveredStatus
    <2>4. exec'[e] = exec[e]
      BY <1>0, <2>3 DEF Execution
    <2> QED
      BY <2>1, <2>4
  <1>2. CASE ClaimStep
    <2> PICK c \in Executions, k \in Kinds :
          \E f \in 1..work[k][c].fence :
            \/ RenewClaim(k, c, f)
            \/ k = "execute" /\ AuthorizeStart(c, f)
            \/ MarkInterrupted(k, c, f)
            \/ \E status \in Outcomes \cup {"needs_attention"} :
                 FinishExecution(k, c, f, status)
      BY <1>2 DEF ClaimStep
    <2>1. work[k][c].status = "claimed"
      BY KindsAre DEF RenewClaim, AuthorizeStart, MarkInterrupted, FinishExecution, ValidClaim
    <2>2. c # e
      BY <1>0, <2>1 DEF Open
    <2>3. exec'[e] = exec[e]
      BY <1>0, <2>2 DEF RenewClaim, AuthorizeStart, MarkInterrupted, FinishExecution
    <2>4. \A kk \in Kinds : work'[kk][e] = work[kk][e]
      BY <1>0, <2>2 DEF RenewClaim, AuthorizeStart, MarkInterrupted, FinishExecution
    <2> QED
      BY <2>3, <2>4
  <1>3. CASE UserStep
    <2>1. ASSUME NEW E, Insert(E), \A c \in E : exec[c].status = "absent"
          PROVE  exec'[e] = exec[e] /\ \A k \in Kinds : work'[k][e] = work[k][e]
      BY <1>0, <2>1, KindsAre DEF Insert
    <2>2. ASSUME NEW E, Cancel(E), \A c \in E : exec[c].status \in {"queued", "interrupted"}
          PROVE  exec'[e] = exec[e] /\ \A k \in Kinds : work'[k][e] = work[k][e]
      BY <1>0, <2>2 DEF Cancel
    <2>3. ASSUME NEW c \in Executions, CancelExecution(c)
          PROVE  exec'[e] = exec[e] /\ \A k \in Kinds : work'[k][e] = work[k][e]
      <3>1. CASE exec[c].status = "running" /\ RequestCancel(c)
        BY <1>0, <3>1 DEF RequestCancel
      <3> QED
        BY <2>2, <2>3, <3>1 DEF CancelExecution
    <2>4. ASSUME NEW s \in Scopes, DeleteTask(s)
          PROVE  exec'[e] = exec[e] /\ \A k \in Kinds : work'[k][e] = work[k][e]
      BY <2>2, <2>4 DEF DeleteTask, QueuedIn
    <2>5. ASSUME NEW c \in Executions, NEW outcome \in Outcomes, ResolveExecution(c, outcome)
          PROVE  /\ \A k \in Kinds : work'[k][e] = work[k][e]
                 /\ \/ exec'[e] = exec[e]
                    \/ /\ exec[e].status = "needs_attention"
                       /\ \E o \in Outcomes : ResolveExecution(e, o)
      <3>1. work' = work /\ exec[c].status = "needs_attention"
        BY <2>5 DEF ResolveExecution
      <3>2. c # e => exec'[e] = exec[e]
        BY <1>0, <2>5 DEF ResolveExecution
      <3> QED
        BY <2>5, <3>1, <3>2
    <2>6. CASE \E c \in Executions : EnqueueExecution(c)
      BY <2>1, <2>6 DEF EnqueueExecution
    <2>7. CASE \E E \in SUBSET Executions : MaterializeTask(E)
      BY <2>1, <2>7 DEF MaterializeTask
    <2> QED
      BY <1>3, <2>3, <2>4, <2>5, <2>6, <2>7 DEF UserStep
  <1>4. CASE Tick \/ UNCHANGED storeVars
    BY <1>4 DEF Tick, storeVars
  <1> QED
    BY <1>1, <1>2, <1>3, <1>4 DEF StoreNext

\* A terminal execution and its items never change again, whatever claims are
\* presented late, and an uncertain one ends only by an explicit resolution.
THEOREM SettledNeverReopens == StoreSpec => SettledIsFinal
  <1>1. IInv /\ [StoreNext]_storeVars =>
          [\A e \in Executions :
             exec[e].status \in Terminal \cup {"needs_attention"} =>
               /\ \A k \in Kinds : work'[k][e] = work[k][e]
               /\ \/ exec'[e] = exec[e]
                  \/ /\ exec[e].status = "needs_attention"
                     /\ \E outcome \in Outcomes : ResolveExecution(e, outcome)]_storeVars
    BY SettledStep DEF Settled
  <1> QED
    BY <1>1, IInvHolds, PTL DEF StoreSpec, SettledIsFinal

\* How a step leaves an item claimed: as it was, renewed under a claim that is
\* still good, or claimed anew under the next fence.
LEMMA ClaimedAfter ==
  ASSUME TypeOK, [StoreNext]_storeVars, NEW k \in Kinds, NEW e \in Executions,
         work'[k][e].status = "claimed"
  PROVE  \/ work'[k][e] = work[k][e] /\ now <= now'
         \/ ValidClaim(k, e, work[k][e].fence) /\ work'[k][e].fence = work[k][e].fence
         \/ work'[k][e].fence = work[k][e].fence + 1
  <1>0. /\ work \in [Kinds -> [Executions -> WorkItem]] /\ work[k][e] \in WorkItem
        /\ now \in Int
    BY DEF TypeOK
  <1>1. CASE ClaimWork
    <2>1. work'[k][e] = ClaimedItem(k, e) /\ now' = now
      BY <1>1 DEF ClaimWork
    <2>2. /\ RecoveredItem(k, e) \in WorkItem
          /\ RecoveredItem(k, e).fence = work[k][e].fence
          /\ RecoveredItem(k, e) = work[k][e] \/ RecoveredItem(k, e).status # "claimed"
      <3>1. [work[k][e] EXCEPT !.status = "pending", !.lease_until = None].fence
              = work[k][e].fence
            /\ [work[k][e] EXCEPT !.status = "pending", !.lease_until = None].status
              = "pending"
        BY <1>0, NoneInt DEF WorkItem
      <3> QED
        BY <1>0, <3>1, ClosedItems, ClaimedItemType DEF RecoveredItem
    <2>3. CASE <<k, e>> \in Selected
      <3>1. ~Before(<<k, e>>, <<k, e>>)
        <4>1. work[k][e].available_at \in Int /\ WorkItemId[k][e] \in Nat
          BY <1>0, StoreAssumption DEF WorkItem
        <4> QED
          BY <4>1 DEF Before
      <3>2. <<k, e>> \notin Visited
        BY <2>3, <3>1 DEF Visited
      <3>3. ClaimedItem(k, e) =
              [RecoveredItem(k, e) EXCEPT !.status = "claimed", !.fence = @ + 1,
                                          !.lease_until = now + LeaseDuration]
        BY <2>3, <3>2 DEF ClaimedItem
      <3>4. ASSUME NEW item \in WorkItem, NEW n, NEW t
            PROVE  [item EXCEPT !.status = "claimed", !.fence = n, !.lease_until = t].fence = n
        BY DEF WorkItem
      <3>5. ClaimedItem(k, e).fence = RecoveredItem(k, e).fence + 1
        BY <2>2, <3>3, <3>4
      <3> QED
        BY <2>1, <2>2, <3>5
    <2>4. CASE <<k, e>> \notin Selected
      <3>1. \/ ClaimedItem(k, e) = Completed(RecoveredItem(k, e))
            \/ ClaimedItem(k, e) = RecoveredItem(k, e)
        BY <2>4 DEF ClaimedItem
      <3>2. ClaimedItem(k, e) = work[k][e]
        BY <2>1, <2>2, <3>1, ClosedItems
      <3> QED
        BY <1>0, <2>1, <3>2
    <2> QED
      BY <2>3, <2>4
  <1>2. CASE ClaimStep
    <2> PICK c \in Executions, kk \in Kinds :
          \E f \in 1..work[kk][c].fence :
            \/ RenewClaim(kk, c, f)
            \/ kk = "execute" /\ AuthorizeStart(c, f)
            \/ MarkInterrupted(kk, c, f)
            \/ \E status \in Outcomes \cup {"needs_attention"} :
                 FinishExecution(kk, c, f, status)
      BY <1>2 DEF ClaimStep
    <2>0. now' = now
      BY DEF RenewClaim, AuthorizeStart, MarkInterrupted, FinishExecution
    <2>1. ASSUME NEW f, RenewClaim(kk, c, f)
          PROVE  \/ work'[k][e] = work[k][e]
                 \/ /\ ValidClaim(k, e, work[k][e].fence)
                    /\ work'[k][e].fence = work[k][e].fence
      <3>1. CASE kk = k /\ c = e
        <4>1. work'[k][e] = [work[k][e] EXCEPT !.lease_until = now + LeaseDuration]
          BY <1>0, <2>1, <3>1 DEF RenewClaim
        <4>2. work'[k][e].fence = work[k][e].fence
          BY <1>0, <4>1 DEF WorkItem
        <4> QED
          BY <2>1, <3>1, <4>2 DEF RenewClaim, ValidClaim
      <3>2. CASE ~(kk = k /\ c = e)
        BY <1>0, <2>1, <3>2 DEF RenewClaim
      <3> QED
        BY <3>1, <3>2
    <2>2. ASSUME NEW f, MarkInterrupted(kk, c, f)
          PROVE  work'[k][e] = work[k][e]
      <3>1. \/ work'[k][e] = work[k][e]
            \/ work'[k][e] = Opened(work[k][e], exec[e].execution_deadline)
            \/ work'[k][e] = Completed(work[k][e])
        BY <1>0, <2>2 DEF MarkInterrupted
      <3>2. \A t : Opened(work[k][e], t).status = "pending"
        BY <1>0 DEF Opened, WorkItem
      <3> QED
        BY <1>0, <3>1, <3>2, ClosedItems
    <2>3. ASSUME NEW f, NEW status, FinishExecution(kk, c, f, status)
          PROVE  work'[k][e] = work[k][e]
      <3>1. work'[k][e] = work[k][e] \/ work'[k][e] = AllCompleted(work[k][e])
        BY <1>0, <2>3 DEF FinishExecution
      <3> QED
        BY <1>0, <3>1, ClosedItems
    <2>4. ASSUME NEW f, AuthorizeStart(c, f)
          PROVE  work'[k][e] = work[k][e]
      BY <2>4 DEF AuthorizeStart
    <2> QED
      BY <1>0, <2>0, <2>1, <2>2, <2>3, <2>4
  <1>3. CASE UserStep
    <2>0. now' = now
      BY <1>3 DEF UserStep, EnqueueExecution, MaterializeTask, Insert, DeleteTask,
                  CancelExecution, Cancel, RequestCancel, ResolveExecution
    <2>1. ASSUME NEW E, Insert(E) PROVE work'[k][e] = work[k][e]
      <3>1. work'[k][e] = work[k][e] \/ work'[k][e] = Opened(NoWork, now)
        BY <1>0, <2>1, KindsAre DEF Insert
      <3>2. Opened(NoWork, now).status = "pending"
        BY DEF Opened, NoWork
      <3> QED
        BY <3>1, <3>2
    <2>2. ASSUME NEW E, Cancel(E) PROVE work'[k][e] = work[k][e]
      <3>1. work'[k][e] = work[k][e] \/ work'[k][e] = AllCompleted(work[k][e])
        BY <1>0, <2>2 DEF Cancel
      <3> QED
        BY <1>0, <3>1, ClosedItems
    <2>3. work'[k][e] = work[k][e]
      BY <1>3, <2>1, <2>2
         DEF UserStep, EnqueueExecution, MaterializeTask, DeleteTask, CancelExecution,
             RequestCancel, ResolveExecution
    <2> QED
      BY <1>0, <2>0, <2>3
  <1>4. CASE Tick \/ UNCHANGED storeVars
    BY <1>0, <1>4 DEF Tick, storeVars
  <1> QED
    BY <1>1, <1>2, <1>3, <1>4 DEF StoreNext

\* Once its lease has lapsed, a claim is never good again under its fence: a
\* late renewal is refused and a recovered item gets another fence.
THEOREM LapseIsFinal == StoreSpec => LapsedClaimNeverRevives
  <1>1. TypeOK /\ TypeOK' /\ [StoreNext]_storeVars =>
          [\A k \in Kinds, e \in Executions, f \in 1..MaxFence :
             Live(k, e, f)' => Live(k, e, f) \/ work[k][e].fence < f]_storeVars
    <2> SUFFICES ASSUME TypeOK, TypeOK', [StoreNext]_storeVars,
                        NEW k \in Kinds, NEW e \in Executions, NEW f \in 1..MaxFence,
                        Live(k, e, f)'
                 PROVE  Live(k, e, f) \/ work[k][e].fence < f
      OBVIOUS
    <2>1. /\ work[k][e] \in WorkItem /\ work'[k][e] \in WorkItem
          /\ now \in Int /\ now' \in Int
      BY DEF TypeOK
    <2>2. /\ work'[k][e].status = "claimed" /\ work'[k][e].fence = f
          /\ work'[k][e].lease_until > now'
      BY DEF Live
    <2>3. CASE work'[k][e] = work[k][e] /\ now <= now'
      BY <2>1, <2>2, <2>3 DEF Live, WorkItem
    <2>4. CASE ValidClaim(k, e, work[k][e].fence) /\ work'[k][e].fence = work[k][e].fence
      BY <2>2, <2>4 DEF Live, ValidClaim
    <2>5. CASE work'[k][e].fence = work[k][e].fence + 1
      BY <2>1, <2>2, <2>5 DEF WorkItem
    <2> QED
      BY <2>2, <2>3, <2>4, <2>5, ClaimedAfter
  <1> QED
    BY <1>1, TypeCorrect, PTL DEF StoreSpec, LapsedClaimNeverRevives

=============================================================================
