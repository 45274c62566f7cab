--------------------------- MODULE MessagingLedger ---------------------------
(***************************************************************************)
(* The durable ledger of one thread of tinkerfin-messaging: the rules of   *)
(* _messaging_transition.py, which every transactional backend applies in  *)
(* one atomic boundary (a SQL transaction under the capacity row's lock,   *)
(* the channel's asyncio lock in memory).  One action per transition.      *)
(*                                                                         *)
(* A producer's reference is its generation and fence; ANY reference ever  *)
(* issued may be presented at ANY time, so nothing is assumed of the       *)
(* producer that holds it.  MessagingDelivery adds the real producers.     *)
(*                                                                         *)
(* Abstractions.  One channel, one thread, one codec.  The owner token is  *)
(* fresh with every fence, so the fence stands for both and 0 for None.    *)
(* Clocks are events: a lease or a retention period that can elapse does   *)
(* so at any moment.  A message is its id; payloads, their quota in bytes  *)
(* and failure texts are left out.  A message id carries its run (it is    *)
(* part of the signature), so one id in two runs is a MessageIdConflict.   *)
(* A transition that raises changes nothing.                               *)
(***************************************************************************)
EXTENDS Naturals, Sequences

CONSTANTS
  Runs,          \* run ids used on the thread
  Ids,           \* message ids
  Cancellable,   \* runs whose source declares a cancel callback
  Recoverable,   \* runs produced by wrap_recoverable
  MaxMessages,   \* limits.max_thread_messages
  MaxGeneration, \* bound: generations of the thread
  MaxFence       \* bound: producers of one generation

Nobody == "nobody"
Final == {"completed", "cancelled", "failed", "owner_lost"}

ASSUME LedgerAssumption ==
  /\ Nobody \notin Runs
  /\ Cancellable \subseteq Runs
  /\ Recoverable \subseteq Runs
  /\ MaxMessages \in Nat
  /\ MaxGeneration \in Nat
  /\ MaxFence \in Nat

VARIABLES
  generation,      \* threads.current_generation; 0 before the first
  disposition,     \* of that generation
  log,             \* its messages, in sequence order
  next_fence,      \* next_producer_fence
  active_run,      \* active_run_id
  retention,       \* "none", "counting", "expired": the terminal TTL
  control_sequence,
  runs             \* the generation's run records

ledgerVars == <<generation, disposition, log, next_fence, active_run, retention,
                control_sequence, runs>>

-----------------------------------------------------------------------------
\* Records.

Message == [run: Runs, id: Ids]

RunRecord ==
  [status: {"none", "running", "cancel_requested"} \cup Final,
   settlement_started: BOOLEAN,
   fence: Nat,            \* producer_token and producer_fence; 0 is None
   lease: BOOLEAN,        \* producer_lease_active
   start_sequence: Nat,
   end_sequence: Nat,
   checkpoint: Seq(Ids),  \* <<>>, or the last_message_id it holds
   publication_ready: BOOLEAN,
   publication_closed: BOOLEAN]

NoRun == [status |-> "none", settlement_started |-> FALSE, fence |-> 0,
          lease |-> FALSE, start_sequence |-> 0, end_sequence |-> 0,
          checkpoint |-> <<>>, publication_ready |-> FALSE,
          publication_closed |-> FALSE]

latest == Len(log)
Exists(r) == runs[r].status # "none"
Live(r) == runs[r].status \in {"running", "cancel_requested"}
OwnerLeased(r) == Live(r) /\ runs[r].lease

\* Fault: the interval of a new run starts before its tail.
CreatedOffByOne(tail, f) ==
  [NoRun EXCEPT !.status = "running", !.fence = f, !.lease = TRUE,
                !.start_sequence = tail - 1, !.end_sequence = tail]

\* StoredMessagingRun of a run created at the tail with fence f.
CreatedRun(tail, f) ==
  [NoRun EXCEPT !.status = "running", !.fence = f, !.lease = TRUE,
                !.start_sequence = tail, !.end_sequence = tail]

SettledRun(run, status, tail) ==
  [run EXCEPT !.status = status, !.settlement_started = TRUE, !.fence = 0,
              !.lease = FALSE, !.end_sequence = tail]

\* Fault: losing the owner only drops its lease.
OwnerLostStaysLive(run) == [run EXCEPT !.lease = FALSE, !.end_sequence = latest]

OwnerLostRun(run) == SettledRun(run, "owner_lost", latest)

-----------------------------------------------------------------------------
\* prepare_run.

\* The generation is sealed or there is none: prepare opens the next one.
StartsGeneration == disposition \in {"none", "deleted", "expired"}

PrepareInNewGeneration(r) ==
  /\ StartsGeneration
  /\ generation < MaxGeneration
  /\ generation' = generation + 1
  /\ disposition' = "active"
  /\ log' = <<>>
  /\ next_fence' = 2
  /\ active_run' = r
  /\ retention' = "none"
  /\ control_sequence' = 0
  /\ runs' = [s \in Runs |-> IF s = r THEN CreatedRun(0, 1) ELSE NoRun]

\* A run with no record starts; an active run whose lease ran out is lost.
PrepareNewRun(r) ==
  /\ disposition = "active"
  /\ ~Exists(r)
  /\ active_run # Nobody => ~runs[active_run].lease
  /\ next_fence < MaxFence
  /\ runs' = [s \in Runs |-> IF s = r THEN CreatedRun(latest, next_fence)
                             ELSE IF s = active_run THEN OwnerLostRun(runs[s])
                             ELSE runs[s]]
  /\ next_fence' = next_fence + 1
  /\ active_run' = r
  /\ retention' = "none"
  /\ control_sequence' = control_sequence + (IF active_run = Nobody THEN 0 ELSE 1)
  /\ UNCHANGED <<generation, disposition, log>>

\* Attach to a run that ended or whose producer still holds its lease.
PrepareAttaches(r) ==
  /\ disposition = "active"
  /\ Exists(r)
  /\ Live(r) => runs[r].lease

LapsedRun(r) == disposition = "active" /\ Live(r) /\ ~runs[r].lease

\* Fault: a run whose cancellation was being settled is recovered too.
RecoversSettlement(r) == r \in Recoverable

CanRecover(r) ==
  /\ r \in Recoverable
  /\ ~(runs[r].status = "cancel_requested" /\ runs[r].settlement_started)

\* Fault: a recovered producer shares the fence of the one it replaces.
RecoversWithOldFence(r) ==
  /\ LapsedRun(r)
  /\ CanRecover(r)
  /\ runs' = [runs EXCEPT ![r].settlement_started = FALSE, ![r].lease = TRUE]
  /\ UNCHANGED <<generation, disposition, log, next_fence, active_run, retention,
                 control_sequence>>

PrepareRecovers(r) ==
  /\ LapsedRun(r)
  /\ CanRecover(r)
  /\ next_fence < MaxFence
  /\ runs' = [runs EXCEPT ![r].settlement_started = FALSE,
                          ![r].fence = next_fence,
                          ![r].lease = TRUE]
  /\ next_fence' = next_fence + 1
  /\ active_run' = r
  /\ retention' = "none"
  /\ control_sequence' = control_sequence + 1
  /\ UNCHANGED <<generation, disposition, log>>

LoseOwner(r) ==
  /\ runs' = [runs EXCEPT ![r] = OwnerLostRun(@)]
  /\ active_run' = IF active_run = r THEN Nobody ELSE active_run
  /\ retention' = "counting"
  /\ control_sequence' = control_sequence + 1
  /\ UNCHANGED <<generation, disposition, log, next_fence>>

PrepareSettlesLostRun(r) == LapsedRun(r) /\ ~CanRecover(r) /\ LoseOwner(r)

-----------------------------------------------------------------------------
\* append_message and publish_message.

\* _owned_run: the reference still owns a run that has not ended.
Owns(r, g, f) ==
  /\ disposition = "active"
  /\ generation = g
  /\ Live(r)
  /\ runs[r].lease
  /\ runs[r].fence = f

Committed(i) == \E k \in DOMAIN log : log[k].id = i

CommitMessage(r, i, record) ==
  /\ latest < MaxMessages
  /\ log' = Append(log, [run |-> r, id |-> i])
  /\ runs' = [runs EXCEPT ![r] = record]
  /\ UNCHANGED <<generation, disposition, next_fence, active_run, retention,
                 control_sequence>>

AppendMessage(r, g, f, i, opens, closes, checkpoint) ==
  /\ Owns(r, g, f)
  /\ ~Committed(i)
  /\ CommitMessage(r, i,
       [runs[r] EXCEPT !.end_sequence = latest + 1,
                       !.publication_ready = @ \/ opens,
                       !.publication_closed = @ \/ closes,
                       !.checkpoint = IF checkpoint = <<>> THEN @ ELSE checkpoint])

\* Fault: publication is not refused once the run ended or closed it.
PublicationNeverClosed(r) == runs[r].publication_ready

PublicationAccepted(r) ==
  /\ runs[r].status = "running"
  /\ ~runs[r].settlement_started
  /\ ~runs[r].publication_closed
  /\ runs[r].lease
  /\ runs[r].publication_ready

\* Fault: a publication from outside does not extend its run.
PublishesBeyondRun(r, g, i) ==
  /\ disposition = "active"
  /\ generation = g
  /\ ~Committed(i)
  /\ PublicationAccepted(r)
  /\ CommitMessage(r, i, runs[r])

PublishMessage(r, g, i) ==
  /\ disposition = "active"
  /\ generation = g
  /\ ~Committed(i)
  /\ PublicationAccepted(r)
  /\ CommitMessage(r, i, [runs[r] EXCEPT !.end_sequence = latest + 1])

-----------------------------------------------------------------------------
\* Settlement, cancellation and ownership.

BeginSettlement(r, g, f) ==
  /\ Owns(r, g, f)
  /\ ~runs[r].settlement_started
  /\ runs' = [runs EXCEPT ![r].settlement_started = TRUE]
  /\ UNCHANGED <<generation, disposition, log, next_fence, active_run, retention,
                 control_sequence>>

\* Fault: the producer's status is stored as it is.
FinishedAsReported(r, status) == status

\* The status finish_run stores for the one the producer reports.
FinishedStatus(r, status) ==
  IF runs[r].status = "cancel_requested" /\ status = "completed"
    THEN "failed" ELSE status

\* Fault: the end of a run does not move the control cursor.
FinishesSilently(r, g, f, status) ==
  /\ Owns(r, g, f)
  /\ runs' = [runs EXCEPT ![r] = SettledRun(@, FinishedStatus(r, status), latest)]
  /\ active_run' = Nobody
  /\ retention' = "counting"
  /\ UNCHANGED <<generation, disposition, log, next_fence, control_sequence>>

FinishRun(r, g, f, status) ==
  /\ Owns(r, g, f)
  /\ runs' = [runs EXCEPT ![r] = SettledRun(@, FinishedStatus(r, status), latest)]
  /\ active_run' = IF active_run = r THEN Nobody ELSE active_run
  /\ retention' = "counting"
  /\ control_sequence' = control_sequence + 1
  /\ UNCHANGED <<generation, disposition, log, next_fence>>

\* The request this call creates; any other request changes nothing.
RequestCancellation(r) ==
  /\ disposition = "active"
  /\ runs[r].status = "running"
  /\ ~runs[r].settlement_started
  /\ r \in Cancellable
  /\ runs' = [runs EXCEPT ![r].status = "cancel_requested"]
  /\ control_sequence' = control_sequence + 1
  /\ UNCHANGED <<generation, disposition, log, next_fence, active_run, retention>>

ReconcileOwnership(r) == LapsedRun(r) /\ LoseOwner(r)

\* The storage clock passes the lease deadline.
LeaseExpires(r) ==
  /\ OwnerLeased(r)
  /\ runs' = [runs EXCEPT ![r].lease = FALSE]
  /\ UNCHANGED <<generation, disposition, log, next_fence, active_run, retention,
                 control_sequence>>

RetentionElapses ==
  /\ disposition = "active"
  /\ retention = "counting"
  /\ retention' = "expired"
  /\ UNCHANGED <<generation, disposition, log, next_fence, active_run,
                 control_sequence, runs>>

-----------------------------------------------------------------------------
\* Generation cleanup: seal, purge in batches, tombstone.

Sealing(reason) == IF reason = "deleted" THEN "deleting" ELSE "expiring"

BeginCleanup(reason) ==
  /\ disposition = "active"
  /\ active_run # Nobody => ~runs[active_run].lease
  /\ reason = "expired" => retention = "expired"
  /\ disposition' = Sealing(reason)
  /\ runs' = [r \in Runs |-> IF r = active_run THEN OwnerLostRun(runs[r]) ELSE runs[r]]
  /\ active_run' = Nobody
  /\ retention' = "none"
  /\ control_sequence' = control_sequence + 1
  /\ UNCHANGED <<generation, log, next_fence>>

Sealed == disposition \in {"deleting", "expiring"}
PrivateRecords == latest > 0 \/ \E r \in Runs : Exists(r)

\* One batch: messages before runs.  A generation that is gone has none left.
Purge(g) ==
  /\ generation = g
  /\ Sealed
  /\ \/ latest > 0 /\ log' = Tail(log) /\ runs' = runs
     \/ latest = 0 /\ log' = log /\ runs' = [r \in Runs |-> NoRun]
  /\ UNCHANGED <<generation, disposition, next_fence, active_run, retention,
                 control_sequence>>

FinishCleanup(g, reason) ==
  /\ generation = g
  /\ disposition = Sealing(reason)
  /\ ~PrivateRecords
  /\ disposition' = reason
  /\ active_run' = Nobody
  /\ control_sequence' = control_sequence + 1
  /\ UNCHANGED <<generation, log, next_fence, retention, runs>>

\* Admission reclaims an expired generation inside the backend.
ReclaimExpired ==
  /\ \/ disposition = "active" /\ retention = "expired"
     \/ disposition = "expiring"
  /\ active_run # Nobody => ~runs[active_run].lease
  /\ disposition' = "expired"
  /\ log' = <<>>
  /\ runs' = [r \in Runs |-> NoRun]
  /\ active_run' = Nobody
  /\ retention' = "none"
  /\ control_sequence' = control_sequence + (IF disposition = "active" THEN 2 ELSE 1)
  /\ UNCHANGED <<generation, next_fence>>

-----------------------------------------------------------------------------
LedgerInit ==
  /\ generation = 0
  /\ disposition = "none"
  /\ log = <<>>
  /\ next_fence = 1
  /\ active_run = Nobody
  /\ retention = "none"
  /\ control_sequence = 0
  /\ runs = [r \in Runs |-> NoRun]

ByOwner(r, g, f) ==
  \/ \E i \in Ids, opens, closes \in BOOLEAN : \E checkpoint \in {<<>>, <<i>>} :
       AppendMessage(r, g, f, i, opens, closes, checkpoint)
  \/ BeginSettlement(r, g, f)
  \/ \E status \in Final : FinishRun(r, g, f, status)

ByAnyone(r) ==
  \/ PrepareInNewGeneration(r)
  \/ PrepareNewRun(r)
  \/ PrepareRecovers(r)
  \/ PrepareSettlesLostRun(r)
  \/ \E g \in 1..MaxGeneration, i \in Ids : PublishMessage(r, g, i)
  \/ RequestCancellation(r)
  \/ ReconcileOwnership(r)
  \/ LeaseExpires(r)

Cleanup ==
  \/ \E reason \in {"deleted", "expired"} : BeginCleanup(reason)
  \/ \E g \in 1..MaxGeneration : Purge(g)
  \/ \E g \in 1..MaxGeneration, reason \in {"deleted", "expired"} :
       FinishCleanup(g, reason)
  \/ ReclaimExpired

LedgerNext ==
  \/ \E r \in Runs, g \in 1..MaxGeneration, f \in 1..MaxFence : ByOwner(r, g, f)
  \/ \E r \in Runs : ByAnyone(r)
  \/ RetentionElapses
  \/ Cleanup

LedgerSpec == LedgerInit /\ [][LedgerNext]_ledgerVars

-----------------------------------------------------------------------------
\* What readers are promised.

Readable == disposition = "active"

Outcome(r) ==
  IF ~Readable THEN "none"
  ELSE CASE runs[r].status = "running" -> "live"
         [] runs[r].status = "cancel_requested" -> "cancelling"
         [] OTHER -> runs[r].status

Promise == INSTANCE MessageLog WITH
  epoch <- generation,
  open <- Readable,
  entries <- IF Readable THEN log ELSE <<>>,
  writer <- active_run,
  outcome <- [r \in Runs |-> Outcome(r)]

\* The ledger implements the log its readers are promised: whatever order
\* prepare, append, publish, settlement, recovery, owner loss, expiry and the
\* steps of a cleanup are committed in, the visible log only grows, one run
\* writes it at a time, and a run whose cancellation was accepted never
\* completes.
PromisedLog == Promise!LogSpec

-----------------------------------------------------------------------------
\* Type invariant of the ledger's rows.
LedgerTypeOK ==
  /\ generation \in Nat
  /\ disposition \in {"none", "active", "deleting", "expiring", "deleted", "expired"}
  /\ log \in Seq(Message)
  /\ next_fence \in Nat \ {0}
  /\ active_run \in Runs \cup {Nobody}
  /\ retention \in {"none", "counting", "expired"}
  /\ control_sequence \in Nat
  /\ runs \in [Runs -> RunRecord]

\* One writer: on a readable generation the runs that have not ended are
\* exactly the active one.  prepare, finish and owner loss each update the run
\* and active_run_id, and none may leave a second run able to append.
OneLiveRun ==
  /\ disposition = "active" => \A r \in Runs : Live(r) <=> active_run = r
  /\ disposition # "active" => active_run = Nobody

\* The interval (start_sequence, end_sequence] of a run holds its messages and
\* no other run's, so a reader that stops at a run's end_sequence has read the
\* whole run and nothing of the next one, whatever was recovered, published
\* from outside or lost in between.
RunWindows ==
  disposition = "active" =>
    /\ \A k \in DOMAIN log :
         /\ runs[log[k].run].start_sequence < k
         /\ k <= runs[log[k].run].end_sequence
    /\ \A r, s \in Runs :
         Exists(r) /\ Exists(s) /\ r # s =>
           \/ runs[r].end_sequence <= runs[s].start_sequence
           \/ runs[s].end_sequence <= runs[r].start_sequence

\* A reference that lost its run never owns it again: neither a late renewal
\* nor a recovery of the run gives a producer that stalled past its lease the
\* right to append, settle or finish.
OwnershipNeverReturns ==
  [][generation' = generation =>
       \A r \in Runs, f \in 1..MaxFence :
         f < next_fence /\ ~Owns(r, generation, f) => ~Owns(r, generation, f)']_ledgerVars

=============================================================================
