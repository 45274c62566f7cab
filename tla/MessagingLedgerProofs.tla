------------------------ MODULE MessagingLedgerProofs ------------------------
(***************************************************************************)
(* Proofs about MessagingLedger for any sets of runs and message ids and   *)
(* any bounds: one live run, disjoint run intervals, ownership that never  *)
(* returns, and the refinement of the log that readers are promised.       *)
(***************************************************************************)
EXTENDS MessagingLedger, TLAPS

-----------------------------------------------------------------------------
\* The inductive invariant.

\* Every fence in use was issued before the next one.
FencesIssued == \A r \in Runs : runs[r].fence < next_fence

\* On a readable generation intervals are ordered and inside the log; the
\* active run's interval ends at the tail, and no other reaches into it.
Intervals ==
  disposition = "active" =>
    /\ \A r \in Runs : /\ runs[r].start_sequence <= runs[r].end_sequence
                       /\ runs[r].end_sequence <= Len(log)
                       /\ ~Exists(r) => runs[r].end_sequence = 0
    /\ active_run # Nobody =>
         /\ runs[active_run].end_sequence = Len(log)
         /\ \A s \in Runs \ {active_run} :
              runs[s].end_sequence <= runs[active_run].start_sequence

LedgerInv == LedgerTypeOK /\ OneLiveRun /\ FencesIssued /\ Intervals /\ RunWindows

-----------------------------------------------------------------------------
\* Types of the records that transitions write.

\* No run, by its fields.
LEMMA NoRunFields ==
  /\ NoRun \in RunRecord
  /\ NoRun.status = "none" /\ NoRun.fence = 0 /\ ~NoRun.lease
  /\ NoRun.start_sequence = 0 /\ NoRun.end_sequence = 0
  BY DEF NoRun, RunRecord

\* A run that is created, by its fields.
LEMMA CreatedFields ==
  ASSUME NEW tail \in Nat, NEW f \in Nat
  PROVE  LET run == CreatedRun(tail, f) IN
         /\ run \in RunRecord
         /\ run.status = "running" /\ run.fence = f /\ run.lease
         /\ run.start_sequence = tail /\ run.end_sequence = tail
  BY NoRunFields DEF CreatedRun, RunRecord

\* A run that is settled, by its fields.
LEMMA SettledFields ==
  ASSUME NEW tail \in Nat, NEW status \in Final, NEW old \in RunRecord
  PROVE  LET run == SettledRun(old, status, tail) IN
         /\ run \in RunRecord
         /\ run.status = status /\ run.fence = 0 /\ ~run.lease
         /\ run.start_sequence = old.start_sequence /\ run.end_sequence = tail
  BY DEF SettledRun, RunRecord

\* A run whose owner is lost, by its fields.
LEMMA LostFields ==
  ASSUME LedgerTypeOK, NEW old \in RunRecord
  PROVE  LET run == OwnerLostRun(old) IN
         /\ run \in RunRecord
         /\ run.status = "owner_lost" /\ run.fence = 0 /\ ~run.lease
         /\ run.start_sequence = old.start_sequence /\ run.end_sequence = Len(log)
  <1>1. latest \in Nat /\ "owner_lost" \in Final
    BY DEF LedgerTypeOK, latest, Final
  <1> QED
    BY <1>1, SettledFields DEF OwnerLostRun, latest

-----------------------------------------------------------------------------
(***************************************************************************)
(* Every step has one of seven shapes, which say what the properties need  *)
(* of it.  The properties are then proved once per shape.                  *)
(***************************************************************************)

OthersKept(r) == \A s \in Runs \ {r} : runs'[s] = runs[s]
InGeneration ==
  disposition = "active" /\ disposition' = "active" /\ generation' = generation

\* A live run stays live; a fence it did not have is new, and so is a lease.
Keeps(r) ==
  /\ InGeneration
  /\ Live(r)
  /\ log' = log /\ active_run' = active_run /\ next_fence' >= next_fence
  /\ OthersKept(r)
  /\ \/ runs'[r].status = runs[r].status
     \/ runs[r].status = "running" /\ runs'[r].status = "cancel_requested"
  /\ runs'[r].start_sequence = runs[r].start_sequence
  /\ runs'[r].end_sequence = runs[r].end_sequence
  /\ \/ runs'[r].fence = next_fence /\ next_fence < next_fence'
     \/ runs'[r].fence = runs[r].fence /\ (runs'[r].lease => runs[r].lease)

\* The live run's message goes to the tail.
Extends(r, i) ==
  /\ InGeneration
  /\ Live(r)
  /\ i \in Ids /\ ~Committed(i)
  /\ log' = Append(log, [run |-> r, id |-> i])
  /\ active_run' = active_run /\ next_fence' = next_fence
  /\ OthersKept(r)
  /\ runs'[r].status = runs[r].status
  /\ runs'[r].start_sequence = runs[r].start_sequence
  /\ runs'[r].end_sequence = Len(log) + 1
  /\ runs'[r].fence = runs[r].fence /\ runs'[r].lease = runs[r].lease

Concludes(r, o) ==
  /\ InGeneration
  /\ Live(r)
  /\ o \in Final
  /\ o = "completed" => runs[r].status = "running"
  /\ log' = log /\ next_fence' = next_fence
  /\ active_run' = IF active_run = r THEN Nobody ELSE active_run
  /\ OthersKept(r)
  /\ runs'[r].status = o /\ runs'[r].fence = 0 /\ ~runs'[r].lease
  /\ runs'[r].start_sequence = runs[r].start_sequence
  /\ runs'[r].end_sequence = Len(log)

\* A run is created at the tail and the active one, if any, is lost.
Begins(r) ==
  /\ InGeneration
  /\ ~Exists(r)
  /\ log' = log /\ next_fence' = next_fence + 1 /\ active_run' = r
  /\ runs'[r].status = "running" /\ runs'[r].fence = next_fence
  /\ runs'[r].start_sequence = Len(log) /\ runs'[r].end_sequence = Len(log)
  /\ \A s \in Runs \ {r} :
       IF s = active_run
         THEN /\ runs'[s].status = "owner_lost" /\ runs'[s].fence = 0 /\ ~runs'[s].lease
              /\ runs'[s].start_sequence = runs[s].start_sequence
              /\ runs'[s].end_sequence = Len(log)
         ELSE runs'[s] = runs[s]

Opens(r) ==
  /\ disposition # "active" /\ disposition' = "active"
  /\ generation' = generation + 1
  /\ log' = <<>> /\ next_fence' = 2 /\ active_run' = r
  /\ runs'[r].status = "running" /\ runs'[r].fence = 1
  /\ runs'[r].start_sequence = 0 /\ runs'[r].end_sequence = 0
  /\ \A s \in Runs \ {r} : runs'[s] = NoRun

\* The generation is, or stays, hidden.
Closes ==
  /\ disposition' # "active" /\ active_run' = Nobody
  /\ generation' = generation /\ next_fence' = next_fence
  /\ \A r \in Runs : runs'[r].fence = 0 \/ runs'[r].fence = runs[r].fence

Waits == UNCHANGED <<generation, disposition, log, next_fence, active_run, runs>>

Shapes ==
  \/ \E r \in Runs : Keeps(r) \/ Begins(r) \/ Opens(r)
  \/ \E r \in Runs, i \in Ids : Extends(r, i)
  \/ \E r \in Runs, o \in Final : Concludes(r, o)
  \/ Closes
  \/ Waits

-----------------------------------------------------------------------------
\* The shape of each action, and the types it preserves.

\* Preparing a run in a new generation.
LEMMA OpensShape ==
  ASSUME LedgerTypeOK, NEW r \in Runs, PrepareInNewGeneration(r)
  PROVE  LedgerTypeOK' /\ Opens(r)
  <1>1. /\ runs' \in [Runs -> RunRecord]
        /\ runs'[r] = CreatedRun(0, 1)
        /\ \A s \in Runs \ {r} : runs'[s] = NoRun
    BY CreatedFields, NoRunFields DEF PrepareInNewGeneration
  <1>2. <<>> \in Seq(Message)
    OBVIOUS
  <1>3. LedgerTypeOK'
    BY <1>1, <1>2 DEF PrepareInNewGeneration, LedgerTypeOK
  <1>4. /\ runs'[r].status = "running" /\ runs'[r].fence = 1
        /\ runs'[r].start_sequence = 0 /\ runs'[r].end_sequence = 0
    BY <1>1, CreatedFields
  <1> QED
    BY <1>1, <1>3, <1>4 DEF PrepareInNewGeneration, StartsGeneration, Opens

\* Preparing a run in the present generation.
LEMMA BeginsShape ==
  ASSUME LedgerTypeOK, NEW r \in Runs, PrepareNewRun(r)
  PROVE  LedgerTypeOK' /\ Begins(r)
  <1>1. latest \in Nat /\ next_fence \in Nat
    BY DEF LedgerTypeOK, latest
  <1>2. \A s \in Runs : runs[s] \in RunRecord
    BY DEF LedgerTypeOK
  <1>3. runs' \in [Runs -> RunRecord]
    BY <1>1, <1>2, CreatedFields, LostFields DEF PrepareNewRun
  <1>4. runs'[r] = CreatedRun(latest, next_fence)
    BY DEF PrepareNewRun
  <1>5. \A s \in Runs \ {r} : runs'[s] = IF s = active_run THEN OwnerLostRun(runs[s])
                                         ELSE runs[s]
    BY DEF PrepareNewRun
  <1>6. LedgerTypeOK'
    BY <1>3 DEF PrepareNewRun, LedgerTypeOK
  <1>7. /\ runs'[r].status = "running" /\ runs'[r].fence = next_fence
        /\ runs'[r].start_sequence = Len(log) /\ runs'[r].end_sequence = Len(log)
    BY <1>1, <1>4, CreatedFields DEF latest
  <1>8. \A s \in Runs \ {r} :
       IF s = active_run
         THEN /\ runs'[s].status = "owner_lost" /\ runs'[s].fence = 0 /\ ~runs'[s].lease
              /\ runs'[s].start_sequence = runs[s].start_sequence
              /\ runs'[s].end_sequence = Len(log)
         ELSE runs'[s] = runs[s]
    BY <1>2, <1>5, LostFields
  <1> QED
    BY <1>6, <1>7, <1>8 DEF PrepareNewRun, Begins, InGeneration

\* Recovery, the start of settlement, a cancellation request and a lapsed lease
\* keep a run live.
LEMMA RecoversShape ==
  ASSUME LedgerTypeOK, OneLiveRun, NEW r \in Runs, PrepareRecovers(r)
  PROVE  LedgerTypeOK' /\ Keeps(r)
  <1>1. active_run = r
    BY DEF PrepareRecovers, LapsedRun, OneLiveRun
  <1>2. runs' \in [Runs -> RunRecord]
    <2> DEFINE new == [runs[r] EXCEPT !.settlement_started = FALSE,
                                      !.fence = next_fence, !.lease = TRUE]
    <2>1. runs[r] \in RunRecord /\ next_fence \in Nat
      BY DEF LedgerTypeOK
    <2>2. new \in RunRecord
      BY <2>1 DEF RunRecord
    <2>3. runs' = [runs EXCEPT ![r] = new]
      BY DEF PrepareRecovers
    <2> HIDE DEF new
    <2> QED
      BY <2>2, <2>3 DEF LedgerTypeOK
  <1>3. LedgerTypeOK'
    BY <1>2 DEF PrepareRecovers, LedgerTypeOK
  <1> QED
    BY <1>1, <1>3 DEF PrepareRecovers, LapsedRun, Keeps, InGeneration, OthersKept,
                      LedgerTypeOK, RunRecord

LEMMA SettlementShape ==
  ASSUME LedgerTypeOK, NEW r \in Runs, NEW g, NEW f, BeginSettlement(r, g, f)
  PROVE  LedgerTypeOK' /\ Keeps(r)
  <1>1. LedgerTypeOK'
    BY DEF BeginSettlement, LedgerTypeOK, RunRecord
  <1> QED
    BY <1>1 DEF BeginSettlement, Owns, Keeps, InGeneration, OthersKept, LedgerTypeOK,
                RunRecord

LEMMA CancellationShape ==
  ASSUME LedgerTypeOK, NEW r \in Runs, RequestCancellation(r)
  PROVE  LedgerTypeOK' /\ Keeps(r)
  <1>1. runs' \in [Runs -> RunRecord]
    <2> DEFINE new == [runs[r] EXCEPT !.status = "cancel_requested"]
    <2>1. runs[r] \in RunRecord
      BY DEF LedgerTypeOK
    <2>2. new \in RunRecord
      BY <2>1 DEF RunRecord
    <2>3. runs' = [runs EXCEPT ![r] = new]
      BY DEF RequestCancellation
    <2> HIDE DEF new
    <2> QED
      BY <2>2, <2>3 DEF LedgerTypeOK
  <1>2. LedgerTypeOK'
    BY <1>1 DEF RequestCancellation, LedgerTypeOK
  <1> QED
    BY <1>2 DEF RequestCancellation, Live, Keeps, InGeneration, OthersKept,
                LedgerTypeOK, RunRecord

LEMMA LeaseShape ==
  ASSUME LedgerTypeOK, OneLiveRun, NEW r \in Runs, LeaseExpires(r)
  PROVE  LedgerTypeOK' /\ (Keeps(r) \/ Closes)
  <1>1. LedgerTypeOK'
    BY DEF LeaseExpires, LedgerTypeOK, RunRecord
  <1>2. CASE disposition = "active"
    BY <1>1, <1>2 DEF LeaseExpires, OwnerLeased, Keeps, InGeneration, OthersKept,
                      LedgerTypeOK, RunRecord
  <1>3. CASE disposition # "active"
    BY <1>1, <1>3 DEF LeaseExpires, Closes, OneLiveRun, LedgerTypeOK, RunRecord
  <1> QED
    BY <1>2, <1>3

\* Messages from the owner and from outside.
LEMMA AppendsShape ==
  ASSUME LedgerTypeOK, NEW r \in Runs, NEW g, NEW f, NEW i \in Ids,
         NEW opens \in BOOLEAN, NEW closes \in BOOLEAN, NEW checkpoint \in {<<>>, <<i>>},
         AppendMessage(r, g, f, i, opens, closes, checkpoint)
  PROVE  LedgerTypeOK' /\ Extends(r, i)
  <1> DEFINE new == [runs[r] EXCEPT !.end_sequence = latest + 1,
                       !.publication_ready = @ \/ opens,
                       !.publication_closed = @ \/ closes,
                       !.checkpoint = IF checkpoint = <<>> THEN @ ELSE checkpoint]
  <1>1. runs[r] \in RunRecord /\ latest \in Nat
    BY DEF LedgerTypeOK, latest
  <1>2. /\ new \in RunRecord
        /\ new.status = runs[r].status /\ new.start_sequence = runs[r].start_sequence
        /\ new.end_sequence = latest + 1
        /\ new.fence = runs[r].fence /\ new.lease = runs[r].lease
    <2> DEFINE old == runs[r]
               tail == latest + 1
               at == IF checkpoint = <<>> THEN runs[r].checkpoint ELSE checkpoint
    <2>1. PICK ready \in BOOLEAN, closed \in BOOLEAN :
            /\ ready = (runs[r].publication_ready \/ opens)
            /\ closed = (runs[r].publication_closed \/ closes)
      OBVIOUS
    <2>2. <<>> \in Seq(Ids) /\ <<i>> \in Seq(Ids) /\ runs[r].checkpoint \in Seq(Ids)
      BY <1>1 DEF RunRecord
    <2>3. at \in Seq(Ids)
      BY <2>2
    <2>4. new = [old EXCEPT !.end_sequence = tail, !.publication_ready = ready,
                            !.publication_closed = closed, !.checkpoint = at]
      BY <2>1
    <2>5. old \in RunRecord /\ tail \in Nat
      BY <1>1
    <2> HIDE DEF new, old, tail, at
    <2>6. /\ new \in RunRecord
          /\ new.status = old.status /\ new.start_sequence = old.start_sequence
          /\ new.end_sequence = tail
          /\ new.fence = old.fence /\ new.lease = old.lease
      BY <2>3, <2>4, <2>5, ZenonT(60) DEF RunRecord
    <2> QED
      BY <2>6 DEF old, tail
  <1>3. CommitMessage(r, i, new) /\ Owns(r, g, f) /\ ~Committed(i)
    BY DEF AppendMessage
  <1> HIDE DEF new
  <1>4. [run |-> r, id |-> i] \in Message
    BY DEF Message
  <1>5. LedgerTypeOK'
    BY <1>2, <1>3, <1>4 DEF CommitMessage, LedgerTypeOK
  <1>6. runs'[r] = new /\ OthersKept(r)
    BY <1>3 DEF CommitMessage, OthersKept, LedgerTypeOK
  <1> QED
    BY <1>2, <1>3, <1>5, <1>6 DEF CommitMessage, Owns, Extends, InGeneration, latest

LEMMA PublishesShape ==
  ASSUME LedgerTypeOK, NEW r \in Runs, NEW g, NEW i \in Ids, PublishMessage(r, g, i)
  PROVE  LedgerTypeOK' /\ Extends(r, i)
  <1> DEFINE new == [runs[r] EXCEPT !.end_sequence = latest + 1]
  <1>1. runs[r] \in RunRecord /\ latest \in Nat
    BY DEF LedgerTypeOK, latest
  <1>2. /\ new \in RunRecord
        /\ new.status = runs[r].status /\ new.start_sequence = runs[r].start_sequence
        /\ new.end_sequence = latest + 1
        /\ new.fence = runs[r].fence /\ new.lease = runs[r].lease
    BY <1>1 DEF RunRecord
  <1>3. /\ CommitMessage(r, i, new) /\ ~Committed(i)
        /\ Live(r) /\ disposition = "active"
    BY DEF PublishMessage, PublicationAccepted, Live
  <1> HIDE DEF new
  <1>4. [run |-> r, id |-> i] \in Message
    BY DEF Message
  <1>5. LedgerTypeOK'
    BY <1>2, <1>3, <1>4 DEF CommitMessage, LedgerTypeOK
  <1>6. runs'[r] = new /\ OthersKept(r)
    BY <1>3 DEF CommitMessage, OthersKept, LedgerTypeOK
  <1> QED
    BY <1>2, <1>3, <1>5, <1>6 DEF CommitMessage, Extends, InGeneration, latest

\* The end of a run, reported or found out.
LEMMA FinishesShape ==
  ASSUME LedgerTypeOK, NEW r \in Runs, NEW g, NEW f, NEW status \in Final,
         FinishRun(r, g, f, status)
  PROVE  LedgerTypeOK' /\ \E o \in Final : Concludes(r, o)
  <1> DEFINE o == FinishedStatus(r, status)
  <1>1. runs[r] \in RunRecord /\ latest \in Nat
    BY DEF LedgerTypeOK, latest
  <1>2. o \in Final
    BY DEF FinishedStatus, Final
  <1>3. o = "completed" => runs[r].status # "cancel_requested"
    BY DEF FinishedStatus
  <1>4. runs' = [runs EXCEPT ![r] = SettledRun(runs[r], o, latest)] /\ Owns(r, g, f)
    BY DEF FinishRun
  <1> HIDE DEF o
  <1>5. LedgerTypeOK'
    BY <1>1, <1>2, <1>4, SettledFields DEF FinishRun, LedgerTypeOK
  <1>6. runs'[r] = SettledRun(runs[r], o, latest) /\ OthersKept(r)
    BY <1>4 DEF OthersKept, LedgerTypeOK
  <1>7. Concludes(r, o)
    BY <1>1, <1>2, <1>3, <1>4, <1>6, SettledFields
       DEF FinishRun, Owns, Live, Concludes, InGeneration, latest
  <1> QED
    BY <1>2, <1>5, <1>7

LEMMA LosesShape ==
  ASSUME LedgerTypeOK, NEW r \in Runs, LapsedRun(r), LoseOwner(r)
  PROVE  LedgerTypeOK' /\ Concludes(r, "owner_lost")
  <1>1. runs[r] \in RunRecord
    BY DEF LedgerTypeOK
  <1>2. LedgerTypeOK'
    BY <1>1, LostFields DEF LoseOwner, LedgerTypeOK
  <1>3. runs'[r] = OwnerLostRun(runs[r]) /\ OthersKept(r)
    BY DEF LoseOwner, OthersKept, LedgerTypeOK
  <1> QED
    BY <1>1, <1>2, <1>3, LostFields DEF LoseOwner, LapsedRun, Concludes, InGeneration, Final

\* Sealing, purging and reclaiming hide the generation.
LEMMA SealsShape ==
  ASSUME LedgerTypeOK, NEW reason \in {"deleted", "expired"}, BeginCleanup(reason)
  PROVE  LedgerTypeOK' /\ Closes
  <1>1. \A r \in Runs : runs[r] \in RunRecord
    BY DEF LedgerTypeOK
  <1>2. disposition' \in {"deleting", "expiring"}
    BY DEF BeginCleanup, Sealing
  <1>3. LedgerTypeOK'
    BY <1>1, <1>2, LostFields DEF BeginCleanup, LedgerTypeOK
  <1>4. \A r \in Runs : runs'[r].fence = 0 \/ runs'[r].fence = runs[r].fence
    BY <1>1, LostFields DEF BeginCleanup
  <1> QED
    BY <1>2, <1>3, <1>4 DEF BeginCleanup, Closes

LEMMA PurgesShape ==
  ASSUME LedgerTypeOK, OneLiveRun, NEW g, Purge(g)
  PROVE  LedgerTypeOK' /\ Closes
  <1>1. disposition' = disposition /\ disposition # "active" /\ active_run' = Nobody
    BY DEF Purge, Sealed, OneLiveRun
  <1>2. log' \in Seq(Message)
    BY DEF Purge, LedgerTypeOK, latest
  <1>3. runs' \in [Runs -> RunRecord]
    BY NoRunFields DEF Purge, LedgerTypeOK
  <1>4. \A r \in Runs : runs'[r].fence = 0 \/ runs'[r].fence = runs[r].fence
    BY NoRunFields DEF Purge
  <1>5. LedgerTypeOK'
    BY <1>2, <1>3 DEF Purge, LedgerTypeOK
  <1> QED
    BY <1>1, <1>4, <1>5 DEF Purge, Closes

LEMMA TombstoneShape ==
  ASSUME LedgerTypeOK, NEW g, NEW reason \in {"deleted", "expired"},
         FinishCleanup(g, reason)
  PROVE  LedgerTypeOK' /\ Closes
  BY DEF FinishCleanup, Closes, LedgerTypeOK

LEMMA ReclaimsShape ==
  ASSUME LedgerTypeOK, ReclaimExpired
  PROVE  LedgerTypeOK' /\ Closes
  <1>1. runs' \in [Runs -> RunRecord] /\ \A r \in Runs : runs'[r].fence = 0
    BY NoRunFields DEF ReclaimExpired
  <1>2. <<>> \in Seq(Message)
    OBVIOUS
  <1> QED
    BY <1>1, <1>2 DEF ReclaimExpired, Closes, LedgerTypeOK

\* Every step of the ledger has a shape and preserves the types.
LEMMA StepShape ==
  ASSUME LedgerTypeOK, OneLiveRun, [LedgerNext]_ledgerVars
  PROVE  LedgerTypeOK' /\ Shapes
  <1>1. CASE UNCHANGED ledgerVars
    BY <1>1 DEF ledgerVars, Shapes, Waits, LedgerTypeOK
  <1>2. ASSUME NEW r \in Runs, NEW g \in 1..MaxGeneration, NEW f \in 1..MaxFence,
               ByOwner(r, g, f)
        PROVE  LedgerTypeOK' /\ Shapes
    <2>1. CASE \E i \in Ids, opens, closes \in BOOLEAN : \E checkpoint \in {<<>>, <<i>>} :
                 AppendMessage(r, g, f, i, opens, closes, checkpoint)
      <3>1. PICK i \in Ids, opens \in BOOLEAN, closes \in BOOLEAN :
              \E checkpoint \in {<<>>, <<i>>} :
                AppendMessage(r, g, f, i, opens, closes, checkpoint)
        BY <2>1
      <3>2. PICK checkpoint \in {<<>>, <<i>>} :
              AppendMessage(r, g, f, i, opens, closes, checkpoint)
        BY <3>1
      <3> QED
        BY <3>2, AppendsShape DEF Shapes
    <2>2. CASE BeginSettlement(r, g, f)
      BY <2>2, SettlementShape DEF Shapes
    <2>3. CASE \E status \in Final : FinishRun(r, g, f, status)
      BY <2>3, FinishesShape DEF Shapes
    <2> QED
      BY <1>2, <2>1, <2>2, <2>3 DEF ByOwner
  <1>3. ASSUME NEW r \in Runs, ByAnyone(r)
        PROVE  LedgerTypeOK' /\ Shapes
    <2>1. CASE PrepareInNewGeneration(r)
      BY <2>1, OpensShape DEF Shapes
    <2>2. CASE PrepareNewRun(r)
      BY <2>2, BeginsShape DEF Shapes
    <2>3. CASE PrepareRecovers(r)
      BY <2>3, RecoversShape DEF Shapes
    <2>4. CASE PrepareSettlesLostRun(r)
      BY <2>4, LosesShape DEF Shapes, PrepareSettlesLostRun, Final
    <2>5. CASE \E g \in 1..MaxGeneration, i \in Ids : PublishMessage(r, g, i)
      BY <2>5, PublishesShape DEF Shapes
    <2>6. CASE RequestCancellation(r)
      BY <2>6, CancellationShape DEF Shapes
    <2>7. CASE ReconcileOwnership(r)
      BY <2>7, LosesShape DEF Shapes, ReconcileOwnership, Final
    <2>8. CASE LeaseExpires(r)
      BY <2>8, LeaseShape DEF Shapes
    <2> QED
      BY <1>3, <2>1, <2>2, <2>3, <2>4, <2>5, <2>6, <2>7, <2>8 DEF ByAnyone
  <1>4. CASE RetentionElapses
    BY <1>4 DEF RetentionElapses, Shapes, Waits, LedgerTypeOK
  <1>5. CASE Cleanup
    BY <1>5, SealsShape, PurgesShape, TombstoneShape, ReclaimsShape DEF Cleanup, Shapes
  <1> QED
    BY <1>1, <1>2, <1>3, <1>4, <1>5 DEF LedgerNext

-----------------------------------------------------------------------------
\* The invariant is inductive.

LEMMA InitInv == LedgerInit => LedgerInv
  <1> SUFFICES ASSUME LedgerInit PROVE LedgerInv
    OBVIOUS
  <1>1. \A r \in Runs : runs[r] = NoRun
    BY DEF LedgerInit
  <1>2. <<>> \in Seq(Message) /\ Len(<<>>) = 0
    OBVIOUS
  <1>3. LedgerTypeOK
    BY <1>2, NoRunFields DEF LedgerInit, LedgerTypeOK
  <1> QED
    BY <1>1, <1>3, NoRunFields DEF LedgerInit, LedgerInv, OneLiveRun, FencesIssued,
                                   Intervals, RunWindows, Exists, Live

\* The part of the types that the steps below use.
Typed ==
  /\ \A r \in Runs : /\ runs[r].fence \in Nat
                     /\ runs[r].start_sequence \in Nat
                     /\ runs[r].end_sequence \in Nat
  /\ log \in Seq(Message) /\ Len(log) \in Nat
  /\ next_fence \in Nat
  /\ active_run \in Runs \cup {Nobody}

LEMMA TypedRows == /\ LedgerTypeOK => Typed
                   /\ LedgerTypeOK' => Typed'
  BY DEF LedgerTypeOK, Typed, RunRecord

\* One live run, per shape.
LEMMA OneLiveRunStep ==
  ASSUME LedgerInv, LedgerTypeOK', Shapes
  PROVE  OneLiveRun'
  <1> USE LedgerAssumption DEF LedgerInv, OneLiveRun, Live
  <1>1. ASSUME NEW r \in Runs, Keeps(r) PROVE OneLiveRun'
    BY <1>1 DEF Keeps, InGeneration, OthersKept
  <1>2. ASSUME NEW r \in Runs, Begins(r) PROVE OneLiveRun'
    BY <1>2 DEF Begins, InGeneration, Exists
  <1>3. ASSUME NEW r \in Runs, Opens(r) PROVE OneLiveRun'
    BY <1>3, NoRunFields DEF Opens
  <1>4. ASSUME NEW r \in Runs, NEW i \in Ids, Extends(r, i) PROVE OneLiveRun'
    BY <1>4 DEF Extends, InGeneration, OthersKept
  <1>5. ASSUME NEW r \in Runs, NEW o \in Final, Concludes(r, o) PROVE OneLiveRun'
    BY <1>5 DEF Concludes, InGeneration, OthersKept, Final
  <1>6. CASE Closes
    BY <1>6 DEF Closes
  <1>7. CASE Waits
    BY <1>7 DEF Waits
  <1> QED
    BY <1>1, <1>2, <1>3, <1>4, <1>5, <1>6, <1>7 DEF Shapes

\* Fences, per shape.
LEMMA FencesStep ==
  ASSUME LedgerInv, LedgerTypeOK', Shapes
  PROVE  FencesIssued'
  <1>0. Typed /\ Typed' /\ FencesIssued
    BY TypedRows DEF LedgerInv
  <1> USE <1>0 DEF FencesIssued, Typed
  <1>1. ASSUME NEW r \in Runs, Keeps(r) PROVE FencesIssued'
    BY <1>1 DEF Keeps, OthersKept
  <1>2. ASSUME NEW r \in Runs, Begins(r) PROVE FencesIssued'
    BY <1>2 DEF Begins
  <1>3. ASSUME NEW r \in Runs, Opens(r) PROVE FencesIssued'
    BY <1>3, NoRunFields DEF Opens
  <1>4. ASSUME NEW r \in Runs, NEW i \in Ids, Extends(r, i) PROVE FencesIssued'
    BY <1>4 DEF Extends, OthersKept
  <1>5. ASSUME NEW r \in Runs, NEW o \in Final, Concludes(r, o) PROVE FencesIssued'
    BY <1>5 DEF Concludes, OthersKept
  <1>6. CASE Closes
    BY <1>6 DEF Closes
  <1>7. CASE Waits
    BY <1>7 DEF Waits
  <1> QED
    BY <1>1, <1>2, <1>3, <1>4, <1>5, <1>6, <1>7 DEF Shapes

\* Intervals, per shape.
LEMMA IntervalsStep ==
  ASSUME LedgerInv, LedgerTypeOK', Shapes
  PROVE  Intervals'
  <1>0. Typed /\ Typed' /\ OneLiveRun /\ Intervals /\ Nobody \notin Runs
    BY TypedRows, LedgerAssumption DEF LedgerInv
  <1> USE <1>0 DEF Intervals, Typed
  <1>1. ASSUME NEW r \in Runs, Keeps(r) PROVE Intervals'
    BY <1>1 DEF Keeps, InGeneration, OthersKept, Exists, Live
  <1>2. ASSUME NEW r \in Runs, Begins(r) PROVE Intervals'
    BY <1>2 DEF Begins, InGeneration, Exists
  <1>3. ASSUME NEW r \in Runs, Opens(r) PROVE Intervals'
    <2>1. Len(<<>>) = 0
      OBVIOUS
    <2> QED
      BY <1>3, <2>1, NoRunFields DEF Opens, Exists
  <1>4. ASSUME NEW r \in Runs, NEW i \in Ids, Extends(r, i) PROVE Intervals'
    <2>1. active_run = r
      BY <1>4 DEF Extends, InGeneration, OneLiveRun
    <2>2. Len(log') = Len(log) + 1
      BY <1>4 DEF Extends
    <2> QED
      BY <1>4, <2>1, <2>2 DEF Extends, InGeneration, OthersKept, Exists, Live
  <1>5. ASSUME NEW r \in Runs, NEW o \in Final, Concludes(r, o) PROVE Intervals'
    <2>1. active_run = r
      BY <1>5 DEF Concludes, InGeneration, OneLiveRun
    <2> QED
      BY <1>5, <2>1 DEF Concludes, InGeneration, OthersKept, Exists, Final
  <1>6. CASE Closes
    BY <1>6 DEF Closes
  <1>7. CASE Waits
    BY <1>7 DEF Waits, Exists
  <1> QED
    BY <1>1, <1>2, <1>3, <1>4, <1>5, <1>6, <1>7 DEF Shapes

\* Messages inside their run's interval, per shape.
InWindow ==
  disposition = "active" =>
    \A k \in DOMAIN log : /\ runs[log[k].run].start_sequence < k
                          /\ k <= runs[log[k].run].end_sequence
Disjoint ==
  disposition = "active" =>
    \A r, s \in Runs :
      Exists(r) /\ Exists(s) /\ r # s =>
        \/ runs[r].end_sequence <= runs[s].start_sequence
        \/ runs[s].end_sequence <= runs[r].start_sequence

LEMMA WindowParts == /\ RunWindows <=> InWindow /\ Disjoint
                     /\ RunWindows' <=> InWindow' /\ Disjoint'
  BY DEF RunWindows, InWindow, Disjoint

LEMMA InWindowStep ==
  ASSUME LedgerInv, LedgerTypeOK', Shapes
  PROVE  InWindow'
  <1>0. Typed /\ Typed' /\ OneLiveRun /\ Intervals /\ InWindow /\ Nobody \notin Runs
    BY TypedRows, WindowParts, LedgerAssumption DEF LedgerInv
  <1>m. \A k \in DOMAIN log : log[k].run \in Runs /\ k \in 1..Len(log)
    <2>1. DOMAIN log = 1..Len(log) /\ \A k \in DOMAIN log : log[k] \in Message
      BY <1>0 DEF Typed
    <2>2. \A m \in Message : m.run \in Runs
      BY DEF Message
    <2> QED
      BY <2>1, <2>2
  <1> USE <1>0, <1>m DEF InWindow, Typed
  <1>1. ASSUME NEW r \in Runs, Keeps(r) PROVE InWindow'
    BY <1>1 DEF Keeps, InGeneration, OthersKept
  <1>2. ASSUME NEW r \in Runs, Begins(r) PROVE InWindow'
    <2>1. \A k \in DOMAIN log : log[k].run # r
      <3> SUFFICES ASSUME NEW k \in DOMAIN log, log[k].run = r PROVE FALSE
        OBVIOUS
      <3>1. runs[r].start_sequence < k /\ k <= runs[r].end_sequence
        BY <1>2 DEF Begins, InGeneration
      <3>2. runs[r].end_sequence = 0
        BY <1>2 DEF Begins, InGeneration, Intervals
      <3> QED
        BY <3>1, <3>2
    <2> QED
      BY <1>2, <2>1 DEF Begins, InGeneration
  <1>3. ASSUME NEW r \in Runs, Opens(r) PROVE InWindow'
    BY <1>3 DEF Opens
  <1>4. ASSUME NEW r \in Runs, NEW i \in Ids, Extends(r, i) PROVE InWindow'
    <2>1. active_run = r
      BY <1>4 DEF Extends, InGeneration, OneLiveRun
    <2>2. [run |-> r, id |-> i] \in Message
      BY <1>4 DEF Message
    <2>3. /\ DOMAIN log' = 1..(Len(log) + 1)
          /\ log'[Len(log) + 1] = [run |-> r, id |-> i]
          /\ \A k \in 1..Len(log) : log'[k] = log[k]
      BY <1>4, <2>2 DEF Extends
    <2>4. ASSUME NEW k \in 1..Len(log)
          PROVE  /\ runs'[log'[k].run].start_sequence < k
                 /\ k <= runs'[log'[k].run].end_sequence
      BY <1>4, <2>3 DEF Extends, InGeneration, OthersKept
    <2>5. /\ runs'[r].start_sequence < Len(log) + 1
          /\ Len(log) + 1 <= runs'[r].end_sequence
      BY <1>4 DEF Extends, InGeneration, Intervals
    <2> QED
      BY <2>3, <2>4, <2>5
  <1>5. ASSUME NEW r \in Runs, NEW o \in Final, Concludes(r, o) PROVE InWindow'
    <2> SUFFICES ASSUME NEW k \in DOMAIN log
                 PROVE  /\ runs'[log[k].run].start_sequence < k
                        /\ k <= runs'[log[k].run].end_sequence
      BY <1>5 DEF Concludes
    <2>1. CASE log[k].run = r
      BY <1>5, <2>1 DEF Concludes, InGeneration
    <2>2. CASE log[k].run # r
      BY <1>5, <2>2 DEF Concludes, InGeneration, OthersKept
    <2> QED
      BY <2>1, <2>2
  <1>6. CASE Closes
    BY <1>6 DEF Closes
  <1>7. CASE Waits
    BY <1>7 DEF Waits
  <1> QED
    BY <1>1, <1>2, <1>3, <1>4, <1>5, <1>6, <1>7 DEF Shapes

\* Disjoint intervals, per shape.
LEMMA DisjointStep ==
  ASSUME LedgerInv, LedgerTypeOK', Shapes
  PROVE  Disjoint'
  <1>0. Typed /\ Typed' /\ OneLiveRun /\ Intervals /\ Disjoint /\ Nobody \notin Runs
    BY TypedRows, WindowParts, LedgerAssumption DEF LedgerInv
  <1> USE <1>0 DEF Disjoint, Typed, Exists
  <1>1. ASSUME NEW r \in Runs, Keeps(r) PROVE Disjoint'
    BY <1>1 DEF Keeps, InGeneration, OthersKept, Live
  <1>2. ASSUME NEW r \in Runs, Begins(r) PROVE Disjoint'
    <2>1. ASSUME NEW s \in Runs \ {r}
          PROVE  /\ runs'[s].end_sequence <= Len(log)
                 /\ runs'[s].start_sequence = runs[s].start_sequence
                 /\ runs'[s].end_sequence = IF s = active_run THEN Len(log)
                                            ELSE runs[s].end_sequence
                 /\ runs'[s].status # "none" => runs[s].status # "none" \/ s = active_run
      BY <1>2 DEF Begins, InGeneration, Intervals
    <2>2. \A s \in Runs : s = active_run => runs[s].end_sequence = Len(log)
                                           /\ runs[s].status # "none"
      BY <1>2 DEF Begins, InGeneration, Intervals, OneLiveRun, Live
    <2>3. runs'[r].start_sequence = Len(log)
      BY <1>2 DEF Begins
    <2>4. ASSUME NEW s \in Runs \ {r}, NEW u \in Runs \ {r}, s # u,
                 runs'[s].status # "none", runs'[u].status # "none"
          PROVE  \/ runs'[s].end_sequence <= runs'[u].start_sequence
                 \/ runs'[u].end_sequence <= runs'[s].start_sequence
      BY <1>2, <2>1, <2>2, <2>4 DEF Begins, InGeneration
    <2> QED
      BY <2>1, <2>3, <2>4
  <1>3. ASSUME NEW r \in Runs, Opens(r) PROVE Disjoint'
    BY <1>3, NoRunFields DEF Opens
  <1>4. ASSUME NEW r \in Runs, NEW i \in Ids, Extends(r, i) PROVE Disjoint'
    <2>1. active_run = r
      BY <1>4 DEF Extends, InGeneration, OneLiveRun
    <2>2. \A s \in Runs \ {r} : runs'[s].end_sequence <= runs'[r].start_sequence
      BY <1>4, <2>1 DEF Extends, InGeneration, OthersKept, Intervals
    <2> QED
      BY <1>4, <2>2 DEF Extends, InGeneration, OthersKept
  <1>5. ASSUME NEW r \in Runs, NEW o \in Final, Concludes(r, o) PROVE Disjoint'
    <2>1. active_run = r
      BY <1>5 DEF Concludes, InGeneration, OneLiveRun
    <2>2. \A s \in Runs \ {r} : runs'[s].end_sequence <= runs'[r].start_sequence
      BY <1>5, <2>1 DEF Concludes, InGeneration, OthersKept, Intervals
    <2> QED
      BY <1>5, <2>2 DEF Concludes, InGeneration, OthersKept
  <1>6. CASE Closes
    BY <1>6 DEF Closes
  <1>7. CASE Waits
    BY <1>7 DEF Waits
  <1> QED
    BY <1>1, <1>2, <1>3, <1>4, <1>5, <1>6, <1>7 DEF Shapes

\* Every step preserves the invariant.
LEMMA StepInv == LedgerInv /\ [LedgerNext]_ledgerVars => LedgerInv'
  <1> SUFFICES ASSUME LedgerInv, [LedgerNext]_ledgerVars PROVE LedgerInv'
    OBVIOUS
  <1>1. LedgerTypeOK' /\ Shapes
    BY StepShape DEF LedgerInv
  <1> QED
    BY <1>1, OneLiveRunStep, FencesStep, IntervalsStep, InWindowStep, DisjointStep,
       WindowParts DEF LedgerInv

THEOREM LedgerInvariant == LedgerSpec => []LedgerInv
  BY InitInv, StepInv, PTL DEF LedgerSpec

\* The rows of the ledger keep their types: for any runs, ids and bounds.
THEOREM LedgerTypes == LedgerSpec => []LedgerTypeOK
  <1>1. LedgerInv => LedgerTypeOK
    BY DEF LedgerInv
  <1> QED
    BY <1>1, LedgerInvariant, PTL

\* On a readable generation the runs that have not ended are exactly the active
\* one: prepare, recovery, finish, owner loss and cleanup keep runs and
\* active_run_id in step.
THEOREM OneLiveRunAlways == LedgerSpec => []OneLiveRun
  <1>1. LedgerInv => OneLiveRun
    BY DEF LedgerInv
  <1> QED
    BY <1>1, LedgerInvariant, PTL

\* A run's interval holds its messages and no other run's, which is what lets a
\* follower stop at end_sequence.
THEOREM RunWindowsAlways == LedgerSpec => []RunWindows
  <1>1. LedgerInv => RunWindows
    BY DEF LedgerInv
  <1> QED
    BY <1>1, LedgerInvariant, PTL

-----------------------------------------------------------------------------
\* Ownership.

NoReturn ==
  generation' = generation =>
    \A r \in Runs, f \in 1..MaxFence :
      f < next_fence /\ ~Owns(r, generation, f) => ~Owns(r, generation, f)'

LEMMA NoReturnStep ==
  ASSUME LedgerInv, LedgerTypeOK', Shapes
  PROVE  NoReturn
  <1>0. Typed /\ Typed' /\ OneLiveRun /\ generation \in Nat
    BY TypedRows DEF LedgerInv, LedgerTypeOK
  <1> SUFFICES ASSUME generation' = generation,
                      NEW u \in Runs, NEW f \in 1..MaxFence, f < next_fence,
                      Owns(u, generation, f)'
               PROVE  Owns(u, generation, f)
    BY DEF NoReturn
  <1>f. f \in Nat /\ f # next_fence
    BY <1>0, LedgerAssumption DEF Typed
  <1> USE <1>0, <1>f DEF Owns, Live, Typed
  <1>1. ASSUME NEW r \in Runs, Keeps(r) PROVE Owns(u, generation, f)
    BY <1>1 DEF Keeps, InGeneration, OthersKept
  <1>2. ASSUME NEW r \in Runs, Begins(r) PROVE Owns(u, generation, f)
    BY <1>2 DEF Begins, InGeneration
  <1>3. ASSUME NEW r \in Runs, Opens(r) PROVE Owns(u, generation, f)
    BY <1>3 DEF Opens
  <1>4. ASSUME NEW r \in Runs, NEW i \in Ids, Extends(r, i)
        PROVE  Owns(u, generation, f)
    BY <1>4 DEF Extends, InGeneration, OthersKept
  <1>5. ASSUME NEW r \in Runs, NEW o \in Final, Concludes(r, o)
        PROVE  Owns(u, generation, f)
    BY <1>5 DEF Concludes, InGeneration, OthersKept
  <1>6. CASE Closes
    BY <1>6 DEF Closes
  <1>7. CASE Waits
    BY <1>7 DEF Waits
  <1> QED
    BY <1>1, <1>2, <1>3, <1>4, <1>5, <1>6, <1>7 DEF Shapes

\* A producer that lost its run never owns it again, whatever is recovered,
\* renewed or settled: fences are issued once.
THEOREM NoOwnershipReturns == LedgerSpec => OwnershipNeverReturns
  <1>1. LedgerInv /\ [LedgerNext]_ledgerVars => [NoReturn]_ledgerVars
    <2> SUFFICES ASSUME LedgerInv, [LedgerNext]_ledgerVars PROVE NoReturn
      OBVIOUS
    <2>1. LedgerTypeOK' /\ Shapes
      BY StepShape DEF LedgerInv
    <2> QED
      BY <2>1, NoReturnStep
  <1>2. LedgerSpec => [][NoReturn]_ledgerVars
    BY <1>1, LedgerInvariant, PTL DEF LedgerSpec
  <1> QED
    BY <1>2 DEF OwnershipNeverReturns, NoReturn

-----------------------------------------------------------------------------
(***************************************************************************)
(* Refinement of MessageLog: entries, writer and outcomes of a readable    *)
(* generation.                                                             *)
(***************************************************************************)

Outcomes == [r \in Runs |-> Outcome(r)]

\* The outcome of a run that the next step leaves alone.
LEMMA OutcomeKept ==
  ASSUME NEW r \in Runs, disposition = "active", disposition' = "active",
         runs'[r].status = runs[r].status
  PROVE  Outcome(r)' = Outcome(r)
  BY DEF Outcome, Readable

LEMMA RefineInit == LedgerInit => Promise!LogInit
  <1> SUFFICES ASSUME LedgerInit PROVE Promise!LogInit
    OBVIOUS
  <1>1. ~Readable
    BY DEF LedgerInit, Readable
  <1>2. \A r \in Runs : Outcome(r) = "none"
    BY <1>1 DEF Outcome
  <1>3. [r \in Runs |-> Outcome(r)] = [r \in Runs |-> "none"]
    BY <1>2
  <1>4. generation = 0 /\ active_run = "nobody"
    BY DEF LedgerInit, Nobody
  <1> QED
    BY <1>1, <1>3, <1>4 DEF Promise!LogInit, Promise!Nobody

LEMMA RefineStep ==
  ASSUME LedgerInv, LedgerTypeOK', Shapes
  PROVE  [Promise!LogNext]_(Promise!logVars)
  <1>0. Typed /\ OneLiveRun /\ OneLiveRun' /\ Nobody \notin Runs
    BY TypedRows, OneLiveRunStep, LedgerAssumption DEF LedgerInv
  <1>1. ASSUME NEW r \in Runs, Keeps(r)
        PROVE  [Promise!LogNext]_(Promise!logVars)
    <2>1. active_run = r /\ Readable /\ Readable'
      BY <1>0, <1>1 DEF Keeps, InGeneration, OneLiveRun, Readable
    <2>2. \A s \in Runs \ {r} : Outcome(s)' = Outcome(s)
      BY <1>1, OutcomeKept DEF Keeps, InGeneration, OthersKept
    <2>3. CASE runs'[r].status = runs[r].status
      <3>1. Outcome(r)' = Outcome(r)
        BY <1>1, <2>3, OutcomeKept DEF Keeps, InGeneration
      <3>2. Outcomes' = Outcomes
        BY <2>2, <3>1 DEF Outcomes
      <3> QED
        BY <1>1, <2>1, <3>2 DEF Keeps, InGeneration, Outcomes, Promise!logVars
    <2>4. CASE runs[r].status = "running" /\ runs'[r].status = "cancel_requested"
      <3>1. Outcome(r) = "live" /\ Outcome(r)' = "cancelling"
        BY <2>1, <2>4 DEF Outcome
      <3>2. Outcomes' = [Outcomes EXCEPT ![r] = "cancelling"]
        BY <2>2, <3>1 DEF Outcomes
      <3>3. Promise!AcceptCancel(r)
        BY <1>1, <2>1, <3>1, <3>2
           DEF Keeps, InGeneration, Outcomes, Promise!AcceptCancel
      <3> QED
        BY <3>3 DEF Promise!LogNext
    <2> QED
      BY <1>1, <2>3, <2>4 DEF Keeps
  <1>2. ASSUME NEW r \in Runs, Begins(r)
        PROVE  [Promise!LogNext]_(Promise!logVars)
    <2>1. Readable /\ Readable' /\ runs[r].status = "none"
      BY <1>2 DEF Begins, InGeneration, Readable, Exists
    <2>2. Outcome(r) = "none" /\ Outcome(r)' = "live"
      BY <1>2, <2>1 DEF Outcome, Begins
    <2>3. \A s \in Runs \ {r} :
            Outcome(s)' = IF s = active_run THEN "owner_lost" ELSE Outcome(s)
      BY <1>2, <2>1 DEF Outcome, Begins
    <2>4. Outcomes' = [s \in Runs |-> IF s = r THEN "live"
                                      ELSE IF s = active_run THEN "owner_lost"
                                      ELSE Outcomes[s]]
      BY <2>2, <2>3 DEF Outcomes
    <2>5. Promise!Start(r)
      BY <1>2, <2>1, <2>2, <2>4 DEF Begins, InGeneration, Outcomes, Promise!Start
    <2> QED
      BY <2>5 DEF Promise!LogNext
  <1>3. ASSUME NEW r \in Runs, Opens(r)
        PROVE  [Promise!LogNext]_(Promise!logVars)
    <2>1. ~Readable /\ Readable'
      BY <1>3 DEF Opens, Readable
    <2>2. Outcome(r)' = "live" /\ \A s \in Runs \ {r} : Outcome(s)' = "none"
      BY <1>3, <2>1, NoRunFields DEF Outcome, Opens
    <2>3. Outcomes' = [s \in Runs |-> IF s = r THEN "live" ELSE "none"]
      BY <2>2 DEF Outcomes
    <2>4. Promise!OpenAndStart(r)
      BY <1>3, <2>1, <2>3 DEF Opens, Outcomes, Promise!OpenAndStart
    <2> QED
      BY <2>4 DEF Promise!LogNext
  <1>4. ASSUME NEW r \in Runs, NEW i \in Ids, Extends(r, i)
        PROVE  [Promise!LogNext]_(Promise!logVars)
    <2>1. active_run = r /\ Readable /\ Readable'
      BY <1>0, <1>4 DEF Extends, InGeneration, OneLiveRun, Readable
    <2>2. \A s \in Runs : Outcome(s)' = Outcome(s)
      BY <1>4, OutcomeKept DEF Extends, InGeneration, OthersKept
    <2>3. Outcomes' = Outcomes
      BY <2>2 DEF Outcomes
    <2>4. Promise!Append1(r, i)
      BY <1>4, <2>1, <2>3
         DEF Extends, InGeneration, Committed, Outcomes, Promise!Append1
    <2> QED
      BY <2>4 DEF Promise!LogNext
  <1>5. ASSUME NEW r \in Runs, NEW o \in Final, Concludes(r, o)
        PROVE  [Promise!LogNext]_(Promise!logVars)
    <2>1. active_run = r /\ Readable /\ Readable'
      BY <1>0, <1>5 DEF Concludes, InGeneration, OneLiveRun, Readable
    <2>2. \A s \in Runs \ {r} : Outcome(s)' = Outcome(s)
      BY <1>5, OutcomeKept DEF Concludes, InGeneration, OthersKept
    <2>3. Outcome(r)' = o /\ (o = "completed" => Outcome(r) = "live")
      BY <1>5, <2>1 DEF Outcome, Concludes, Final
    <2>4. Outcomes' = [Outcomes EXCEPT ![r] = o]
      BY <2>2, <2>3 DEF Outcomes
    <2>5. Promise!End(r, o) /\ o \in Promise!Outcomes
      BY <1>5, <2>1, <2>3, <2>4
         DEF Concludes, InGeneration, Outcomes, Final, Promise!End, Promise!Outcomes,
             Promise!Nobody, Nobody
    <2> QED
      BY <2>5 DEF Promise!LogNext
  <1>6. CASE Closes
    <2>1. ~Readable' /\ active_run' = Nobody
      BY <1>6 DEF Closes, Readable
    <2> DEFINE ended == [r \in Runs |-> "none"]
    <2>0. \A r \in Runs : Outcome(r)' = "none"
      BY <2>1 DEF Outcome
    <2>2. Outcomes' = ended
      BY <2>0 DEF Outcomes
    <2>3. CASE Readable
      <3>1. Promise!Close
        BY <1>6, <2>1, <2>2, <2>3
           DEF Closes, Outcomes, Promise!Close, Promise!Nobody, Nobody
      <3> QED
        BY <3>1 DEF Promise!LogNext
    <2>4. CASE ~Readable
      <3>1. \A r \in Runs : Outcome(r) = "none"
        BY <2>4 DEF Outcome
      <3>2. Outcomes = ended
        BY <3>1 DEF Outcomes
      <3>3. active_run = Nobody
        BY <1>0, <2>4 DEF Readable, OneLiveRun
      <3>4. generation' = generation
        BY <1>6 DEF Closes
      <3>5. Readable' = Readable
        BY <2>1, <2>4 DEF Readable
      <3>6. (IF Readable THEN log ELSE <<>>)' = (IF Readable THEN log ELSE <<>>)
        BY <2>1, <2>4
      <3>7. Outcomes' = Outcomes
        BY <2>2, <3>2
      <3> QED
        BY <2>1, <3>3, <3>4, <3>5, <3>6, <3>7 DEF Outcomes, Promise!logVars
    <2> QED
      BY <2>3, <2>4
  <1>7. CASE Waits
    BY <1>7 DEF Waits, Promise!logVars, Readable, Outcome
  <1> QED
    BY <1>1, <1>2, <1>3, <1>4, <1>5, <1>6, <1>7 DEF Shapes

\* The ledger implements the log its readers are promised.
THEOREM LedgerKeepsPromise == LedgerSpec => PromisedLog
  <1>1. LedgerInv /\ [LedgerNext]_ledgerVars => [Promise!LogNext]_(Promise!logVars)
    <2> SUFFICES ASSUME LedgerInv, [LedgerNext]_ledgerVars
                 PROVE  [Promise!LogNext]_(Promise!logVars)
      OBVIOUS
    <2>1. LedgerTypeOK' /\ Shapes
      BY StepShape DEF LedgerInv
    <2> QED
      BY <2>1, RefineStep
  <1> QED
    BY <1>1, RefineInit, LedgerInvariant, PTL DEF LedgerSpec, PromisedLog, Promise!LogSpec

=============================================================================
