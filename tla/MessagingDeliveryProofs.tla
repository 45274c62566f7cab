----------------------- MODULE MessagingDeliveryProofs -----------------------
(***************************************************************************)
(* Proofs about MessagingDelivery: the real producers take only steps of   *)
(* the ledger, so that what is proved of the ledger holds with them, and   *)
(* what producers, publishers and followers make of it.                    *)
(***************************************************************************)
EXTENDS MessagingDelivery, MessagingLedgerProofs

-----------------------------------------------------------------------------
(***************************************************************************)
(* The inductive invariant.                                                *)
(***************************************************************************)

Working(p) == producer[p].pc \notin {"idle", "done"}

\* A producer's reference was issued in this generation or an earlier one.
ProducerSound(p) ==
  /\ producer[p].generation <= generation
  /\ Working(p) =>
       /\ producer[p].run \in Runs
       /\ producer[p].generation \in 1..MaxGeneration
       /\ producer[p].fence \in 1..MaxFence
       /\ producer[p].next >= 1
  /\ producer[p].settlement # "unclaimed" =>
       producer[p].run \in Runs /\ producer[p].pc \notin {"idle", "preflight"}

\* It resumes right after an item that is committed.
Resumes(p) ==
  Working(p) /\ Readable /\ producer[p].generation = generation =>
    producer[p].next = 1 \/ Committed(<<producer[p].run, producer[p].next - 1>>)

\* The k-th message of the log: its id is its run's and new, the item before it
\* is there, and a publication lies inside its run.
MessageSound(k) ==
  LET r == log[k].run
      n == log[k].id[2]
  IN  /\ log[k].id = <<r, n>> /\ n \in 0..k
      /\ \A j \in 1 .. k - 1 : log[j].id # log[k].id
      /\ n > 1 => \E j \in 1 .. k - 1 : log[j].id = <<r, n - 1>>
      /\ n = 0 => \E j \in 1 .. k - 1 : log[j].id = <<r, 1>>
      /\ n = 0 => \A j \in 1 .. k - 1 : log[j].id # <<r, Items[r]>>

\* What a run's row says of its messages.
RowSound(r) ==
  /\ runs[r].publication_ready => Committed(<<r, 1>>)
  /\ Committed(<<r, Items[r]>>) => runs[r].publication_closed
  /\ \/ runs[r].checkpoint = <<>>
     \/ \E k \in 1 .. Len(log) : runs[r].checkpoint = <<<<r, k>>>> /\ Committed(<<r, k>>)

LogSound ==
  Readable => (\A k \in 1 .. Len(log) : MessageSound(k)) /\ (\A r \in Runs : RowSound(r))

\* A run whose cancellation is being settled is not recovered.
CancelSettled(r) == runs[r].settlement_started /\ runs[r].status \notin {"none", "running"}

WonSound(p) ==
  producer[p].settlement = "won" /\ Readable /\ producer[p].generation = generation =>
    CancelSettled(producer[p].run)

\* A follower has what lies between its cursors.
FollowerSound(f) ==
  follower[f].pc # "idle" =>
    /\ follower[f].run \in Runs
    /\ follower[f].generation <= generation
    /\ Readable /\ follower[f].generation = generation =>
         /\ Exists(follower[f].run)
         /\ Cursor(f) <= Len(log)
         /\ follower[f].got = SubSeq(log, follower[f].after + 1, Cursor(f))
         /\ runs[follower[f].run].status \in Final /\ Len(follower[f].got) > 0 =>
              Cursor(f) <= runs[follower[f].run].end_sequence
         /\ follower[f].pc = "ended" =>
              /\ runs[follower[f].run].status \in Final
              /\ Cursor(f) >= runs[follower[f].run].end_sequence

\* Generations are numbered from 1.
Issued == Readable => generation \in 1 .. MaxGeneration

DeliveryTypes == producer \in [Producers -> Producer] /\ follower \in [Followers -> Follower]

DeliveryInv ==
  /\ LedgerInv
  /\ DeliveryTypes
  /\ Issued
  /\ \A p \in Producers : ProducerSound(p) /\ Resumes(p) /\ WonSound(p)
  /\ LogSound
  /\ CancelCallbackOnce
  /\ \A f \in Followers : FollowerSound(f)

-----------------------------------------------------------------------------
(***************************************************************************)
(* What a step does to the ledger, as far as producers and followers see.  *)
(***************************************************************************)

SameFlags(r) ==
  /\ runs'[r].publication_ready = runs[r].publication_ready
  /\ runs'[r].publication_closed = runs[r].publication_closed
  /\ runs'[r].checkpoint = runs[r].checkpoint

NoFlags(run) == ~run.publication_ready /\ ~run.publication_closed /\ run.checkpoint = <<>>

\* A run goes on, or ends at the tail for good.
Row(r) ==
  /\ runs[r].status \in Final => runs'[r] = runs[r]
  /\ Exists(r) => Exists(r)'
  /\ runs[r].status \notin Final /\ runs'[r].status \in Final =>
       runs'[r].end_sequence = Len(log)
  /\ CancelSettled(r) => CancelSettled(r)'
  /\ SameFlags(r) \/ (~Exists(r) /\ NoFlags(runs'[r]))

\* No message is committed.
Moves ==
  InGeneration /\ log' = log /\ \A r \in Runs : Row(r)

\* The n-th item of a run, or its publication from outside, is committed.
Adds(r, n) ==
  /\ InGeneration
  /\ Live(r)
  /\ log' = Append(log, [run |-> r, id |-> <<r, n>>])
  /\ ~Committed(<<r, n>>)
  /\ OthersKept(r)
  /\ runs'[r].status = runs[r].status
  /\ runs'[r].settlement_started = runs[r].settlement_started
  /\ runs'[r].publication_ready <=> runs[r].publication_ready \/ n = 1
  /\ runs'[r].publication_closed <=> runs[r].publication_closed \/ n = Items[r]
  /\ \/ runs'[r].checkpoint = runs[r].checkpoint
     \/ n # 0 /\ runs'[r].checkpoint = <<<<r, n>>>>
  /\ n = 0 => runs[r].publication_ready /\ ~runs[r].publication_closed
  /\ n > 1 => Committed(<<r, n - 1>>)

\* A new generation begins.
Reopens ==
  /\ disposition # "active" /\ disposition' = "active"
  /\ generation' = generation + 1 /\ generation < MaxGeneration /\ log' = <<>>
  /\ \A r \in Runs : NoFlags(runs'[r])

Seen ==
  \/ Moves \/ Reopens \/ Closes \/ Waits
  \/ \E r \in Runs, n \in Nat : Adds(r, n)

\* The ledger takes one of its steps, which has one of these shapes.
LedgerStep == [LedgerNext]_ledgerVars /\ Seen

-----------------------------------------------------------------------------
(***************************************************************************)
(* The rows that the transitions write.                                    *)
(***************************************************************************)

\* What the ledger's invariant says of the types.
LEMMA RowTypes ==
  ASSUME LedgerInv
  PROVE  /\ LedgerTypeOK /\ OneLiveRun /\ Intervals /\ RunWindows
         /\ \A r \in Runs : runs[r] \in RunRecord
         /\ log \in Seq(Message) /\ Len(log) \in Nat /\ latest = Len(log)
         /\ generation \in Nat /\ next_fence \in Nat \ {0}
  BY DEF LedgerInv, LedgerTypeOK, latest

\* A run that ends.
LEMMA SettledRow ==
  ASSUME LedgerInv, NEW r \in Runs, NEW o \in Final, Live(r),
         runs'[r] = SettledRun(runs[r], o, Len(log))
  PROVE  Row(r)
  <1>1. runs[r] \in RunRecord
    BY RowTypes
  <1>2. /\ runs'[r].status = o /\ runs'[r].settlement_started
        /\ runs'[r].end_sequence = Len(log)
        /\ runs'[r].publication_ready = runs[r].publication_ready
        /\ runs'[r].publication_closed = runs[r].publication_closed
        /\ runs'[r].checkpoint = runs[r].checkpoint
    BY <1>1 DEF SettledRun, RunRecord
  <1> QED
    BY <1>2 DEF Row, Live, Final, Exists, CancelSettled, SameFlags

\* A run that stays as it is.
LEMMA SameRow ==
  ASSUME NEW r \in Runs, runs'[r] = runs[r]
  PROVE  Row(r)
  BY DEF Row, Exists, CancelSettled, SameFlags

\* The owner of a run is lost.
LEMMA LoseMoves ==
  ASSUME LedgerInv, NEW r \in Runs, LapsedRun(r), LoseOwner(r)
  PROVE  Moves
  <1>1. runs'[r] = SettledRun(runs[r], "owner_lost", Len(log))
        /\ \A s \in Runs \ {r} : runs'[s] = runs[s]
    BY RowTypes DEF LoseOwner, OwnerLostRun, LedgerTypeOK
  <1>2. Row(r)
    BY <1>1, SettledRow DEF LapsedRun, Final
  <1>3. \A s \in Runs : Row(s)
    BY <1>1, <1>2, SameRow
  <1> QED
    BY <1>3 DEF Moves, InGeneration, LoseOwner, LapsedRun

\* A run is created, and the one whose lease ran out is lost.
LEMMA NewRunMoves ==
  ASSUME LedgerInv, NEW r \in Runs, PrepareNewRun(r)
  PROVE  Moves
  <1>1. runs'[r] = CreatedRun(Len(log), next_fence)
    BY RowTypes DEF PrepareNewRun
  <1>2. NoFlags(runs'[r]) /\ runs'[r].status = "running"
    BY <1>1 DEF CreatedRun, NoRun, NoFlags
  <1>3. Row(r)
    BY <1>2 DEF Row, PrepareNewRun, Exists, CancelSettled, Final
  <1>4. ASSUME NEW s \in Runs, s # r PROVE Row(s)
    <2>1. runs'[s] = IF s = active_run THEN OwnerLostRun(runs[s]) ELSE runs[s]
      BY <1>4 DEF PrepareNewRun
    <2>2. CASE s = active_run
      <3>1. Live(s) /\ runs'[s] = SettledRun(runs[s], "owner_lost", Len(log))
        BY <2>1, <2>2, RowTypes DEF OneLiveRun, PrepareNewRun, OwnerLostRun
      <3> QED
        BY <3>1, SettledRow DEF Final
    <2> QED
      BY <2>1, <2>2, SameRow
  <1> QED
    BY <1>3, <1>4 DEF Moves, InGeneration, PrepareNewRun

\* Recovery is refused to a run whose cancellation is being settled.
LEMMA RecoverMoves ==
  ASSUME LedgerInv, NEW r \in Runs, PrepareRecovers(r)
  PROVE  Moves
  <1>1. /\ runs'[r].status = runs[r].status /\ SameFlags(r)
        /\ \A s \in Runs \ {r} : runs'[s] = runs[s]
    BY RowTypes DEF PrepareRecovers, SameFlags, LedgerTypeOK, RunRecord
  <1>2. Row(r)
    BY <1>1 DEF Row, PrepareRecovers, LapsedRun, CanRecover, Live, CancelSettled, Exists, Final
  <1> QED
    BY <1>1, <1>2, SameRow DEF Moves, InGeneration, PrepareRecovers, LapsedRun

\* The other steps of a row that is not ended.
LEMMA RowMoves ==
  ASSUME LedgerInv, NEW r \in Runs,
         \/ \E g, f : BeginSettlement(r, g, f)
         \/ RequestCancellation(r)
         \/ disposition = "active" /\ LeaseExpires(r)
  PROVE  Moves
  <1>1. /\ InGeneration /\ log' = log /\ Live(r) /\ SameFlags(r)
        /\ \A s \in Runs \ {r} : runs'[s] = runs[s]
        /\ runs'[r].status \in {runs[r].status, "cancel_requested"}
        /\ runs'[r].settlement_started \in {runs[r].settlement_started, TRUE}
    <2>0. runs \in [Runs -> RunRecord] /\ runs[r] \in RunRecord
      BY RowTypes DEF LedgerTypeOK
    <2>1. CASE \E g, f : BeginSettlement(r, g, f)
      BY <2>0, <2>1 DEF BeginSettlement, Owns, Live, InGeneration, SameFlags, RunRecord
    <2>2. CASE RequestCancellation(r)
      BY <2>0, <2>2 DEF RequestCancellation, Live, InGeneration, SameFlags, RunRecord
    <2>3. CASE disposition = "active" /\ LeaseExpires(r)
      BY <2>0, <2>3 DEF LeaseExpires, OwnerLeased, Live, InGeneration, SameFlags, RunRecord
    <2> QED
      BY <2>1, <2>2, <2>3
  <1>2. Row(r)
    BY <1>1 DEF Row, Live, CancelSettled, Exists, Final
  <1> QED
    BY <1>1, <1>2, SameRow DEF Moves

\* The owner finishes its run.
LEMMA FinishMoves ==
  ASSUME LedgerInv, NEW r \in Runs, NEW g, NEW f, NEW status \in Final,
         FinishRun(r, g, f, status)
  PROVE  Moves
  <1>1. FinishedStatus(r, status) \in Final
    BY DEF FinishedStatus, Final
  <1>2. /\ runs'[r] = SettledRun(runs[r], FinishedStatus(r, status), Len(log))
        /\ \A s \in Runs \ {r} : runs'[s] = runs[s]
    BY RowTypes DEF FinishRun, LedgerTypeOK
  <1>3. Row(r)
    BY <1>1, <1>2, SettledRow DEF FinishRun, Owns
  <1> QED
    BY <1>2, <1>3, SameRow DEF Moves, InGeneration, FinishRun, Owns

\* A generation opens with no rows but the new one.
LEMMA GenerationReopens ==
  ASSUME LedgerInv, NEW r \in Runs, PrepareInNewGeneration(r)
  PROVE  Reopens
  <1>1. NoFlags(NoRun) /\ NoFlags(CreatedRun(0, 1))
    BY DEF NoFlags, NoRun, CreatedRun
  <1> QED
    BY <1>1 DEF Reopens, PrepareInNewGeneration, StartsGeneration

\* The publication from outside.
LEMMA PublishAdds ==
  ASSUME LedgerInv, NEW r \in Runs, NEW g, PublishMessage(r, g, <<r, 0>>)
  PROVE  Adds(r, 0)
  <1>1. Items[r] # 0
    BY DeliveryAssumption
  <1>2. /\ runs'[r] = [runs[r] EXCEPT !.end_sequence = latest + 1]
        /\ OthersKept(r)
        /\ runs[r] \in RunRecord
    BY RowTypes DEF PublishMessage, CommitMessage, OthersKept, LedgerTypeOK
  <1>3. /\ runs'[r].status = runs[r].status
        /\ runs'[r].settlement_started = runs[r].settlement_started
        /\ runs'[r].publication_ready = runs[r].publication_ready
        /\ runs'[r].publication_closed = runs[r].publication_closed
        /\ runs'[r].checkpoint = runs[r].checkpoint
        /\ runs[r].publication_ready \in BOOLEAN /\ runs[r].publication_closed \in BOOLEAN
    BY <1>2 DEF RunRecord
  <1>4. /\ InGeneration /\ Live(r) /\ ~Committed(<<r, 0>>)
        /\ log' = Append(log, [run |-> r, id |-> <<r, 0>>])
        /\ runs[r].publication_ready /\ ~runs[r].publication_closed
    BY DEF PublishMessage, CommitMessage, PublicationAccepted, InGeneration, Live
  <1> QED
    BY <1>1, <1>2, <1>3, <1>4 DEF Adds

\* An item that is committed has been preceded by as many messages.
LEMMA CommittedBound ==
  ASSUME LedgerInv, LogSound, Readable, NEW r \in Runs, NEW n \in Nat, Committed(<<r, n>>)
  PROVE  n <= Len(log)
  <1>1. Len(log) \in Nat /\ DOMAIN log = 1 .. Len(log)
    BY RowTypes
  <1>2. PICK k \in 1 .. Len(log) : log[k].id = <<r, n>>
    BY <1>1 DEF Committed
  <1>3. MessageSound(k)
    BY DEF LogSound
  <1>4. log[k].id[2] \in 0 .. k
    BY <1>3 DEF MessageSound
  <1> QED
    BY <1>1, <1>2, <1>4

\* The next item of a producer is appended right behind the one before it.
LEMMA AppendAdds ==
  ASSUME DeliveryInv, NEW p \in Producers, Working(p),
         NEW r \in Runs, r = producer[p].run, NEW n \in Nat, n = producer[p].next,
         AppendMessage(r, producer[p].generation, producer[p].fence, <<r, n>>,
                       n = 1, n = Items[r], Checkpoint(p))
  PROVE  LedgerStep /\ Adds(r, n)
  <1>0. /\ LedgerInv /\ LogSound /\ ProducerSound(p) /\ Resumes(p)
        /\ runs[r] \in RunRecord /\ runs \in [Runs -> RunRecord] /\ Len(log) \in Nat
    BY RowTypes DEF DeliveryInv, LedgerTypeOK
  <1>1. /\ Readable /\ generation = producer[p].generation /\ Live(r)
        /\ ~Committed(<<r, n>>) /\ Len(log) < MaxMessages
        /\ log' = Append(log, [run |-> r, id |-> <<r, n>>])
        /\ UNCHANGED <<generation, disposition>>
    BY DEF AppendMessage, CommitMessage, Owns, Readable, latest
  <1>2. n >= 1 /\ (n > 1 => Committed(<<r, n - 1>>))
    BY <1>0, <1>1 DEF ProducerSound, Resumes
  <1>3. Checkpoint(p) \in {<<>>, <<<<r, n>>>>}
    BY DEF Checkpoint
  <1>4. /\ runs'[r] = [runs[r] EXCEPT !.end_sequence = latest + 1,
                                      !.publication_ready = @ \/ n = 1,
                                      !.publication_closed = @ \/ n = Items[r],
                                      !.checkpoint = IF Checkpoint(p) = <<>> THEN @
                                                     ELSE Checkpoint(p)]
        /\ OthersKept(r)
    BY <1>0 DEF AppendMessage, CommitMessage, OthersKept
  <1>5. /\ runs'[r].status = runs[r].status
        /\ runs'[r].settlement_started = runs[r].settlement_started
        /\ runs'[r].publication_ready <=> runs[r].publication_ready \/ n = 1
        /\ runs'[r].publication_closed <=> runs[r].publication_closed \/ n = Items[r]
        /\ runs'[r].checkpoint = runs[r].checkpoint \/ runs'[r].checkpoint = <<<<r, n>>>>
    BY <1>0, <1>3, <1>4 DEF RunRecord
  <1>6. Adds(r, n)
    BY <1>1, <1>2, <1>4, <1>5 DEF Adds, InGeneration, Readable
  <1>7. <<r, n>> \in Ids
    <2>1. n > 1 => n - 1 <= Len(log)
      BY <1>0, <1>1, <1>2, CommittedBound
    <2>2. n \in 0 .. MaxMessages + 1
      BY <1>0, <1>1, <1>2, <2>1, LedgerAssumption
    <2> QED
      BY <2>2, DeliveryAssumption
  <1>8. ByOwner(r, producer[p].generation, producer[p].fence)
    BY <1>3, <1>7 DEF ByOwner
  <1>9. LedgerNext
    BY <1>0, <1>8 DEF LedgerNext, ProducerSound
  <1> QED
    BY <1>6, <1>9 DEF LedgerStep, Seen

\* A lease that runs out while nothing is readable changes nothing that is seen.
LEMMA LeaseSeen ==
  ASSUME LedgerInv, NEW r \in Runs, LeaseExpires(r)
  PROVE  LedgerStep
  <1>1. LedgerNext
    BY DEF LedgerNext, ByAnyone
  <1>2. CASE disposition = "active"
    BY <1>1, <1>2, RowMoves DEF LedgerStep, Seen
  <1>3. CASE disposition # "active"
    <2>1. \A s \in Runs : runs'[s].fence = runs[s].fence
      BY RowTypes DEF LeaseExpires, LedgerTypeOK, RunRecord
    <2>2. Closes
      BY <1>3, <2>1, RowTypes DEF Closes, LeaseExpires, OneLiveRun
    <2> QED
      BY <1>1, <2>2 DEF LedgerStep, Seen
  <1> QED
    BY <1>2, <1>3

\* The environment takes steps of the ledger.
LEMMA EnvironmentSeen ==
  ASSUME LedgerInv, Environment
  PROVE  LedgerStep
  <1>1. CASE \E r \in Runs : RequestCancellation(r)
    BY <1>1, RowMoves DEF LedgerStep, Seen, LedgerNext, ByAnyone
  <1>2. CASE \E r \in Runs : LeaseExpires(r)
    BY <1>2, LeaseSeen
  <1>3. CASE \E r \in Runs, g \in 1..MaxGeneration : PublishMessage(r, g, <<r, 0>>)
    <2>1. PICK r \in Runs, g \in 1..MaxGeneration : PublishMessage(r, g, <<r, 0>>)
      BY <1>3
    <2>2. <<r, 0>> \in Ids
      BY DeliveryAssumption, LedgerAssumption
    <2>3. LedgerNext
      BY <2>1, <2>2 DEF LedgerNext, ByAnyone
    <2>4. Adds(r, 0) /\ 0 \in Nat
      BY <2>1, PublishAdds
    <2> QED
      BY <2>3, <2>4 DEF LedgerStep, Seen
  <1>4. CASE RetentionElapses
    BY <1>4 DEF RetentionElapses, LedgerStep, Seen, Waits, LedgerNext
  <1>5. CASE ReclaimExpired
    BY <1>5, RowTypes, ReclaimsShape DEF LedgerStep, Seen, LedgerNext, Cleanup
  <1> QED
    BY <1>1, <1>2, <1>3, <1>4, <1>5 DEF Environment

\* So does a step that leaves the ledger alone.
LEMMA StillSeen ==
  ASSUME UNCHANGED ledgerVars
  PROVE  LedgerStep
  BY DEF ledgerVars, LedgerStep, Seen, Waits

-----------------------------------------------------------------------------
(***************************************************************************)
(* What the shapes preserve.                                               *)
(***************************************************************************)

\* A generation that is still read has only grown.
LEMMA Carries ==
  ASSUME LedgerInv, LedgerStep
  PROVE  /\ LedgerInv'
         /\ generation' >= generation
         /\ Readable' /\ generation' = generation =>
              Readable /\ (Moves \/ \E r \in Runs, n \in Nat : Adds(r, n))
  <1>0. generation \in Nat
    BY RowTypes
  <1>1. LedgerInv'
    BY StepInv DEF LedgerStep
  <1>2. CASE Moves
    BY <1>0, <1>1, <1>2 DEF Moves, InGeneration, Readable
  <1>3. CASE Reopens
    BY <1>0, <1>1, <1>3 DEF Reopens
  <1>4. CASE Closes
    BY <1>0, <1>1, <1>4 DEF Closes, Readable
  <1>5. CASE Waits
    <2>1. \A r \in Runs : Row(r)
      BY <1>5, SameRow DEF Waits
    <2> QED
      BY <1>0, <1>1, <1>5, <2>1 DEF Waits, Moves, InGeneration, Readable
  <1>6. CASE \E r \in Runs, n \in Nat : Adds(r, n)
    <2>1. InGeneration
      BY <1>6 DEF Adds
    <2> QED
      BY <1>0, <1>1, <1>6, <2>1 DEF InGeneration, Readable
  <1> QED
    BY <1>2, <1>3, <1>4, <1>5, <1>6 DEF LedgerStep, Seen

\* The number of a generation is in range.
LEMMA IssuedStep ==
  ASSUME LedgerInv, Issued, LedgerStep
  PROVE  Issued'
  <1>1. CASE Reopens
    BY <1>1, RowTypes, LedgerAssumption DEF Reopens, Issued
  <1>2. CASE ~Reopens
    BY <1>2 DEF LedgerStep, Seen, Moves, Adds, InGeneration, Closes, Waits, Issued, Readable
  <1> QED
    BY <1>1, <1>2

\* The log after an append.
LEMMA Appended ==
  ASSUME LedgerInv, NEW r \in Runs, NEW n \in Nat, Adds(r, n)
  PROVE  /\ Len(log') = Len(log) + 1
         /\ \A k \in 1 .. Len(log) : log'[k] = log[k]
         /\ log'[Len(log) + 1] = [run |-> r, id |-> <<r, n>>]
         /\ DOMAIN log = 1 .. Len(log) /\ DOMAIN log' = 1 .. Len(log) + 1
         /\ Len(log) \in Nat
  <1> DEFINE m == [run |-> r, id |-> <<r, n>>]
  <1>1. log \in Seq(Message) /\ Len(log) \in Nat
    BY RowTypes
  <1>2. log' = Append(log, m)
    BY DEF Adds
  <1> HIDE DEF m
  <1>3. Len(log') = Len(log) + 1 /\ DOMAIN log = 1 .. Len(log)
    BY <1>1, <1>2
  <1>4. DOMAIN log' = 1 .. Len(log) + 1
    BY <1>1, <1>2
  <1>5. \A k \in 1 .. Len(log) : log'[k] = log[k]
    BY <1>1, <1>2
  <1>6. log'[Len(log) + 1] = m
    BY <1>1, <1>2
  <1> QED
    BY <1>1, <1>3, <1>4, <1>5, <1>6 DEF m

\* Committed messages stay.
LEMMA CommittedAfter ==
  ASSUME LedgerInv, NEW r \in Runs, NEW n \in Nat, Adds(r, n), NEW i
  PROVE  Committed(i)' <=> Committed(i) \/ i = <<r, n>>
  <1> DEFINE m == [run |-> r, id |-> <<r, n>>]
  <1>1. m.id = <<r, n>>
    OBVIOUS
  <1>2. /\ \A k \in 1 .. Len(log) : log'[k] = log[k]
        /\ log'[Len(log) + 1] = m
        /\ DOMAIN log = 1 .. Len(log) /\ DOMAIN log' = 1 .. Len(log) + 1
        /\ Len(log) \in Nat
    BY Appended
  <1> HIDE DEF m
  <1>3. Committed(i) => Committed(i)'
    BY <1>2 DEF Committed
  <1>4. i = <<r, n>> => Committed(i)'
    <2>1. Len(log) + 1 \in DOMAIN log'
      BY <1>2
    <2> QED
      BY <1>1, <1>2, <2>1 DEF Committed
  <1>5. ASSUME NEW k \in DOMAIN log', log'[k].id = i
        PROVE  Committed(i) \/ i = <<r, n>>
    <2>1. k \in 1 .. Len(log) \/ k = Len(log) + 1
      BY <1>2
    <2> QED
      BY <1>1, <1>2, <1>5, <2>1 DEF Committed
  <1> QED
    BY <1>3, <1>4, <1>5 DEF Committed

\* Nothing of a run that has no row is committed.
LEMMA NoRowNoMessage ==
  ASSUME LedgerInv, LogSound, Readable, NEW r \in Runs, ~Exists(r), NEW n
  PROVE  ~Committed(<<r, n>>)
  <1>1. Len(log) \in Nat /\ DOMAIN log = 1 .. Len(log)
    BY RowTypes
  <1>2. SUFFICES ASSUME NEW k \in 1 .. Len(log), log[k].id = <<r, n>>
                 PROVE  FALSE
    BY <1>1 DEF Committed
  <1>3. log[k].id = <<log[k].run, log[k].id[2]>>
    BY DEF LogSound, MessageSound
  <1>4. log[k].run = r
    BY <1>2, <1>3
  <1>5. runs[r].end_sequence = 0 /\ k <= runs[r].end_sequence
    BY <1>1, <1>4, RowTypes DEF Readable, Intervals, RunWindows
  <1> QED
    BY <1>5

\* A step that commits nothing keeps what the log and the rows say.
LEMMA MovesLog ==
  ASSUME LedgerInv, LogSound, Moves
  PROVE  LogSound'
  <1>0. Readable /\ log' = log
    BY DEF Moves, InGeneration, Readable
  <1>1. ASSUME NEW k \in 1 .. Len(log') PROVE MessageSound(k)'
    BY <1>0 DEF LogSound, MessageSound
  <1>2. ASSUME NEW r \in Runs PROVE RowSound(r)'
    <2>1. RowSound(r) /\ Row(r)
      BY <1>0 DEF LogSound, Moves
    <2>2. CASE SameFlags(r)
      BY <1>0, <2>1, <2>2 DEF RowSound, SameFlags, Committed
    <2>3. CASE ~Exists(r) /\ NoFlags(runs'[r])
      <3>1. ~Committed(<<r, Items[r]>>)
        BY <1>0, <2>3, NoRowNoMessage
      <3>2. ~Committed(<<r, Items[r]>>)'
        BY <1>0, <3>1 DEF Committed
      <3> QED
        BY <2>3, <3>2 DEF RowSound, NoFlags
    <2> QED
      BY <2>1, <2>2, <2>3 DEF Row
  <1> QED
    BY <1>1, <1>2 DEF LogSound

\* A committed message is new, follows the item before it, and lies inside its
\* run if it comes from outside.
LEMMA AddsLog ==
  ASSUME LedgerInv, LogSound, NEW r \in Runs, NEW n \in Nat, Adds(r, n)
  PROVE  LogSound'
  <1> DEFINE m == [run |-> r, id |-> <<r, n>>]
  <1> PICK last : last = Len(log) + 1
    OBVIOUS
  <1>0. /\ Readable /\ RowSound(r) /\ last \in Nat /\ Len(log) \in Nat
        /\ Len(log') = last /\ DOMAIN log = 1 .. Len(log)
        /\ \A k \in 1 .. Len(log) : log'[k] = log[k]
        /\ log'[last] = m /\ m.run = r /\ m.id = <<r, n>>
    BY Appended DEF LogSound, Adds, InGeneration, Readable
  <1> HIDE DEF m
  <1>1. \A i : Committed(i)' <=> Committed(i) \/ i = <<r, n>>
    BY CommittedAfter
  <1>2. \A i : Committed(i) <=> \E k \in 1 .. last - 1 : log'[k].id = i
    BY <1>0 DEF Committed
  <1>3. n > 1 => Committed(<<r, n - 1>>) /\ n - 1 <= Len(log)
    BY <1>0, CommittedBound DEF Adds
  <1>4. MessageSound(last)'
    <2>1. \A j \in 1 .. last - 1 : log'[j].id # <<r, n>>
      BY <1>2 DEF Adds
    <2>2. n > 1 => \E j \in 1 .. last - 1 : log'[j].id = <<r, n - 1>>
      BY <1>2, <1>3
    <2>3. n = 0 => \E j \in 1 .. last - 1 : log'[j].id = <<r, 1>>
      BY <1>0, <1>2 DEF Adds, RowSound
    <2>4. n = 0 => \A j \in 1 .. last - 1 : log'[j].id # <<r, Items[r]>>
      BY <1>0, <1>2 DEF Adds, RowSound
    <2>5. n \in 0 .. last
      BY <1>0, <1>3
    <2>6. log'[last].run = r /\ log'[last].id = <<r, n>> /\ log'[last].id[2] = n
      BY <1>0
    <2> QED
      BY <2>1, <2>2, <2>3, <2>4, <2>5, <2>6 DEF MessageSound
  <1>5. ASSUME NEW k \in 1 .. Len(log) PROVE MessageSound(k)'
    <2>1. MessageSound(k) /\ log'[k] = log[k]
      BY <1>0 DEF LogSound
    <2>2. \A j \in 1 .. k - 1 : log'[j] = log[j]
      BY <1>0
    <2> QED
      BY <2>1, <2>2 DEF MessageSound
  <1>6. RowSound(r)'
    <2>1. runs'[r].publication_ready => Committed(<<r, 1>>)'
      BY <1>0, <1>1 DEF Adds, RowSound
    <2>2. Committed(<<r, Items[r]>>)' => runs'[r].publication_closed
      BY <1>0, <1>1 DEF Adds, RowSound
    <2>3. CASE runs'[r].checkpoint = runs[r].checkpoint
      <3>1. \A k \in 1 .. Len(log) : k \in 1 .. Len(log')
        BY <1>0
      <3> QED
        BY <1>0, <1>1, <2>1, <2>2, <2>3, <3>1 DEF RowSound
    <2>4. CASE n # 0 /\ runs'[r].checkpoint = <<<<r, n>>>>
      <3>1. n \in 1 .. Len(log') /\ Committed(<<r, n>>)'
        BY <1>0, <1>1, <1>3, <2>4
      <3> QED
        BY <2>1, <2>2, <2>4, <3>1 DEF RowSound
    <2> QED
      BY <2>3, <2>4 DEF Adds
  <1>7. ASSUME NEW s \in Runs, s # r PROVE RowSound(s)'
    <2>1. runs'[s] = runs[s] /\ RowSound(s)
      BY <1>0, <1>7 DEF Adds, OthersKept, LogSound
    <2>2. \A k : Committed(<<s, k>>)' <=> Committed(<<s, k>>)
      BY <1>1, <1>7
    <2>3. \A k \in 1 .. Len(log) : k \in 1 .. Len(log')
      BY <1>0
    <2> QED
      BY <2>1, <2>2, <2>3 DEF RowSound
  <1>8. \A k \in 1 .. Len(log') : k \in 1 .. Len(log) \/ k = last
    BY <1>0
  <1> QED
    BY <1>4, <1>5, <1>6, <1>7, <1>8 DEF LogSound

\* The log keeps what it says in every step of the ledger.
LEMMA LogStepSound ==
  ASSUME LedgerInv, LogSound, LedgerStep
  PROVE  LogSound'
  <1>1. CASE Reopens
    <2>1. log' = <<>> /\ Len(log') = 0 /\ DOMAIN log' = {}
      BY <1>1 DEF Reopens
    <2>2. \A r \in Runs : RowSound(r)'
      BY <1>1, <2>1 DEF Reopens, RowSound, NoFlags, Committed
    <2> QED
      BY <2>1, <2>2 DEF LogSound
  <1>2. CASE Closes
    BY <1>2 DEF Closes, LogSound, Readable
  <1>3. CASE Waits
    <2>1. UNCHANGED <<log, runs, disposition>>
      BY <1>3 DEF Waits
    <2>2. \A k : MessageSound(k) => MessageSound(k)'
      BY <2>1 DEF MessageSound
    <2>3. \A r : RowSound(r) => RowSound(r)'
      BY <2>1 DEF RowSound, Committed
    <2> QED
      BY <2>1, <2>2, <2>3 DEF LogSound, Readable
  <1> QED
    BY <1>1, <1>2, <1>3, MovesLog, AddsLog DEF LedgerStep, Seen

\* What is committed stays so while the generation is read.
LEMMA StaysCommitted ==
  ASSUME LedgerInv, LedgerStep, Readable', generation' = generation, NEW i, Committed(i)
  PROVE  Committed(i)'
  <1>1. CASE Moves
    BY <1>1 DEF Moves, Committed
  <1>2. CASE \E r \in Runs, n \in Nat : Adds(r, n)
    BY <1>2, CommittedAfter
  <1> QED
    BY <1>1, <1>2, Carries

\* ... and so is a settled cancellation.
LEMMA StaysSettled ==
  ASSUME LedgerInv, LedgerStep, Readable', generation' = generation,
         NEW r \in Runs, CancelSettled(r)
  PROVE  CancelSettled(r)'
  <1>1. CASE Moves
    BY <1>1 DEF Moves, Row
  <1>2. CASE \E s \in Runs, n \in Nat : Adds(s, n)
    BY <1>2 DEF Adds, OthersKept, CancelSettled
  <1> QED
    BY <1>1, <1>2, Carries

\* A producer that does nothing.
LEMMA ProducerRests ==
  ASSUME DeliveryInv, LedgerStep, NEW p \in Producers, producer'[p] = producer[p]
  PROVE  ProducerSound(p)' /\ Resumes(p)' /\ WonSound(p)'
  <1>0. /\ LedgerInv /\ ProducerSound(p) /\ Resumes(p) /\ WonSound(p)
        /\ generation \in Nat /\ producer[p] \in Producer
    BY RowTypes DEF DeliveryInv, DeliveryTypes
  <1>1. /\ LedgerInv' /\ generation' >= generation
        /\ Readable' /\ generation' = generation => Readable
    BY <1>0, Carries
  <1>2. generation' \in Nat /\ producer[p].generation \in Nat
    BY <1>0, <1>1 DEF LedgerInv, LedgerTypeOK, Producer
  <1>3. ProducerSound(p)'
    BY <1>0, <1>1, <1>2 DEF ProducerSound, Working
  <1>4. producer[p].generation = generation' => generation' = generation
    BY <1>0, <1>1, <1>2 DEF ProducerSound
  <1>5. Resumes(p)'
    BY <1>0, <1>1, <1>4, StaysCommitted DEF Resumes, Working
  <1>6. WonSound(p)'
    BY <1>0, <1>1, <1>4, StaysSettled DEF WonSound, ProducerSound
  <1> QED
    BY <1>3, <1>5, <1>6

\* What was read of the log is still there.
LEMMA SameReading ==
  ASSUME LedgerInv, LedgerStep, Readable', generation' = generation,
         NEW a \in Nat, NEW b \in Nat, b <= Len(log)
  PROVE  SubSeq(log', a + 1, b) = SubSeq(log, a + 1, b) /\ b <= Len(log')
  <1>1. log \in Seq(Message) /\ Len(log) \in Nat
    BY RowTypes
  <1>2. CASE Moves
    BY <1>1, <1>2 DEF Moves
  <1>3. ASSUME NEW r \in Runs, NEW n \in Nat, Adds(r, n)
        PROVE  SubSeq(log', a + 1, b) = SubSeq(log, a + 1, b) /\ b <= Len(log')
    <2> DEFINE m == [run |-> r, id |-> <<r, n>>]
    <2>1. log' = Append(log, m)
      BY <1>3 DEF Adds
    <2> HIDE DEF m
    <2>2. Len(log') = Len(log) + 1
      BY <1>1, <2>1
    <2>3. SubSeq(Append(log, m), a + 1, b) = SubSeq(log, a + 1, b)
      BY <1>1
    <2> QED
      BY <1>1, <2>1, <2>2, <2>3
  <1> QED
    BY <1>2, <1>3, Carries

\* A run that is followed goes on or has ended for good.
LEMMA FollowedRun ==
  ASSUME LedgerInv, LedgerStep, Readable', generation' = generation, NEW r \in Runs
  PROVE  /\ Exists(r) => Exists(r)'
         /\ runs[r].status \in Final => runs'[r] = runs[r]
         /\ runs[r].status \notin Final /\ runs'[r].status \in Final =>
              runs'[r].end_sequence = Len(log)
  <1>1. CASE Moves
    BY <1>1 DEF Moves, Row
  <1>2. CASE \E s \in Runs, n \in Nat : Adds(s, n)
    <2> PICK s \in Runs, n \in Nat : Adds(s, n)
      BY <1>2
    <2>1. CASE r = s
      BY <2>1 DEF Adds, Exists, Live, Final
    <2>2. CASE r # s
      BY <2>2 DEF Adds, OthersKept, Exists
    <2> QED
      BY <2>1, <2>2
  <1> QED
    BY <1>1, <1>2, Carries

\* A follower that reads nothing.
LEMMA FollowerRests ==
  ASSUME DeliveryInv, LedgerStep, NEW f \in Followers,
         follower'[f].run = follower[f].run,
         follower'[f].generation = follower[f].generation,
         follower'[f].after = follower[f].after, follower'[f].got = follower[f].got,
         \/ follower'[f].pc = follower[f].pc
         \/ follower[f].pc # "idle" /\ follower'[f].pc # "ended"
  PROVE  FollowerSound(f)'
  <1>0. /\ LedgerInv /\ FollowerSound(f) /\ follower[f] \in Follower
        /\ generation \in Nat /\ Len(log) \in Nat
    BY RowTypes DEF DeliveryInv, DeliveryTypes
  <1>1. /\ LedgerInv' /\ generation' >= generation
        /\ Readable' /\ generation' = generation => Readable
    BY <1>0, Carries
  <1> DEFINE r == follower[f].run
             a == follower[f].after
             b == Cursor(f)
  <1>2. /\ generation' \in Nat /\ follower[f].generation \in Nat
        /\ a \in Nat /\ b \in Nat /\ Cursor(f)' = b
    BY <1>0, <1>1 DEF LedgerInv, LedgerTypeOK, Follower, Cursor
  <1>3. CASE follower[f].pc # "idle"
    <2>1. r \in Runs /\ follower[f].generation <= generation'
      BY <1>0, <1>1, <1>2, <1>3 DEF FollowerSound
    <2>2. ASSUME Readable', follower[f].generation = generation'
          PROVE  /\ Exists(r)'
                 /\ b <= Len(log')
                 /\ follower[f].got = SubSeq(log', a + 1, b)
                 /\ runs'[r].status \in Final /\ Len(follower[f].got) > 0 =>
                      b <= runs'[r].end_sequence
                 /\ follower[f].pc = "ended" =>
                      runs'[r].status \in Final /\ b >= runs'[r].end_sequence
      <3>1. generation' = generation /\ Readable /\ follower[f].generation = generation
        BY <1>0, <1>1, <1>2, <1>3, <2>2 DEF FollowerSound
      <3>2. /\ Exists(r) /\ b <= Len(log)
            /\ follower[f].got = SubSeq(log, a + 1, b)
            /\ runs[r].status \in Final /\ Len(follower[f].got) > 0 =>
                 b <= runs[r].end_sequence
            /\ follower[f].pc = "ended" =>
                 runs[r].status \in Final /\ b >= runs[r].end_sequence
        BY <1>0, <1>3, <3>1 DEF FollowerSound
      <3>3. /\ Exists(r) => Exists(r)'
            /\ runs[r].status \in Final => runs'[r] = runs[r]
            /\ runs[r].status \notin Final /\ runs'[r].status \in Final =>
                 runs'[r].end_sequence = Len(log)
        <4> HIDE DEF r
        <4>1. PICK q \in Runs : q = r
          BY <2>1
        <4>2. /\ Exists(q) => Exists(q)'
              /\ runs[q].status \in Final => runs'[q] = runs[q]
              /\ runs[q].status \notin Final /\ runs'[q].status \in Final =>
                   runs'[q].end_sequence = Len(log)
          BY <1>0, <2>2, <3>1, FollowedRun
        <4> QED
          BY <4>1, <4>2 DEF r, Exists
      <3>4. SubSeq(log', a + 1, b) = SubSeq(log, a + 1, b) /\ b <= Len(log')
        BY <1>0, <1>2, <2>2, <3>1, <3>2, SameReading
      <3> QED
        BY <3>2, <3>3, <3>4
    <2> QED
      BY <1>2, <2>1, <2>2 DEF FollowerSound, Exists
  <1> QED
    BY <1>3 DEF FollowerSound

-----------------------------------------------------------------------------
(***************************************************************************)
(* The steps of producers.                                                 *)
(***************************************************************************)

\* One producer acts; nobody else has entered the cancel callback it enters.
LEMMA ProducerActs ==
  ASSUME DeliveryInv, LedgerStep, NEW p \in Producers, NEW new \in Producer,
         producer' = [producer EXCEPT ![p] = new], follower' = follower,
         ProducerSound(p)', Resumes(p)', WonSound(p)',
         \/ new.settlement # "won"
         \/ /\ new.settlement = producer[p].settlement /\ new.run = producer[p].run
            /\ new.generation = producer[p].generation
         \/ \A q \in Producers : ~ /\ producer[q].settlement = "won"
                                   /\ producer[q].run = new.run
                                   /\ producer[q].generation = new.generation
  PROVE  LedgerStep /\ DeliveryInv'
  <1>0. LedgerInv /\ LogSound /\ DeliveryTypes /\ CancelCallbackOnce /\ Issued
    BY DEF DeliveryInv
  <1>1. LedgerInv' /\ LogSound' /\ Issued'
    BY <1>0, Carries, LogStepSound, IssuedStep
  <1>2. producer'[p] = new /\ \A q \in Producers \ {p} : producer'[q] = producer[q]
    BY <1>0 DEF DeliveryTypes
  <1>3. DeliveryTypes'
    BY <1>0 DEF DeliveryTypes
  <1>4. \A q \in Producers : ProducerSound(q)' /\ Resumes(q)' /\ WonSound(q)'
    BY <1>2, ProducerRests
  <1>5. \A f \in Followers : FollowerSound(f)'
    BY FollowerRests
  <1>6. CancelCallbackOnce'
    <2> SUFFICES ASSUME NEW q \in Producers, NEW s \in Producers, q # s,
                        producer'[q].settlement = "won", producer'[s].settlement = "won",
                        producer'[q].run = producer'[s].run,
                        producer'[q].generation = producer'[s].generation
                 PROVE  FALSE
      BY DEF CancelCallbackOnce
    <2>1. ASSUME NEW u \in Producers, u # p,
                 producer[u].settlement = "won", new.settlement = "won",
                 producer[u].run = new.run, producer[u].generation = new.generation
          PROVE  FALSE
      BY <1>0, <2>1 DEF CancelCallbackOnce
    <2>2. CASE q = p
      BY <1>2, <2>1, <2>2
    <2>3. CASE s = p
      BY <1>2, <2>1, <2>3
    <2>4. CASE q # p /\ s # p
      BY <1>0, <1>2, <2>4 DEF CancelCallbackOnce
    <2> QED
      BY <2>2, <2>3, <2>4
  <1> QED
    BY <1>1, <1>3, <1>4, <1>5, <1>6 DEF DeliveryInv

\* A producer goes on with its reference, past an item only when that is
\* committed, or is over.
LEMMA ReferenceKept ==
  ASSUME DeliveryInv, LedgerStep, NEW p \in Producers, NEW new \in Producer,
         producer' = [producer EXCEPT ![p] = new],
         NEW r, NEW n, r = producer[p].run, n = producer[p].next,
         new.run = r, new.generation = producer[p].generation,
         new.settlement = producer[p].settlement \/ r \in Runs,
         \/ new.pc = "done"
         \/ /\ Working(p) /\ new.pc \notin {"idle", "preflight", "done"}
            /\ new.fence = producer[p].fence
            /\ \/ new.next = n
               \/ new.next = n + 1 /\ Committed(<<r, n>>)'
  PROVE  producer'[p] = new /\ ProducerSound(p)' /\ Resumes(p)'
  <1>0. /\ LedgerInv /\ ProducerSound(p) /\ Resumes(p)
        /\ generation \in Nat /\ producer[p] \in Producer
    BY RowTypes DEF DeliveryInv, DeliveryTypes
  <1>1. /\ LedgerInv' /\ generation' >= generation
        /\ Readable' /\ generation' = generation => Readable
    BY <1>0, Carries
  <1>2. producer'[p] = new
    BY DEF DeliveryInv, DeliveryTypes
  <1>3. generation' \in Nat /\ producer[p].generation \in Nat /\ producer[p].next \in Nat
    BY <1>0, <1>1 DEF LedgerInv, LedgerTypeOK, Producer
  <1>4. ProducerSound(p)'
    BY <1>0, <1>1, <1>2, <1>3 DEF ProducerSound, Working
  <1>5. producer[p].generation = generation' => generation' = generation
    BY <1>0, <1>1, <1>3 DEF ProducerSound
  <1>6. Resumes(p)'
    <2> SUFFICES ASSUME new.pc # "done", Readable', new.generation = generation'
                 PROVE  new.next = 1 \/ Committed(<<new.run, new.next - 1>>)'
      BY <1>2 DEF Resumes, Working
    <2>1. Readable /\ generation' = generation
      BY <1>1, <1>5
    <2>2. CASE new.next = n
      <3>1. new.next = 1 \/ Committed(<<new.run, new.next - 1>>)
        BY <1>0, <2>1, <2>2 DEF Resumes
      <3> QED
        BY <1>0, <2>1, <3>1, StaysCommitted
    <2>3. CASE new.next = n + 1 /\ Committed(<<r, n>>)'
      <3>1. new.next - 1 = n
        BY <1>3, <2>3
      <3> QED
        BY <2>3, <3>1
    <2> QED
      BY <2>1, <2>2, <2>3
  <1> QED
    BY <1>2, <1>4, <1>6

\* ... without a change of what it knows of its settlement.
LEMMA ProducerGoesOn ==
  ASSUME DeliveryInv, LedgerStep, NEW p \in Producers, NEW new \in Producer,
         producer' = [producer EXCEPT ![p] = new], follower' = follower,
         NEW r, NEW n, r = producer[p].run, n = producer[p].next,
         new.run = r, new.generation = producer[p].generation,
         new.settlement = producer[p].settlement,
         \/ new.pc = "done"
         \/ /\ Working(p) /\ new.pc \notin {"idle", "preflight", "done"}
            /\ new.fence = producer[p].fence
            /\ \/ new.next = n
               \/ new.next = n + 1 /\ Committed(<<r, n>>)'
  PROVE  LedgerStep /\ DeliveryInv'
  <1>0. /\ LedgerInv /\ ProducerSound(p) /\ WonSound(p)
        /\ generation \in Nat /\ producer[p] \in Producer
    BY RowTypes DEF DeliveryInv, DeliveryTypes
  <1>1. /\ LedgerInv' /\ generation' >= generation
        /\ Readable' /\ generation' = generation => Readable
    BY <1>0, Carries
  <1>2. producer'[p] = new /\ ProducerSound(p)' /\ Resumes(p)'
    BY ReferenceKept
  <1>3. generation' \in Nat /\ producer[p].generation \in Nat
    BY <1>0, <1>1 DEF LedgerInv, LedgerTypeOK, Producer
  <1>4. producer[p].generation = generation' => generation' = generation
    BY <1>0, <1>1, <1>3 DEF ProducerSound
  <1>5. WonSound(p)'
    <2> SUFFICES ASSUME new.settlement = "won", Readable', new.generation = generation'
                 PROVE  CancelSettled(new.run)'
      BY <1>2 DEF WonSound
    <2>1. PICK s \in Runs : s = new.run
      BY <1>0 DEF ProducerSound
    <2>2. CancelSettled(s) /\ generation' = generation
      BY <1>0, <1>1, <1>4, <2>1 DEF WonSound
    <2>3. CancelSettled(s)'
      BY <1>0, <2>2, StaysSettled
    <2> QED
      BY <2>1, <2>3
  <1> QED
    BY <1>2, <1>5, ProducerActs

\* A producer's task is over.
LEMMA EndsSafe ==
  ASSUME DeliveryInv, LedgerStep, NEW p \in Producers, Ends(p), follower' = follower
  PROVE  LedgerStep /\ DeliveryInv'
  <1>0. producer[p] \in Producer /\ producer \in [Producers -> Producer]
    BY DEF DeliveryInv, DeliveryTypes
  <1>1. PICK new : new = [producer[p] EXCEPT !.pc = "done", !.fence = 0, !.next = 1,
                                             !.status = "completed"]
    OBVIOUS
  <1>2. /\ new \in Producer /\ new.pc = "done" /\ new.run = producer[p].run
        /\ new.generation = producer[p].generation
        /\ new.settlement = producer[p].settlement
    BY <1>0, <1>1 DEF Producer
  <1>3. producer' = [producer EXCEPT ![p] = new]
    BY <1>0, <1>1 DEF Ends, Producer
  <1> QED
    BY <1>2, <1>3, ProducerGoesOn

\* A producer takes a new reference and starts at an item whose predecessor is
\* committed.
LEMMA HandleSafe ==
  ASSUME DeliveryInv, LedgerStep, NEW p \in Producers, NEW r \in Runs, At(p, "idle"),
         NEW first \in Nat \ {0}, NEW handle, handle = Handle(p, r, first),
         producer' = [producer EXCEPT ![p] = handle], follower' = follower,
         generation' \in 1..MaxGeneration, runs'[r].fence \in 1..MaxFence,
         first = 1 \/ Committed(<<r, first - 1>>)'
  PROVE  LedgerStep /\ DeliveryInv'
  <1>0. producer[p] \in Producer /\ ProducerSound(p)
    BY DEF DeliveryInv, DeliveryTypes
  <1>1. PICK new : new = handle
    OBVIOUS
  <1>2. generation' \in Nat /\ runs'[r].fence \in Nat
    BY LedgerAssumption
  <1>3. /\ new \in Producer /\ new.pc = "preflight" /\ new.run = r
        /\ new.generation = generation' /\ new.fence = runs'[r].fence /\ new.next = first
        /\ new.settlement = producer[p].settlement
    BY <1>0, <1>1, <1>2 DEF Handle, Producer
  <1>4. producer' = [producer EXCEPT ![p] = new] /\ producer'[p] = new
    BY <1>1 DEF DeliveryInv, DeliveryTypes
  <1>5. new.settlement = "unclaimed"
    BY <1>0, <1>3 DEF ProducerSound, At
  <1>6. ProducerSound(p)'
    BY <1>2, <1>3, <1>4, <1>5 DEF ProducerSound, Working
  <1>7. Resumes(p)' /\ WonSound(p)'
    BY <1>3, <1>4, <1>5 DEF Resumes, WonSound
  <1> QED
    BY <1>3, <1>4, <1>5, <1>6, <1>7, ProducerActs

\* wrap() and wrap_recoverable().
LEMMA PrepareSafe ==
  ASSUME DeliveryInv, NEW p \in Producers, NEW r \in Runs, Prepare(p, r)
  PROVE  LedgerStep /\ DeliveryInv'
  <1>0. /\ LedgerInv /\ LogSound /\ Issued /\ At(p, "idle") /\ follower' = follower
        /\ runs \in [Runs -> RunRecord] /\ next_fence \in Nat \ {0}
        /\ generation \in Nat /\ Len(log) \in Nat
    BY RowTypes DEF DeliveryInv, Prepare, LedgerTypeOK
  <1>1. CASE PrepareInNewGeneration(r) /\ producer' = [producer EXCEPT ![p] = Handle(p, r, 1)]
    <2>1. LedgerStep
      BY <1>0, <1>1, GenerationReopens DEF LedgerStep, Seen, LedgerNext, ByAnyone
    <2>2. generation' \in 1..MaxGeneration
      BY <1>0, <1>1, LedgerAssumption DEF PrepareInNewGeneration
    <2>3. runs'[r].fence \in 1..MaxFence
      <3>1. runs'[r] = CreatedRun(0, 1)
        BY <1>1 DEF PrepareInNewGeneration
      <3>2. runs'[r].fence = 1
        BY <3>1, CreatedFields
      <3> QED
        BY <3>2, DeliveryAssumption, LedgerAssumption
    <2>4. PICK handle : handle = Handle(p, r, 1)
      OBVIOUS
    <2>5. producer' = [producer EXCEPT ![p] = handle] /\ 1 \in Nat \ {0}
      BY <1>1, <2>4
    <2> QED
      BY <1>0, <2>1, <2>2, <2>3, <2>4, <2>5, HandleSafe
  <1>2. CASE PrepareNewRun(r) /\ producer' = [producer EXCEPT ![p] = Handle(p, r, 1)]
    <2>1. LedgerStep
      BY <1>0, <1>2, NewRunMoves DEF LedgerStep, Seen, LedgerNext, ByAnyone
    <2>2. generation' \in 1..MaxGeneration
      BY <1>0, <1>2 DEF PrepareNewRun, Issued, Readable
    <2>3. runs'[r].fence \in 1..MaxFence
      <3>1. runs'[r] = CreatedRun(Len(log), next_fence) /\ next_fence < MaxFence
        BY <1>2 DEF PrepareNewRun, latest
      <3>2. runs'[r].fence = next_fence
        BY <1>0, <3>1, CreatedFields
      <3> QED
        BY <1>0, <3>1, <3>2, LedgerAssumption
    <2>4. PICK handle : handle = Handle(p, r, 1)
      OBVIOUS
    <2>5. producer' = [producer EXCEPT ![p] = handle] /\ 1 \in Nat \ {0}
      BY <1>2, <2>4
    <2> QED
      BY <1>0, <2>1, <2>2, <2>3, <2>4, <2>5, HandleSafe
  <1>3. CASE /\ PrepareRecovers(r)
             /\ producer' = [producer EXCEPT ![p] = Handle(p, r, CheckpointOrdinal(r) + 1)]
    <2>1. LedgerStep /\ log' = log /\ Readable
      BY <1>0, <1>3, RecoverMoves
         DEF LedgerStep, Seen, LedgerNext, ByAnyone, PrepareRecovers, LapsedRun, Readable
    <2>2. generation' \in 1..MaxGeneration
      BY <1>0, <1>3, <2>1 DEF PrepareRecovers, Issued
    <2>3. runs'[r].fence \in 1..MaxFence
      <3>1. runs'[r].fence = next_fence /\ next_fence < MaxFence
        BY <1>0, <1>3 DEF PrepareRecovers, RunRecord
      <3> QED
        BY <1>0, <3>1, LedgerAssumption
    <2>4. PICK n \in Nat : n = CheckpointOrdinal(r) /\ (n = 0 \/ Committed(<<r, n>>))
      <3>1. RowSound(r)
        BY <1>0, <2>1 DEF LogSound
      <3>2. CASE runs[r].checkpoint = <<>>
        BY <3>2 DEF CheckpointOrdinal
      <3>3. ASSUME NEW k \in 1 .. Len(log), runs[r].checkpoint = <<<<r, k>>>>,
                   Committed(<<r, k>>)
            PROVE  \E n \in Nat : n = CheckpointOrdinal(r) /\ (n = 0 \/ Committed(<<r, n>>))
        <4>1. CheckpointOrdinal(r) = k /\ k \in Nat
          BY <1>0, <3>3 DEF CheckpointOrdinal
        <4> QED
          BY <3>3, <4>1
      <3> QED
        BY <3>1, <3>2, <3>3 DEF RowSound
    <2>5. n + 1 = 1 \/ Committed(<<r, (n + 1) - 1>>)'
      <3>1. (n + 1) - 1 = n
        OBVIOUS
      <3>2. n = 0 \/ Committed(<<r, n>>)'
        BY <2>1, <2>4 DEF Committed
      <3> QED
        BY <3>1, <3>2
    <2>6. PICK first \in Nat \ {0} : first = n + 1
      OBVIOUS
    <2>7. first = 1 \/ Committed(<<r, first - 1>>)'
      BY <2>5, <2>6
    <2>8. PICK handle : handle = Handle(p, r, first)
      OBVIOUS
    <2>9. producer' = [producer EXCEPT ![p] = handle]
      BY <1>3, <2>4, <2>6, <2>8
    <2> QED
      BY <1>0, <2>1, <2>2, <2>3, <2>7, <2>8, <2>9, HandleSafe
  <1>4. CASE (PrepareSettlesLostRun(r) \/ UNCHANGED ledgerVars) /\ Ends(p)
    <2>1. LedgerStep
      BY <1>0, <1>4, LoseMoves, StillSeen
         DEF LedgerStep, Seen, LedgerNext, ByAnyone, PrepareSettlesLostRun
    <2> QED
      BY <1>0, <1>4, <2>1, EndsSafe
  <1> QED
    BY <1>1, <1>2, <1>3, <1>4 DEF Prepare

\* claim_settlement: whoever wins the callback settles a cancellation that
\* nobody was settling.
LEMMA ClaimSafe ==
  ASSUME DeliveryInv, NEW p \in Producers, Working(p), NEW pc \in {"producing", "finishing"},
         ClaimSettlement(p, pc), follower' = follower
  PROVE  LedgerStep /\ DeliveryInv'
  <1>0. /\ LedgerInv /\ producer[p] \in Producer /\ producer \in [Producers -> Producer]
        /\ ProducerSound(p) /\ runs \in [Runs -> RunRecord]
    BY RowTypes DEF DeliveryInv, DeliveryTypes, LedgerTypeOK
  <1>1. PICK r \in Runs : r = producer[p].run
    BY <1>0 DEF ProducerSound
  <1>2. CASE BeginSettlement(r, producer[p].generation, producer[p].fence)
             /\ producer' = [producer EXCEPT
                  ![p].pc = IF @ = "settling" /\ runs[r].status = "cancel_requested"
                              THEN "tail" ELSE pc,
                  ![p].settlement = IF runs[r].status = "cancel_requested" THEN "won" ELSE "plain",
                  ![p].status = IF /\ runs[r].status = "cancel_requested"
                                   /\ @ \in {"completed", "shutdown"}
                                  THEN "cancelled" ELSE @]
    <2>1. LedgerStep
      BY <1>0, <1>1, <1>2, RowMoves DEF LedgerStep, Seen, LedgerNext, ByOwner, ProducerSound
    <2>2. PICK to \in {"tail", "producing", "finishing"} :
            to = IF producer[p].pc = "settling" /\ runs[r].status = "cancel_requested"
                   THEN "tail" ELSE pc
      OBVIOUS
    <2>3. PICK claim \in {"won", "plain"} :
            claim = IF runs[r].status = "cancel_requested" THEN "won" ELSE "plain"
      OBVIOUS
    <2>4. PICK st \in {"completed", "cancelled", "failed", "shutdown"} :
            st = IF /\ runs[r].status = "cancel_requested"
                    /\ producer[p].status \in {"completed", "shutdown"}
                   THEN "cancelled" ELSE producer[p].status
      BY <1>0 DEF Producer
    <2>5. PICK new : new = [producer[p] EXCEPT !.pc = to, !.settlement = claim, !.status = st]
      OBVIOUS
    <2>6. /\ new \in Producer /\ new.pc = to /\ new.run = r /\ new.next = producer[p].next
          /\ new.generation = producer[p].generation /\ new.fence = producer[p].fence
          /\ new.settlement = claim
      BY <1>0, <1>1, <2>5 DEF Producer
    <2>7. producer' = [producer EXCEPT ![p] = new]
      BY <1>0, <1>2, <2>2, <2>3, <2>4, <2>5 DEF Producer
    <2>8. producer'[p] = new /\ ProducerSound(p)' /\ Resumes(p)'
      BY <1>1, <2>1, <2>6, <2>7, ReferenceKept
    <2>9. /\ runs'[r].settlement_started /\ runs'[r].status = runs[r].status
          /\ ~runs[r].settlement_started
          /\ Readable /\ producer[p].generation = generation
      BY <1>0, <1>2 DEF BeginSettlement, Owns, RunRecord, Readable
    <2>10. WonSound(p)'
      BY <2>3, <2>6, <2>8, <2>9 DEF WonSound, CancelSettled
    <2>11. ASSUME NEW q \in Producers, producer[q].settlement = "won",
                  producer[q].run = new.run, producer[q].generation = new.generation
           PROVE  FALSE
      BY <2>6, <2>9, <2>11 DEF DeliveryInv, WonSound, CancelSettled
    <2> QED
      BY <2>1, <2>6, <2>7, <2>8, <2>10, <2>11, ProducerActs
  <1>3. CASE UNCHANGED ledgerVars
             /\ producer' = [producer EXCEPT ![p].pc = pc, ![p].settlement = "failed",
                                             ![p].status = "failed"]
    <2>1. LedgerStep
      BY <1>3, StillSeen
    <2>2. PICK new : new = [producer[p] EXCEPT !.pc = pc, !.settlement = "failed",
                                               !.status = "failed"]
      OBVIOUS
    <2>3. /\ new \in Producer /\ new.pc = pc /\ new.run = r /\ new.next = producer[p].next
          /\ new.generation = producer[p].generation /\ new.fence = producer[p].fence
          /\ new.settlement = "failed"
      BY <1>0, <1>1, <2>2 DEF Producer
    <2>4. producer' = [producer EXCEPT ![p] = new]
      BY <1>0, <1>3, <2>2 DEF Producer
    <2>5. producer'[p] = new /\ ProducerSound(p)' /\ Resumes(p)'
      BY <1>1, <2>1, <2>3, <2>4, ReferenceKept
    <2>6. WonSound(p)'
      BY <2>3, <2>5 DEF WonSound
    <2> QED
      BY <2>1, <2>3, <2>4, <2>5, <2>6, ProducerActs
  <1> QED
    BY <1>1, <1>2, <1>3 DEF ClaimSettlement

\* A step that leaves the ledger, the reference and the settlement alone.
LEMMA TurnSafe ==
  ASSUME DeliveryInv, NEW p \in Producers, Working(p), UNCHANGED ledgerVars,
         NEW pc \in {"producing", "settling", "tail", "finishing"},
         NEW status \in {"completed", "cancelled", "failed", "shutdown"},
         producer' = [producer EXCEPT ![p] = [producer[p] EXCEPT !.pc = pc, !.status = status]],
         follower' = follower
  PROVE  LedgerStep /\ DeliveryInv'
  <1>0. producer[p] \in Producer /\ producer \in [Producers -> Producer]
    BY DEF DeliveryInv, DeliveryTypes
  <1>1. PICK new : new = [producer[p] EXCEPT !.pc = pc, !.status = status]
    OBVIOUS
  <1>2. /\ new \in Producer /\ new.pc = pc /\ new.run = producer[p].run
        /\ new.next = producer[p].next /\ new.fence = producer[p].fence
        /\ new.generation = producer[p].generation
        /\ new.settlement = producer[p].settlement
    BY <1>0, <1>1 DEF Producer
  <1>3. producer' = [producer EXCEPT ![p] = new]
    BY <1>1
  <1> QED
    BY <1>2, <1>3, StillSeen, ProducerGoesOn

\* The committer moves past an item that is, or is now, committed.
LEMMA AppendNextSafe ==
  ASSUME DeliveryInv, NEW p \in Producers, producer[p].pc \in {"producing", "tail"},
         AppendNext(p), follower' = follower
  PROVE  LedgerStep /\ DeliveryInv'
  <1>0. /\ producer[p] \in Producer /\ producer \in [Producers -> Producer]
        /\ Working(p) /\ ProducerSound(p) /\ LedgerInv
    BY DEF DeliveryInv, DeliveryTypes, Working
  <1>1. PICK r \in Runs, n \in Nat : r = producer[p].run /\ n = producer[p].next
    BY <1>0 DEF ProducerSound, Producer
  <1>2. LedgerStep /\ Committed(<<r, n>>)'
    <2>1. CASE Committed(<<r, n>>) /\ UNCHANGED ledgerVars
      BY <2>1, StillSeen DEF ledgerVars, Committed
    <2>2. CASE AppendMessage(r, producer[p].generation, producer[p].fence, <<r, n>>,
                             n = 1, n = Items[r], Checkpoint(p))
      <3>1. LedgerStep /\ Adds(r, n)
        BY <1>0, <1>1, <2>2, AppendAdds
      <3>2. Committed(<<r, n>>)'
        BY <1>0, <3>1, CommittedAfter
      <3> QED
        BY <3>1, <3>2
    <2> QED
      BY <1>1, <2>1, <2>2 DEF AppendNext
  <1>3. PICK new : new = [producer[p] EXCEPT !.next = n + 1]
    OBVIOUS
  <1>4. /\ new \in Producer /\ new.pc = producer[p].pc /\ new.run = r
        /\ new.next = n + 1 /\ new.fence = producer[p].fence
        /\ new.generation = producer[p].generation
        /\ new.settlement = producer[p].settlement
    BY <1>0, <1>1, <1>3 DEF Producer
  <1>5. producer' = [producer EXCEPT ![p] = new]
    BY <1>0, <1>1, <1>3 DEF AppendNext, Producer
  <1> QED
    BY <1>0, <1>1, <1>2, <1>4, <1>5, ProducerGoesOn

\* The status that a producer reports is one a run can end with.
LEMMA ReportedFinal ==
  ASSUME DeliveryInv, NEW p \in Producers
  PROVE  Reported(p) \in Final
  BY DEF DeliveryInv, DeliveryTypes, Producer, Reported, Final

\* finish_run by its owner, or by one that lost the run, and a crash.
LEMMA OverSafe ==
  ASSUME DeliveryInv, NEW p \in Producers, Finish(p) \/ Crash(p)
  PROVE  LedgerStep /\ DeliveryInv'
  <1>0. LedgerInv /\ ProducerSound(p) /\ Ends(p) /\ follower' = follower /\ Working(p)
    BY DEF DeliveryInv, Finish, Crash, Working, At
  <1>1. CASE UNCHANGED ledgerVars
    BY <1>0, <1>1, StillSeen, EndsSafe
  <1>2. CASE FinishRun(producer[p].run, producer[p].generation, producer[p].fence, Reported(p))
    <2>1. PICK r \in Runs, o \in Final : r = producer[p].run /\ o = Reported(p)
      BY <1>0, ReportedFinal DEF ProducerSound
    <2>2. FinishRun(r, producer[p].generation, producer[p].fence, o)
      BY <1>2, <2>1
    <2>3. Moves
      BY <1>0, <2>2, FinishMoves
    <2>4. LedgerNext
      BY <1>0, <2>1, <2>2 DEF LedgerNext, ByOwner, ProducerSound
    <2>5. LedgerStep
      BY <2>3, <2>4 DEF LedgerStep, Seen
    <2> QED
      BY <1>0, <2>5, EndsSafe
  <1> QED
    BY <1>1, <1>2 DEF Finish, Crash

\* The steps that only move a producer on.
LEMMA MoveOnSafe ==
  ASSUME DeliveryInv, NEW p \in Producers,
         \/ SourceReady(p) \/ PreflightFails(p) \/ SourceEnds(p) \/ SourceFails(p)
         \/ ShutDown(p) \/ RenewalRejected(p)
  PROVE  LedgerStep /\ DeliveryInv'
  <1>0. producer[p] \in Producer /\ producer \in [Producers -> Producer]
    BY DEF DeliveryInv, DeliveryTypes
  <1>1. UNCHANGED ledgerVars /\ follower' = follower /\ Working(p)
    BY DEF SourceReady, PreflightFails, SourceEnds, SourceFails, ShutDown, RenewalRejected,
           StopsProducing, Working, At
  <1> SUFFICES \E pc \in {"producing", "settling", "tail", "finishing"},
                  status \in {"completed", "cancelled", "failed", "shutdown"} :
                 producer' = [producer EXCEPT
                   ![p] = [producer[p] EXCEPT !.pc = pc, !.status = status]]
    BY <1>1, TurnSafe
  <1>2. CASE SourceReady(p)
    <2>1. PICK status \in {"completed", "cancelled", "failed", "shutdown"} :
            status = producer[p].status
      BY <1>0 DEF Producer
    <2>2. [producer EXCEPT ![p].pc = "producing"]
          = [producer EXCEPT ![p] = [producer[p] EXCEPT !.pc = "producing", !.status = status]]
      BY <1>0, <2>1 DEF Producer
    <2> QED
      BY <1>2, <2>2 DEF SourceReady, Goto
  <1>3. CASE PreflightFails(p)
    BY <1>0, <1>3 DEF PreflightFails, Producer
  <1>4. ASSUME NEW status \in {"completed", "cancelled", "failed", "shutdown"},
               StopsProducing(p, status)
        PROVE  producer' = [producer EXCEPT
                 ![p] = [producer[p] EXCEPT !.pc = "settling", !.status = status]]
    BY <1>0, <1>4 DEF StopsProducing, Producer
  <1>5. CASE SourceEnds(p)
    <2>1. PICK status \in {"completed", "cancelled", "failed", "shutdown"} :
            status = IF producer[p].settlement = "won" THEN "cancelled" ELSE "completed"
      OBVIOUS
    <2>2. StopsProducing(p, status)
      BY <1>5, <2>1 DEF SourceEnds
    <2> QED
      BY <1>4, <2>2
  <1>6. CASE SourceFails(p) \/ ShutDown(p)
    BY <1>4, <1>6 DEF SourceFails, ShutDown
  <1>7. CASE RenewalRejected(p)
    <2>1. PICK pc \in {"settling", "finishing"} :
            pc = IF producer[p].pc = "preflight" THEN "finishing" ELSE "settling"
      OBVIOUS
    <2>2. producer' = [producer EXCEPT ![p].pc = pc, ![p].status = "failed"]
      BY <1>0, <1>7, <2>1 DEF RenewalRejected, Producer
    <2>3. producer' = [producer EXCEPT
                        ![p] = [producer[p] EXCEPT !.pc = pc, !.status = "failed"]]
      BY <1>0, <2>2 DEF Producer
    <2> QED
      BY <2>3
  <1> QED
    BY <1>2, <1>3, <1>5, <1>6, <1>7

\* The settlement and the cancellation tail.
LEMMA SettleSafe ==
  ASSUME DeliveryInv, NEW p \in Producers,
         WatcherClaims(p) \/ Settle(p) \/ CommitTail(p) \/ CommitItem(p)
  PROVE  LedgerStep /\ DeliveryInv'
  <1>0. /\ producer[p] \in Producer /\ producer \in [Producers -> Producer]
        /\ follower' = follower /\ Working(p)
    BY DEF DeliveryInv, DeliveryTypes, WatcherClaims, Settle, CommitTail, CommitItem,
           Working, At
  <1>1. CASE WatcherClaims(p) \/ (Settle(p) /\ producer[p].settlement = "unclaimed")
    BY <1>0, <1>1, ClaimSafe DEF WatcherClaims, Settle
  <1>2. CASE AppendNext(p) /\ producer[p].pc \in {"producing", "tail"}
    BY <1>0, <1>2, AppendNextSafe
  <1>3. CASE /\ UNCHANGED ledgerVars
             /\ producer' = [producer EXCEPT
                  ![p].pc = IF producer[p].settlement = "won" THEN "tail" ELSE "finishing",
                  ![p].status = IF producer[p].settlement = "failed" THEN "failed" ELSE @]
    <2>1. PICK pc \in {"tail", "finishing"} :
            pc = IF producer[p].settlement = "won" THEN "tail" ELSE "finishing"
      OBVIOUS
    <2>2. PICK status \in {"completed", "cancelled", "failed", "shutdown"} :
            status = IF producer[p].settlement = "failed" THEN "failed" ELSE producer[p].status
      BY <1>0 DEF Producer
    <2>3. producer' = [producer EXCEPT ![p] = [producer[p] EXCEPT !.pc = pc, !.status = status]]
      BY <1>0, <1>3, <2>1, <2>2 DEF Producer
    <2> QED
      BY <1>0, <1>3, <2>3, TurnSafe
  <1>4. CASE /\ UNCHANGED ledgerVars
             /\ producer' = [producer EXCEPT
                  ![p].pc = "finishing",
                  ![p].status = IF AppendRefused(p) THEN "failed" ELSE @]
    <2>1. PICK status \in {"completed", "cancelled", "failed", "shutdown"} :
            status = IF AppendRefused(p) THEN "failed" ELSE producer[p].status
      BY <1>0 DEF Producer
    <2>2. producer' = [producer EXCEPT
                        ![p] = [producer[p] EXCEPT !.pc = "finishing", !.status = status]]
      BY <1>0, <1>4, <2>1 DEF Producer
    <2> QED
      BY <1>0, <1>4, <2>2, TurnSafe
  <1> QED
    BY <1>1, <1>2, <1>3, <1>4 DEF WatcherClaims, Settle, CommitTail, CommitItem, At

-----------------------------------------------------------------------------
(***************************************************************************)
(* The steps of followers.                                                 *)
(***************************************************************************)

\* One follower acts.
LEMMA FollowerActs ==
  ASSUME DeliveryInv, LedgerStep, NEW f \in Followers, NEW new \in Follower,
         follower' = [follower EXCEPT ![f] = new], producer' = producer,
         FollowerSound(f)'
  PROVE  LedgerStep /\ DeliveryInv'
  <1>0. LedgerInv /\ LogSound /\ DeliveryTypes /\ CancelCallbackOnce /\ Issued
    BY DEF DeliveryInv
  <1>1. LedgerInv' /\ LogSound' /\ Issued'
    BY <1>0, Carries, LogStepSound, IssuedStep
  <1>2. DeliveryTypes' /\ \A g \in Followers \ {f} : follower'[g] = follower[g]
    BY <1>0 DEF DeliveryTypes
  <1>3. \A p \in Producers : ProducerSound(p)' /\ Resumes(p)' /\ WonSound(p)'
    BY ProducerRests
  <1>4. \A g \in Followers : FollowerSound(g)'
    BY <1>2, FollowerRests
  <1>5. CancelCallbackOnce'
    BY <1>0 DEF CancelCallbackOnce
  <1> QED
    BY <1>1, <1>2, <1>3, <1>4, <1>5 DEF DeliveryInv

\* A follower turns to its next step without reading.
LEMMA FollowerTurns ==
  ASSUME DeliveryInv, LedgerStep, NEW f \in Followers, follower[f].pc # "idle",
         NEW pc \in {"reading", "gone"}, NEW seen \in Nat \X Nat,
         follower' = [follower EXCEPT ![f] = [follower[f] EXCEPT !.pc = pc, !.seen = seen]],
         producer' = producer
  PROVE  LedgerStep /\ DeliveryInv'
  <1>0. follower[f] \in Follower /\ follower \in [Followers -> Follower]
    BY DEF DeliveryInv, DeliveryTypes
  <1>1. PICK new : new = [follower[f] EXCEPT !.pc = pc, !.seen = seen]
    OBVIOUS
  <1>2. /\ new \in Follower /\ new.pc = pc /\ new.run = follower[f].run
        /\ new.generation = follower[f].generation /\ new.after = follower[f].after
        /\ new.got = follower[f].got
    BY <1>0, <1>1 DEF Follower
  <1>3. follower' = [follower EXCEPT ![f] = new] /\ follower'[f] = new
    BY <1>0, <1>1
  <1>4. FollowerSound(f)'
    BY <1>2, <1>3, FollowerRests
  <1> QED
    BY <1>2, <1>3, <1>4, FollowerActs

\* follow() binds to the generation that is read.
LEMMA BindSafe ==
  ASSUME DeliveryInv, NEW f \in Followers, NEW r \in Runs, NEW after \in Cursors,
         BindFollow(f, r, after)
  PROVE  LedgerStep /\ DeliveryInv'
  <1>0. /\ follower \in [Followers -> Follower] /\ LedgerInv
        /\ generation \in Nat /\ log \in Seq(Message) /\ Len(log) \in Nat /\ after \in Nat
    BY RowTypes, DeliveryAssumption DEF DeliveryInv, DeliveryTypes
  <1>1. LedgerStep /\ producer' = producer /\ generation' = generation /\ log' = log
        /\ runs' = runs
    BY StillSeen DEF BindFollow, ledgerVars
  <1>2. PICK new : new = [pc |-> "reading", run |-> r, generation |-> generation,
                          after |-> after, got |-> <<>>, seen |-> <<0, 0>>]
    OBVIOUS
  <1>3. new \in Follower
    BY <1>0, <1>2 DEF Follower
  <1>4. /\ new.pc = "reading" /\ new.run = r /\ new.generation = generation
        /\ new.after = after /\ new.got = <<>> /\ Len(new.got) = 0
    BY <1>2
  <1>5. follower' = [follower EXCEPT ![f] = new] /\ follower'[f] = new
    BY <1>0, <1>2 DEF BindFollow
  <1>6. Exists(r) /\ after <= Len(log)
    BY DEF BindFollow, latest
  <1>7. Cursor(f)' = after
    BY <1>0, <1>4, <1>5 DEF Cursor
  <1>8. SubSeq(log, after + 1, after) = <<>>
    BY <1>0
  <1>9. FollowerSound(f)'
    <2>1. /\ follower'[f].run = r /\ follower'[f].generation = generation'
          /\ follower'[f].pc = "reading" /\ follower'[f].after = after
          /\ follower'[f].got = <<>> /\ ~(Len(follower'[f].got) > 0)
      BY <1>1, <1>4, <1>5
    <2>2. Exists(follower[f].run)'
      BY <1>1, <1>6, <2>1 DEF Exists
    <2>3. follower'[f].got = SubSeq(log', after + 1, Cursor(f)') /\ Cursor(f)' <= Len(log')
      BY <1>1, <1>6, <1>7, <1>8, <2>1
    <2>4. generation' <= generation'
      BY <1>0, <1>1
    <2> QED
      BY <2>1, <2>2, <2>3, <2>4 DEF FollowerSound
  <1> QED
    BY <1>1, <1>3, <1>5, <1>9, FollowerActs

\* Reconciliation and the end of a wait.
LEMMA FollowerTurnsSafe ==
  ASSUME DeliveryInv, NEW f \in Followers,
         \/ FollowReconciles(f) \/ FollowWakes(f)
         \/ /\ follower[f].pc = "reading"
            /\ follower' = [follower EXCEPT ![f].pc = "gone"]
            /\ UNCHANGED <<ledgerVars, producer>>
  PROVE  LedgerStep /\ DeliveryInv'
  <1>0. /\ follower[f] \in Follower /\ follower \in [Followers -> Follower] /\ LedgerInv
        /\ FollowerSound(f)
    BY DEF DeliveryInv, DeliveryTypes
  <1>1. PICK seen \in Nat \X Nat : seen = follower[f].seen
    BY <1>0 DEF Follower
  <1>2. ASSUME NEW pc, follower' = [follower EXCEPT ![f].pc = pc]
        PROVE  follower' = [follower EXCEPT ![f] = [follower[f] EXCEPT !.pc = pc, !.seen = seen]]
    BY <1>0, <1>1, <1>2 DEF Follower
  <1>3. CASE FollowReconciles(f) /\ ReconcileOwnership(follower[f].run)
             /\ follower' = [follower EXCEPT ![f].pc = "reading"]
    <2>1. PICK r \in Runs : r = follower[f].run
      BY <1>0, <1>3 DEF FollowerSound, FollowReconciles
    <2>2. ReconcileOwnership(r)
      BY <1>3, <2>1
    <2>3. LedgerStep
      BY <1>0, <2>2, LoseMoves DEF LedgerStep, Seen, LedgerNext, ByAnyone, ReconcileOwnership
    <2>4. producer' = producer /\ follower[f].pc # "idle"
      BY <1>3 DEF FollowReconciles
    <2> QED
      BY <1>2, <1>3, <2>3, <2>4, FollowerTurns
  <1>4. CASE /\ UNCHANGED <<ledgerVars, producer>> /\ follower[f].pc # "idle"
             /\ \E pc \in {"reading", "gone"} : follower' = [follower EXCEPT ![f].pc = pc]
    BY <1>2, <1>4, StillSeen, FollowerTurns
  <1>5. CASE FollowWakes(f)
    <2>1. follower' = [follower EXCEPT
                        ![f] = [follower[f] EXCEPT !.pc = "reading", !.seen = <<0, 0>>]]
      BY <1>0, <1>5 DEF FollowWakes, Follower
    <2>2. <<0, 0>> \in Nat \X Nat /\ UNCHANGED <<ledgerVars, producer>> /\ follower[f].pc # "idle"
      BY <1>5 DEF FollowWakes
    <2> QED
      BY <2>1, <2>2, StillSeen, FollowerTurns
  <1> QED
    BY <1>3, <1>4, <1>5 DEF FollowReconciles

\* Two sequences one after the other.
LEMMA Joined ==
  ASSUME NEW s \in Seq(Message), NEW t \in Seq(Message)
  PROVE  s \o t \in Seq(Message) /\ Len(s \o t) = Len(s) + Len(t)
  OBVIOUS

\* A page continues what was read.
LEMMA PageContinues ==
  ASSUME NEW s \in Seq(Message), NEW a \in Nat, NEW c \in Nat, NEW t \in Nat,
         a <= c, c <= Len(s), t <= Len(s)
  PROVE  /\ SubSeq(s, c + 1, t) \in Seq(Message)
         /\ Len(SubSeq(s, c + 1, t)) = IF t > c THEN t - c ELSE 0
         /\ SubSeq(s, a + 1, c) \o SubSeq(s, c + 1, t)
              = SubSeq(s, a + 1, c + Len(SubSeq(s, c + 1, t)))
  <1>1. CASE t > c
    <2>1. SubSeq(s, c + 1, t) \in Seq(Message) /\ Len(SubSeq(s, c + 1, t)) = t - c
      BY <1>1
    <2>2. SubSeq(s, a + 1, c) \in Seq(Message) /\ Len(SubSeq(s, a + 1, c)) = c - a
      OBVIOUS
    <2>3. SubSeq(s, a + 1, c) \o SubSeq(s, c + 1, t) = SubSeq(s, a + 1, t)
      BY <1>1
    <2> QED
      BY <1>1, <2>1, <2>3
  <1>2. CASE ~(t > c)
    <2>1. SubSeq(s, c + 1, t) = <<>>
      BY <1>2
    <2>2. SubSeq(s, a + 1, c) \in Seq(Message)
      OBVIOUS
    <2>3. SubSeq(s, a + 1, c) \o <<>> = SubSeq(s, a + 1, c)
      BY <2>2
    <2> QED
      BY <1>2, <2>1, <2>3
  <1> QED
    BY <1>1, <1>2

\* What one read returns, and where it leaves the cursor.
LEMMA PageSafe ==
  ASSUME DeliveryInv, NEW f \in Followers, follower[f].pc = "reading",
         CanRead(follower[f].generation), FollowPage(f)
  PROVE  LedgerStep /\ DeliveryInv'
  <1>0. /\ follower[f] \in Follower /\ follower \in [Followers -> Follower] /\ LedgerInv
        /\ FollowerSound(f) /\ log \in Seq(Message) /\ Len(log) \in Nat
        /\ \A r \in Runs : runs[r] \in RunRecord
    BY RowTypes DEF DeliveryInv, DeliveryTypes
  <1>1. PICK r \in Runs : r = follower[f].run
    BY <1>0 DEF FollowerSound
  <1>2. PICK a \in Nat, got \in Seq(Message), c \in Nat :
          a = follower[f].after /\ got = follower[f].got /\ c = a + Len(got) /\ a <= c
    <2>1. follower[f].after \in Nat /\ follower[f].got \in Seq(Message)
      BY <1>0 DEF Follower
    <2>2. Len(follower[f].got) \in Nat
      BY <2>1
    <2>3. follower[f].after + Len(follower[f].got) \in Nat
          /\ follower[f].after <= follower[f].after + Len(follower[f].got)
      BY <2>1, <2>2
    <2> QED
      BY <2>1, <2>3
  <1>3. PICK e \in Nat : e = runs[r].end_sequence
    BY <1>0 DEF RunRecord
  <1>4. /\ Readable /\ generation = follower[f].generation /\ Cursor(f) = c
        /\ Exists(r) /\ c <= Len(log) /\ got = SubSeq(log, a + 1, c)
        /\ runs[r].status \in Final /\ Len(got) > 0 => c <= e
    BY <1>0, <1>1, <1>2, <1>3 DEF FollowerSound, CanRead, Cursor
  <1>5. PICK t \in Nat : /\ t = Smaller(Through(r), c + PageLimit)
                         /\ t <= Len(log)
                         /\ runs[r].status \in Final => t <= e
    <2>1. PICK u \in Nat : /\ u = Through(r) /\ u <= Len(log)
                           /\ runs[r].status \in Final => u <= e
      <3>1. Through(r) \in Nat /\ Through(r) <= Len(log)
        BY <1>0, <1>3 DEF Smaller, Through, latest
      <3>2. runs[r].status \in Final => Through(r) <= e
        BY <1>0, <1>3 DEF Smaller, Through, latest
      <3> QED
        BY <3>1, <3>2
    <2>2. PICK t \in Nat : t = Smaller(u, c + PageLimit) /\ t <= u
      BY DeliveryAssumption DEF Smaller
    <2>3. t <= Len(log) /\ (runs[r].status \in Final => t <= e)
      BY <1>0, <2>1, <2>2
    <2> QED
      BY <2>1, <2>2, <2>3
  <1>6. PICK page : page = SubSeq(log, c + 1, t)
    OBVIOUS
  <1>7. /\ page \in Seq(Message) /\ Len(page) \in Nat /\ Len(page) = IF t > c THEN t - c ELSE 0
        /\ got \o page = SubSeq(log, a + 1, c + Len(page))
    <2>1. /\ SubSeq(log, c + 1, t) \in Seq(Message)
          /\ Len(SubSeq(log, c + 1, t)) = IF t > c THEN t - c ELSE 0
          /\ SubSeq(log, a + 1, c) \o SubSeq(log, c + 1, t)
               = SubSeq(log, a + 1, c + Len(SubSeq(log, c + 1, t)))
      <3>1. log \in Seq(Message) /\ a <= c /\ c <= Len(log) /\ t <= Len(log)
        BY <1>0, <1>2, <1>4, <1>5
      <3>2. PICK s \in Seq(Message) : s = log
        BY <3>1
      <3>3. a <= c /\ c <= Len(s) /\ t <= Len(s)
        BY <3>1, <3>2
      <3>4. /\ SubSeq(s, c + 1, t) \in Seq(Message)
            /\ Len(SubSeq(s, c + 1, t)) = IF t > c THEN t - c ELSE 0
            /\ SubSeq(s, a + 1, c) \o SubSeq(s, c + 1, t)
                 = SubSeq(s, a + 1, c + Len(SubSeq(s, c + 1, t)))
        BY <3>3, PageContinues
      <3> QED
        BY <3>2, <3>4
    <2>2. Len(page) \in Nat
      BY <1>6, <2>1
    <2> QED
      BY <1>4, <1>6, <2>1, <2>2
  <1>8. PICK d \in Nat : d = c + Len(page)
    BY <1>7
  <1>9. PICK pc \in {"ended", "reconciling", "reading", "waiting"} : pc = AfterPage(r, d)
    BY DEF AfterPage
  <1>10. PICK seen \in Nat \X Nat :
           seen = IF pc = "waiting" THEN <<latest, control_sequence>> ELSE follower[f].seen
    BY <1>0 DEF LedgerInv, LedgerTypeOK, latest, Follower
  <1>11. PICK all \in Seq(Message) : all = got \o page /\ Len(all) = Len(got) + Len(page)
    <2>1. got \o page \in Seq(Message) /\ Len(got \o page) = Len(got) + Len(page)
      BY <1>7, Joined
    <2> QED
      BY <2>1
  <1>12. PICK new : new = [follower[f] EXCEPT !.pc = pc, !.got = all, !.seen = seen]
    OBVIOUS
  <1>13. /\ new \in Follower /\ new.pc = pc /\ new.run = r /\ new.after = a
         /\ new.generation = follower[f].generation /\ new.got = all
    BY <1>0, <1>1, <1>2, <1>12 DEF Follower
  <1>14. Page(f) = page
    BY <1>1, <1>4, <1>5, <1>6 DEF Page
  <1>15. follower' = [follower EXCEPT ![f].pc = pc, ![f].got = all, ![f].seen = seen]
    BY <1>0, <1>1, <1>2, <1>4, <1>8, <1>9, <1>10, <1>11, <1>14 DEF FollowPage, Follower
  <1>16. follower' = [follower EXCEPT ![f] = new] /\ follower'[f] = new
    BY <1>0, <1>12, <1>15 DEF Follower
  <1>17. LedgerStep /\ producer' = producer /\ UNCHANGED <<log, runs, generation>>
    BY StillSeen DEF FollowPage, ledgerVars
  <1>18. /\ d <= Len(log) /\ all = SubSeq(log, a + 1, d)
         /\ runs[r].status \in Final /\ Len(all) > 0 => d <= e
    <2>1. Len(got) \in Nat
      BY <1>2
    <2>2. d <= Len(log) /\ (runs[r].status \in Final /\ Len(all) > 0 => d <= e)
      BY <1>0, <1>4, <1>5, <1>7, <1>8, <1>11, <2>1
    <2> QED
      BY <1>7, <1>8, <1>11, <2>2
  <1>19. pc = "ended" => runs[r].status \in Final /\ d >= e
    BY <1>3, <1>9 DEF AfterPage
  <1>20. FollowerSound(f)'
    <2>1. Cursor(f)' = d
      <3>1. Len(got) \in Nat /\ Cursor(f)' = a + Len(all)
        BY <1>2, <1>13, <1>16 DEF Cursor
      <3>2. Len(page) \in Nat /\ Len(all) = Len(got) + Len(page)
        BY <1>7, <1>11
      <3>3. PICK m \in Nat, l \in Nat : m = Len(got) /\ l = Len(page)
        BY <3>1, <3>2
      <3>4. c = a + m /\ d = c + l /\ Cursor(f)' = a + (m + l)
        BY <1>2, <1>8, <3>1, <3>2, <3>3
      <3> QED
        BY <3>4
    <2>2. follower'[f].generation <= generation'
      BY <1>0, <1>4, <1>13, <1>16, <1>17 DEF Follower
    <2>3. Exists(follower[f].run)'
      BY <1>4, <1>13, <1>16, <1>17 DEF Exists
    <2> QED
      BY <1>3, <1>13, <1>16, <1>17, <1>18, <1>19, <2>1, <2>2, <2>3 DEF FollowerSound
  <1> QED
    BY <1>13, <1>16, <1>17, <1>20, FollowerActs

-----------------------------------------------------------------------------
(***************************************************************************)
(* The invariant and what it gives.                                        *)
(***************************************************************************)

\* Initially nothing is written and nobody works.
LEMMA DeliveryInit == Init => DeliveryInv
  <1> SUFFICES ASSUME Init PROVE DeliveryInv
    OBVIOUS
  <1>1. LedgerInv /\ ~Readable
    BY InitInv DEF Init, LedgerInit, Readable
  <1>2. DeliveryTypes
    <2>1. <<0, 0>> \in Nat \X Nat /\ <<>> \in Seq(Message)
      OBVIOUS
    <2> QED
      BY <2>1 DEF Init, DeliveryTypes, Producer, Follower
  <1>3. \A p \in Producers : /\ producer[p].pc = "idle" /\ producer[p].generation = 0
                             /\ producer[p].settlement = "unclaimed"
    BY DEF Init
  <1>4. \A p \in Producers : ProducerSound(p) /\ Resumes(p) /\ WonSound(p)
    BY <1>1, <1>3 DEF Init, LedgerInit, ProducerSound, Resumes, WonSound, Working
  <1>5. CancelCallbackOnce
    BY <1>3 DEF CancelCallbackOnce
  <1>6. \A f \in Followers : FollowerSound(f)
    BY DEF Init, FollowerSound
  <1> QED
    BY <1>1, <1>2, <1>4, <1>5, <1>6 DEF DeliveryInv, Issued, LogSound

\* Every step is a step of the ledger, or none, and keeps the invariant.
LEMMA DeliveryStep ==
  ASSUME DeliveryInv, [Next]_vars
  PROVE  LedgerStep /\ DeliveryInv'
  <1>1. CASE \E p \in Producers, r \in Runs : Prepare(p, r)
    BY <1>1, PrepareSafe
  <1>2. CASE \E p \in Producers : ProducerStep(p) \/ ShutDown(p) \/ Crash(p)
    BY <1>2, MoveOnSafe, SettleSafe, OverSafe DEF ProducerStep
  <1>3. CASE \E f \in Followers, r \in Runs, after \in Cursors : BindFollow(f, r, after)
    BY <1>3, BindSafe
  <1>4. CASE \E f \in Followers : FollowerStep(f)
    <2>1. PICK f \in Followers : FollowerStep(f)
      BY <1>4
    <2>2. CASE FollowPage(f) /\ CanRead(follower[f].generation)
      BY <2>2, PageSafe DEF FollowPage
    <2>3. CASE FollowPage(f) /\ ~CanRead(follower[f].generation)
      BY <2>3, FollowerTurnsSafe DEF FollowPage
    <2>4. CASE FollowReconciles(f) \/ FollowWakes(f)
      BY <2>4, FollowerTurnsSafe
    <2> QED
      BY <2>1, <2>2, <2>3, <2>4 DEF FollowerStep
  <1>5. CASE (Environment \/ UNCHANGED ledgerVars) /\ UNCHANGED deliveryVars
    <2>0. LedgerInv /\ LogSound /\ DeliveryTypes /\ CancelCallbackOnce /\ Issued
      BY DEF DeliveryInv
    <2>1. LedgerStep /\ producer' = producer /\ follower' = follower
      BY <1>5, <2>0, EnvironmentSeen, StillSeen DEF deliveryVars
    <2>2. LedgerInv' /\ LogSound' /\ Issued'
      BY <2>0, <2>1, Carries, LogStepSound, IssuedStep
    <2>3. \A p \in Producers : ProducerSound(p)' /\ Resumes(p)' /\ WonSound(p)'
      BY <2>1, ProducerRests
    <2>4. \A f \in Followers : FollowerSound(f)'
      BY <2>1, FollowerRests
    <2>5. DeliveryTypes' /\ CancelCallbackOnce'
      BY <2>0, <2>1 DEF DeliveryTypes, CancelCallbackOnce
    <2> QED
      BY <2>1, <2>2, <2>3, <2>4, <2>5 DEF DeliveryInv
  <1> QED
    BY <1>1, <1>2, <1>3, <1>4, <1>5 DEF Next, vars

\* The invariant holds for every number of runs, producers and followers.
THEOREM DeliveryInvariant == Spec => []DeliveryInv
  <1>1. DeliveryInv /\ [Next]_vars => DeliveryInv'
    BY DeliveryStep
  <1> QED
    BY <1>1, DeliveryInit, PTL DEF Spec

\* The producers, followers and publishers of a thread take only steps of the
\* ledger: the references they present are references it has issued.  What
\* is proved of MessagingLedger therefore holds of the running system.
THEOREM DeliveryImplementsLedger == Spec => LedgerSpec
  <1>1. DeliveryInv /\ [Next]_vars => [LedgerNext]_ledgerVars
    BY DeliveryStep DEF LedgerStep
  <1>2. Init => LedgerInit
    BY DEF Init
  <1> QED
    BY <1>1, <1>2, DeliveryInvariant, PTL DEF Spec, LedgerSpec

\* ... in particular the promise to the thread's readers.
THEOREM DeliveryKeepsPromise == Spec => PromisedLog
  BY DeliveryImplementsLedger, LedgerKeepsPromise, PTL

\* Whatever crashed, resumed or raced, a run's items are committed once, in
\* order and without a gap.
THEOREM ItemsInOrder == Spec => []SourceInOrder
  <1>1. DeliveryInv => SourceInOrder
    <2> SUFFICES ASSUME DeliveryInv, disposition = "active", NEW k \in DOMAIN log
                 PROVE  /\ log[k].id[1] = log[k].run
                        /\ \A j \in 1 .. k - 1 : log[j].id # log[k].id
                        /\ log[k].id[2] > 1 =>
                             \E j \in 1 .. k - 1 : log[j].id = <<log[k].run, log[k].id[2] - 1>>
      BY DEF SourceInOrder
    <2>1. k \in 1 .. Len(log)
      BY RowTypes DEF DeliveryInv
    <2>2. MessageSound(k)
      BY <2>1 DEF DeliveryInv, LogSound, Readable
    <2>3. log[k].id = <<log[k].run, log[k].id[2]>>
      BY <2>2 DEF MessageSound
    <2>4. log[k].id[1] = log[k].run
      BY <2>3
    <2> QED
      BY <2>2, <2>4 DEF MessageSound
  <1> QED
    BY <1>1, DeliveryInvariant, PTL

\* An id occurs at one place of the log.
LEMMA OnePosition ==
  ASSUME LedgerInv, LogSound, Readable, NEW i, Committed(i)
  PROVE  /\ Position(i) \in 1 .. Len(log) /\ log[Position(i)].id = i
         /\ \A k \in 1 .. Len(log) : log[k].id = i => k = Position(i)
  <1>1. Len(log) \in Nat /\ DOMAIN log = 1 .. Len(log)
    BY RowTypes
  <1>2. Position(i) \in 1 .. Len(log) /\ log[Position(i)].id = i
    BY <1>1 DEF Position, Committed
  <1>3. ASSUME NEW j \in 1 .. Len(log), NEW k \in 1 .. Len(log), log[j].id = log[k].id, j < k
        PROVE  FALSE
    <2>1. MessageSound(k) /\ j \in 1 .. k - 1
      BY <1>1, <1>3 DEF LogSound
    <2> QED
      BY <1>3, <2>1 DEF MessageSound
  <1>4. ASSUME NEW k \in 1 .. Len(log), log[k].id = i PROVE k = Position(i)
    <2>1. PICK q \in 1 .. Len(log) : q = Position(i)
      BY <1>2
    <2>2. log[q].id = log[k].id
      BY <1>2, <1>4, <2>1
    <2>3. ~(q < k) /\ ~(k < q)
      BY <1>3, <2>2
    <2> QED
      BY <1>1, <2>1, <2>3
  <1> QED
    BY <1>2, <1>4

\* A publication from outside is placed inside its run: it is accepted after
\* the first item, by a row that the last item has not closed.
THEOREM PublicationsInside == Spec => []PublishedInsideRun
  <1>1. DeliveryInv => PublishedInsideRun
    <2> SUFFICES ASSUME DeliveryInv, disposition = "active", NEW r \in Runs,
                        Committed(<<r, 0>>)
                 PROVE  /\ Committed(<<r, 1>>)
                        /\ Position(<<r, 1>>) < Position(<<r, 0>>)
                        /\ Committed(<<r, Items[r]>>) =>
                             Position(<<r, 0>>) < Position(<<r, Items[r]>>)
      BY DEF PublishedInsideRun
    <2>0. /\ LedgerInv /\ LogSound /\ Readable /\ Len(log) \in Nat /\ DOMAIN log = 1 .. Len(log)
      BY RowTypes DEF DeliveryInv, Readable
    <2>1. PICK k \in 1 .. Len(log) : k = Position(<<r, 0>>) /\ log[k].id = <<r, 0>>
      BY <2>0, OnePosition
    <2>2. MessageSound(k)
      BY <2>0 DEF LogSound
    <2>3. log[k].run = r /\ log[k].id[2] = 0
      <3>1. log[k].id = <<log[k].run, log[k].id[2]>>
        BY <2>2 DEF MessageSound
      <3> QED
        BY <2>1, <3>1
    <2>4. PICK j \in 1 .. k - 1 : log[j].id = <<r, 1>>
      BY <2>2, <2>3 DEF MessageSound
    <2>5. Committed(<<r, 1>>) /\ j \in 1 .. Len(log)
      BY <2>0, <2>4 DEF Committed
    <2>6. Position(<<r, 1>>) = j
      BY <2>0, <2>4, <2>5, OnePosition
    <2>7. ASSUME Committed(<<r, Items[r]>>)
          PROVE  Position(<<r, 0>>) < Position(<<r, Items[r]>>)
      <3>1. PICK q \in 1 .. Len(log) : q = Position(<<r, Items[r]>>) /\ log[q].id = <<r, Items[r]>>
        BY <2>0, <2>7, OnePosition
      <3>2. q \notin 1 .. k - 1
        BY <2>2, <2>3, <3>1 DEF MessageSound
      <3>3. q # k
        BY <2>1, <3>1, DeliveryAssumption
      <3> QED
        BY <2>0, <2>1, <3>1, <3>2, <3>3
    <2> QED
      BY <2>0, <2>1, <2>4, <2>5, <2>6, <2>7
  <1> QED
    BY <1>1, DeliveryInvariant, PTL

\* The cancel callback of a run is entered by one producer: the settlement is
\* begun once and a run being settled after a cancellation is not recovered.
THEOREM CallbackEnteredOnce == Spec => []CancelCallbackOnce
  <1>1. DeliveryInv => CancelCallbackOnce
    BY DEF DeliveryInv
  <1> QED
    BY <1>1, DeliveryInvariant, PTL

\* A follower has exactly the messages from its cursor on and ends with its
\* run's last one.
THEOREM FollowersAreExact == Spec => []FollowerExact
  <1>1. DeliveryInv => FollowerExact
    BY DEF DeliveryInv, FollowerExact, FollowerSound
  <1> QED
    BY <1>1, DeliveryInvariant, PTL

=============================================================================
