-------------------------- MODULE MessagingDelivery --------------------------
(***************************************************************************)
(* The processes around the ledger of one thread: producers                *)
(* (_message_channel.wrap and _producer_runtime.produce), followers        *)
(* (_MessagingLedger.follow) and publishers from outside a run.  Each      *)
(* process is a task of some worker; a producer may crash with its worker  *)
(* and nothing tells the others but the lease.  The steps of a cleanup     *)
(* are taken by anyone, as in the ledger.                                  *)
(*                                                                         *)
(* Abstractions.  A source yields the items 1..Items[r] and then ends, the *)
(* last being the protocol's terminal; a cancel callback returns one tail  *)
(* item.  The k-th item of a run has the message id <<run, k>>, which is   *)
(* what _derived_message_id and a recoverable source's stable ids share;   *)
(* <<run, 0>> is the publication from outside.  Of a producer's failures   *)
(* only their effect on the status it reports is kept.  Owner loss is      *)
(* committed by followers and by prepare here; the other observers, which  *)
(* commit the same transition, are in MessagingLedger alone.               *)
(***************************************************************************)
EXTENDS MessagingLedger, FiniteSets

CONSTANTS
  Producers, Followers,
  Cursors,     \* replay cursors that followers present
  Items,       \* [Runs -> Nat], messages the source of a run yields
  PageLimit    \* messages one read returns

ASSUME DeliveryAssumption ==
  /\ Items \in [Runs -> Nat \ {0}]
  /\ PageLimit \in Nat \ {0}
  /\ Cursors \subseteq Nat
  /\ MaxFence # 0
  /\ Ids = {<<r, k>> : r \in Runs, k \in 0..MaxMessages + 1}

VARIABLES
  producer,    \* [Producers -> Producer]
  follower     \* [Followers -> Follower]

deliveryVars == <<producer, follower>>
vars == <<ledgerVars, deliveryVars>>

Producer ==
  [pc: {"idle", "preflight", "producing", "settling", "tail", "finishing", "done"},
   run: Runs \cup {Nobody}, generation: Nat, fence: Nat,
   next: Nat,
   settlement: {"unclaimed", "won", "plain", "failed"},  \* settlement_task
   status: {"completed", "cancelled", "failed", "shutdown"}]

Follower ==
  [pc: {"idle", "reading", "reconciling", "waiting", "ended", "gone"},
   run: Runs \cup {Nobody}, generation: Nat,
   after: Nat, got: Seq(Message),
   seen: Nat \X Nat]                     \* MessagingChangeCursor

-----------------------------------------------------------------------------
\* Producers.

At(p, pc) == producer[p].pc = pc
Goto(p, pc) == producer' = [producer EXCEPT ![p].pc = pc]
\* The task is over; what it claimed stays on record.
Ends(p) ==
  producer' = [producer EXCEPT ![p].pc = "done", ![p].fence = 0, ![p].next = 1,
                               ![p].status = "completed"]

OwnsRun(p) == Owns(producer[p].run, producer[p].generation, producer[p].fence)

Handle(p, r, first) ==
  [producer[p] EXCEPT !.pc = "preflight", !.run = r, !.generation = generation',
                      !.fence = runs'[r].fence, !.next = first]

\* Fault: a recovered source resumes one item too late.
SkippingCheckpoint(r) ==
  IF runs[r].checkpoint = <<>> THEN 0 ELSE runs[r].checkpoint[1][2] + 1

CheckpointOrdinal(r) ==
  IF runs[r].checkpoint = <<>> THEN 0 ELSE runs[r].checkpoint[1][2]

\* wrap() or wrap_recoverable(): start, recover, or attach.
Prepare(p, r) ==
  /\ At(p, "idle")
  /\ \/ /\ PrepareInNewGeneration(r) \/ PrepareNewRun(r)
        /\ producer' = [producer EXCEPT ![p] = Handle(p, r, 1)]
     \/ /\ PrepareRecovers(r)
        /\ producer' = [producer EXCEPT ![p] = Handle(p, r, CheckpointOrdinal(r) + 1)]
     \/ PrepareSettlesLostRun(r) /\ Ends(p)
     \/ PrepareAttaches(r) /\ Ends(p) /\ UNCHANGED ledgerVars
  /\ UNCHANGED follower

SourceReady(p) ==
  /\ At(p, "preflight")
  /\ Goto(p, "producing")
  /\ UNCHANGED ledgerVars /\ UNCHANGED follower

\* Opening the source or a delivery callback failed: wrap() finishes the run.
PreflightFails(p) ==
  /\ At(p, "preflight")
  /\ producer' = [producer EXCEPT ![p].pc = "finishing", ![p].status = "failed"]
  /\ UNCHANGED ledgerVars /\ UNCHANGED follower

Checkpoint(p) ==
  IF producer[p].run \in Recoverable
    THEN <<<<producer[p].run, producer[p].next>>>> ELSE <<>>

\* The committer's append of the next item, with its three outcomes.
AppendNext(p) ==
  LET r == producer[p].run
      i == <<r, producer[p].next>>
  IN \/ /\ OwnsRun(p) /\ Committed(i)
        /\ producer' = [producer EXCEPT ![p].next = @ + 1]
        /\ UNCHANGED ledgerVars
     \/ /\ AppendMessage(r, producer[p].generation, producer[p].fence, i,
                         producer[p].next = 1, producer[p].next = Items[r], Checkpoint(p))
        /\ producer' = [producer EXCEPT ![p].next = @ + 1]

AppendRefused(p) ==
  \/ ~OwnsRun(p)
  \/ ~Committed(<<producer[p].run, producer[p].next>>) /\ latest >= MaxMessages

CommitItem(p) ==
  /\ At(p, "producing")
  /\ producer[p].next <= Items[producer[p].run]
  /\ AppendNext(p)
  /\ UNCHANGED follower

StopsProducing(p, status) ==
  /\ At(p, "producing")
  /\ producer' = [producer EXCEPT ![p].pc = "settling", ![p].status = status]
  /\ UNCHANGED ledgerVars /\ UNCHANGED follower

SourceEnds(p) ==
  /\ At(p, "producing")
  /\ producer[p].next > Items[producer[p].run] \/ producer[p].settlement = "won"
  /\ StopsProducing(p, IF producer[p].settlement = "won" THEN "cancelled" ELSE "completed")

\* The source raises, or the append is refused.
SourceFails(p) == StopsProducing(p, "failed")

\* Messaging.aclose() cancels a producer that is not yet settling.
ShutDown(p) ==
  /\ producer[p].settlement # "won"
  /\ StopsProducing(p, "shutdown")

\* _renew_lease_forever: a rejected renewal interrupts what it protects.
RenewalRejected(p) ==
  /\ producer[p].pc \in {"preflight", "producing"}
  /\ ~OwnsRun(p)
  /\ producer' = [producer EXCEPT
       ![p].pc = IF @ = "preflight" THEN "finishing" ELSE "settling",
       ![p].status = "failed"]
  /\ UNCHANGED ledgerVars /\ UNCHANGED follower

\* claim_settlement: the one begin_settlement of this producer.
ClaimSettlement(p, pc) ==
  LET r == producer[p].run
      won == runs[r].status = "cancel_requested"
  IN \/ /\ BeginSettlement(r, producer[p].generation, producer[p].fence)
        /\ producer' = [producer EXCEPT
             ![p].pc = IF @ = "settling" /\ won THEN "tail" ELSE pc,
             ![p].settlement = IF won THEN "won" ELSE "plain",
             ![p].status = IF won /\ @ \in {"completed", "shutdown"}
                             THEN "cancelled" ELSE @]
     \/ /\ ~OwnsRun(p) \/ runs[r].settlement_started
        /\ producer' = [producer EXCEPT ![p].pc = pc,
                                        ![p].settlement = "failed",
                                        ![p].status = "failed"]
        /\ UNCHANGED ledgerVars

\* watch_cancel: wait_for_cancel saw the request of this run and generation.
WatcherClaims(p) ==
  /\ At(p, "producing")
  /\ producer[p].run \in Cancellable
  /\ producer[p].settlement = "unclaimed"
  /\ Readable /\ generation = producer[p].generation
  /\ runs[producer[p].run].status = "cancel_requested"
  /\ ClaimSettlement(p, "producing")
  /\ UNCHANGED follower

\* The producer's own settlement; a result the watcher claimed is shared.
Settle(p) ==
  /\ At(p, "settling")
  /\ \/ producer[p].settlement = "unclaimed" /\ ClaimSettlement(p, "finishing")
     \/ /\ producer[p].settlement # "unclaimed"
        /\ producer' = [producer EXCEPT
             ![p].pc = IF producer[p].settlement = "won" THEN "tail" ELSE "finishing",
             ![p].status = IF producer[p].settlement = "failed" THEN "failed" ELSE @]
        /\ UNCHANGED ledgerVars
  /\ UNCHANGED follower

\* The cancellation tail: appended, empty, or refused.
CommitTail(p) ==
  /\ At(p, "tail")
  /\ \/ AppendNext(p) /\ producer[p].next <= Items[producer[p].run] + 1
     \/ /\ producer' = [producer EXCEPT ![p].pc = "finishing",
                          ![p].status = IF AppendRefused(p) THEN "failed" ELSE @]
        /\ UNCHANGED ledgerVars
  /\ UNCHANGED follower

Reported(p) == IF producer[p].status = "shutdown" THEN "failed" ELSE producer[p].status

Finish(p) ==
  /\ At(p, "finishing")
  /\ Ends(p)
  /\ \/ FinishRun(producer[p].run, producer[p].generation, producer[p].fence, Reported(p))
     \/ ~OwnsRun(p) /\ UNCHANGED ledgerVars
  /\ UNCHANGED follower

\* The worker dies, or its wait is abandoned; only the lease remembers it.
Crash(p) ==
  /\ producer[p].pc \notin {"idle", "done"}
  /\ Ends(p)
  /\ UNCHANGED ledgerVars /\ UNCHANGED follower

ProducerStep(p) ==
  \/ SourceReady(p) \/ PreflightFails(p)
  \/ CommitItem(p) \/ SourceEnds(p) \/ SourceFails(p)
  \/ RenewalRejected(p) \/ WatcherClaims(p)
  \/ Settle(p) \/ CommitTail(p) \/ Finish(p)

-----------------------------------------------------------------------------
\* Followers.

CanRead(g) == Readable /\ generation = g /\ retention # "expired"

Cursor(f) == follower[f].after + Len(follower[f].got)

BindFollow(f, r, after) ==
  /\ follower[f].pc = "idle"
  /\ Readable /\ retention # "expired"
  /\ Exists(r)
  /\ after <= latest
  /\ follower' = [follower EXCEPT ![f] =
       [pc |-> "reading", run |-> r, generation |-> generation, after |-> after,
        got |-> <<>>, seen |-> <<0, 0>>]]
  /\ UNCHANGED <<ledgerVars, producer>>

Smaller(a, b) == IF a <= b THEN a ELSE b

\* Fault: pages are not bounded by the run's end_sequence.
ThroughTail(r) == latest

\* read_committed_messages with stop_at_run_terminal.
Through(r) == IF runs[r].status \in Final THEN Smaller(latest, runs[r].end_sequence)
              ELSE latest

Page(f) == SubSeq(log, Cursor(f) + 1,
                  Smaller(Through(follower[f].run), Cursor(f) + PageLimit))

AfterPage(r, cursor) ==
  IF runs[r].status \in Final /\ cursor >= runs[r].end_sequence THEN "ended"
  ELSE IF Live(r) /\ ~runs[r].lease THEN "reconciling"
  ELSE IF cursor < runs[r].end_sequence THEN "reading"
  ELSE "waiting"

FollowPage(f) ==
  /\ follower[f].pc = "reading"
  /\ \/ /\ ~CanRead(follower[f].generation)
        /\ follower' = [follower EXCEPT ![f].pc = "gone"]
     \/ /\ CanRead(follower[f].generation)
        /\ follower' = [follower EXCEPT
             ![f].pc = AfterPage(follower[f].run, Cursor(f) + Len(Page(f))),
             ![f].got = @ \o Page(f),
             ![f].seen = IF AfterPage(follower[f].run, Cursor(f) + Len(Page(f))) = "waiting"
                           THEN <<latest, control_sequence>> ELSE @]
  /\ UNCHANGED <<ledgerVars, producer>>

\* The lease lapsed: commit owner loss for the bound generation, read again.
FollowReconciles(f) ==
  /\ follower[f].pc = "reconciling"
  /\ IF Readable /\ generation = follower[f].generation
       THEN /\ follower' = [follower EXCEPT ![f].pc = "reading"]
            /\ \/ ReconcileOwnership(follower[f].run)
               \/ ~LapsedRun(follower[f].run) /\ UNCHANGED ledgerVars
       ELSE /\ follower' = [follower EXCEPT ![f].pc = "gone"]
            /\ UNCHANGED ledgerVars
  /\ UNCHANGED producer

\* wait_for_messaging_change returns: the generation is gone, the cursor it
\* was given is behind, or the lease it was told about ran out.
FollowWakes(f) ==
  /\ follower[f].pc = "waiting"
  /\ \/ ~CanRead(follower[f].generation)
     \/ follower[f].seen # <<latest, control_sequence>>
     \/ LapsedRun(follower[f].run)
  /\ follower' = [follower EXCEPT ![f].pc = "reading", ![f].seen = <<0, 0>>]
  /\ UNCHANGED <<ledgerVars, producer>>

-----------------------------------------------------------------------------
Init ==
  /\ LedgerInit
  /\ producer = [p \in Producers |->
       [pc |-> "idle", run |-> Nobody, generation |-> 0, fence |-> 0, next |-> 1,
        settlement |-> "unclaimed", status |-> "completed"]]
  /\ follower = [f \in Followers |->
       [pc |-> "idle", run |-> Nobody, generation |-> 0, after |-> 0, got |-> <<>>,
        seen |-> <<0, 0>>]]

FollowerStep(f) == FollowPage(f) \/ FollowReconciles(f) \/ FollowWakes(f)

\* A lease nobody renews any more runs out.
Renewed(r) == \E p \in Producers :
  /\ producer[p].pc \notin {"idle", "done"}
  /\ producer[p].run = r /\ producer[p].fence = runs[r].fence
  /\ producer[p].generation = generation
AbandonedLeaseExpires(r) == ~Renewed(r) /\ LeaseExpires(r) /\ UNCHANGED deliveryVars

Environment ==
  \/ \E r \in Runs : RequestCancellation(r) \/ LeaseExpires(r)
  \/ \E r \in Runs, g \in 1..MaxGeneration : PublishMessage(r, g, <<r, 0>>)
  \/ RetentionElapses
  \/ ReclaimExpired

Next ==
  \/ \E p \in Producers, r \in Runs : Prepare(p, r)
  \/ \E p \in Producers : ProducerStep(p) \/ ShutDown(p) \/ Crash(p)
  \/ \E f \in Followers, r \in Runs, after \in Cursors : BindFollow(f, r, after)
  \/ \E f \in Followers : FollowerStep(f)
  \/ Environment /\ UNCHANGED deliveryVars

\* Tasks are scheduled and an abandoned lease runs out.  Nothing is asked of
\* one task in particular: no process here can keep the others from running.
Progress ==
  \/ \E p \in Producers : ProducerStep(p)
  \/ \E f \in Followers : FollowerStep(f)
  \/ \E r \in Runs : AbandonedLeaseExpires(r)

Spec == Init /\ [][Next]_vars /\ WF_vars(Progress)

-----------------------------------------------------------------------------
\* A run's source items are committed once, in order and without a gap, even
\* when its producer crashed after an append, a recovered one resumed from the
\* checkpoint, and the first one is still running: no earlier message has an
\* item's id, and one of them is the item before it.
SourceInOrder ==
  disposition = "active" =>
    \A k \in DOMAIN log :
      LET r == log[k].run
          n == log[k].id[2]
      IN  /\ log[k].id[1] = r
          /\ \A j \in 1 .. k - 1 : log[j].id # log[k].id
          /\ n > 1 => \E j \in 1 .. k - 1 : log[j].id = <<r, n - 1>>

\* A publication from outside lands between the first item of its run and the
\* item that closes it, never before the run's start or after its terminal.
Position(i) == CHOOSE k \in DOMAIN log : log[k].id = i

PublishedInsideRun ==
  disposition = "active" =>
    \A r \in Runs : Committed(<<r, 0>>) =>
      /\ Committed(<<r, 1>>)
      /\ Position(<<r, 1>>) < Position(<<r, 0>>)
      /\ Committed(<<r, Items[r]>>) => Position(<<r, 0>>) < Position(<<r, Items[r]>>)

\* A cancel callback has effects of its own and is entered by at most one
\* producer of a run, however often the run is recovered.
CancelCallbackOnce ==
  \A p, q \in Producers :
    /\ producer[p].settlement = "won" /\ producer[q].settlement = "won"
    /\ producer[p].run = producer[q].run
    /\ producer[p].generation = producer[q].generation
    => p = q

\* A follower has been given exactly the thread's messages from its cursor on,
\* nothing of a run that started after the one it follows, and it ends only
\* with that run's last message.
FollowerExact ==
  \A f \in Followers :
    follower[f].pc # "idle" /\ Readable /\ generation = follower[f].generation =>
      LET run == runs[follower[f].run] IN
      /\ follower[f].got = SubSeq(log, follower[f].after + 1, Cursor(f))
      /\ run.status \in Final /\ Len(follower[f].got) > 0 =>
           Cursor(f) <= run.end_sequence
      /\ follower[f].pc = "ended" =>
           run.status \in Final /\ Cursor(f) >= run.end_sequence

\* Whoever follows a run is told how it ended: producers may crash, be
\* recovered, lose their lease or race a cancellation, and a follower that
\* waits is woken by every change it has to see.
FollowersEnd ==
  \A f \in Followers :
    (follower[f].pc = "reading") ~> (follower[f].pc \in {"ended", "gone"})

=============================================================================
