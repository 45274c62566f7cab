---------------------------- MODULE TraceWriting ----------------------------
(***************************************************************************)
(* The processes around the Trace Ledger: tracing sessions, each with the  *)
(* queue and worker of its TraceBatchWriter and the leased Store writer    *)
(* under it, a query that first flushes a session, and users that delete   *)
(* a thread.  A session's commits may be in doubt (the reply is lost and   *)
(* the change is tried again), its lease may run out, another session may  *)
(* take its Run over, and its process may die.                             *)
(*                                                                         *)
(* Abstractions.  Observations arrive one at a time, as the Runtime        *)
(* delivers them: any number of ordinary facts, then terminal, then        *)
(* closed.  The k-th ordinary fact of session s has the id <<s, k>>.  The  *)
(* batch delay is a wait that ends at any moment, so force only waits; a   *)
(* queue's bytes are bounded like its events and are left out.  A Store    *)
(* call may fail at any moment, which includes every refusal and a failed  *)
(* heartbeat.  The pages that load_core_projection_state reads belong to a *)
(* fixed prefix of an append-only log, so that reading is one step.        *)
(***************************************************************************)
EXTENDS TraceLedger

CONSTANTS
  Opens,             \* the Runs that a session may be opened for
  Queried,           \* the sessions of the Tracer that is asked
  MaxFacts,          \* bound: ordinary facts each session observes
  Submissions,       \* numbers of facts that one observation maps to
  MaxBatchEvents, MaxPendingEvents,
  MaxFaults          \* bound: doubtful commits, failed calls, leases that lapse
                     \* under a live session, crashes

ASSUME WritingAssumption ==
  /\ Opens \subseteq Tokens \X Runs
  /\ MaxFacts \in [Tokens -> Nat]
  /\ \A s \in Tokens : \A n \in 1 .. MaxFacts[s] + 2 : SizeOf(<<s, n>>) \in Nat
  /\ MaxPendingEvents \in Nat
  /\ MaxBatchEvents \in 1..MaxPendingEvents
  /\ Submissions \subseteq 1..MaxPendingEvents

VARIABLES
  session,   \* [Tokens -> Session], an owner token is its session
  core,      \* [Tokens -> CatchUp], load_core_projection_state of a session
  query,     \* a Tracer.get that flushes one session first
  faults

vars == <<ledgerVars, session, core, query, faults>>

Session ==
  [pc: {"idle", "opening", "hydrating", "open", "submitting", "finishing",
        "notifying", "closing", "closed"},
   run: Runs \cup {Nobody}, generation: Nat, fence: Nat,
   submission: Nat,           \* facts waiting for admission
   queue: Seq(Nat),           \* submissions accepted and not yet taken, each as
                              \* the ordinal of its last fact
   batch: Nat,                \* facts of the batch in flight
   accepted: Nat, settled: Nat,
   worker: {"idle", "append", "notify", "ended"},
   failed: BOOLEAN,
   stage: 0..2]               \* terminal and closed facts committed

CatchUp == [pc: {"none", "load", "save"}, as_of: Nat, expected: Nat]
NoCatchUp == [pc |-> "none", as_of |-> 0, expected |-> 0]

At(s, pc) == session[s].pc = pc
Thread(s) == ThreadOf[session[s].run]
Current(s) == generation[Thread(s)] = session[s].generation
Becomes(s, new) == session' = [session EXCEPT ![s] = new]
Fault == faults < MaxFaults /\ faults' = faults + 1

\* A Store call raises because the ledger refuses the change, or for any other
\* reason.
FaultUnless(refused) == IF refused THEN UNCHANGED faults ELSE Fault

Idle ==
  [pc |-> "idle", run |-> Nobody, generation |-> 0, fence |-> 0, submission |-> 0,
   queue |-> <<>>, batch |-> 0, accepted |-> 0, settled |-> 0, worker |-> "idle",
   failed |-> FALSE, stage |-> 0]

\* Nothing of a session is used after it; its run and what it acknowledged are
\* kept to state properties of them.
Closed(x) == [Idle EXCEPT !.pc = "closed", !.run = x.run, !.generation = x.generation,
                          !.settled = x.settled, !.failed = x.failed]

\* on_commit, and hydration: catch up with the prefix that ends at as_of.  The
\* first load belongs to this step; what others do before it would let the save
\* fail, or be overtaken, just the same.
Notify(s, t, as_of) ==
  core' = [core EXCEPT ![s] = [pc |-> "save", as_of |-> as_of,
                               expected |-> NewestWithin(t, as_of)]]

-----------------------------------------------------------------------------
\* Tracer.open_run.

\* A first attempt, or another one of a call whose change is in doubt.
OpensRun(s, r) ==
  \/ At(s, "idle") /\ <<s, r>> \in Opens
  \/ At(s, "opening") /\ session[s].run = r

Opened(s, r) ==
  /\ OpensRun(s, r)
  /\ OpenWriter(r, s)
  /\ Becomes(s, [session[s] EXCEPT !.pc = "hydrating", !.run = r,
                                   !.generation = generation'[ThreadOf[r]],
                                   !.fence = writers'[r].fence])
  /\ Notify(s, ThreadOf[r], LastSeq(ThreadOf[r]))
  /\ UNCHANGED <<query, faults>>

OpenInDoubt(s, r) ==
  /\ OpensRun(s, r)
  /\ OpenWriter(r, s)
  /\ Fault
  /\ Becomes(s, [session[s] EXCEPT !.pc = "opening", !.run = r])
  /\ UNCHANGED <<core, query>>

OpenFails(s, r) ==
  /\ OpensRun(s, r)
  /\ FaultUnless(OpenRefused(r, s))
  /\ Becomes(s, Closed([session[s] EXCEPT !.run = r]))
  /\ UNCHANGED <<ledgerVars, core, query>>

-----------------------------------------------------------------------------
\* TraceBatchWriter: admission, worker, failure.

Pending(s) == session[s].accepted - session[s].settled

Admits(s, n) == Pending(s) + n <= MaxPendingEvents
Accepts(x, n) == [x EXCEPT !.pc = "open", !.submission = 0, !.accepted = @ + n,
                           !.queue = Append(@, x.accepted + n)]

\* submit; after a failure it raises at once, as force does.
Submit(s, n) ==
  /\ At(s, "open")
  /\ ~session[s].failed
  /\ session[s].stage = 0
  /\ session[s].accepted + n <= MaxFacts[s]
  /\ Becomes(s, IF Admits(s, n) THEN Accepts(session[s], n)
                ELSE [session[s] EXCEPT !.pc = "submitting", !.submission = n])
  /\ UNCHANGED <<ledgerVars, core, query, faults>>

\* A submission that waited for room, or that a failure releases.
Submitted(s) ==
  /\ At(s, "submitting")
  /\ \/ /\ session[s].failed
        /\ Becomes(s, [session[s] EXCEPT !.pc = "open", !.submission = 0])
     \/ /\ ~session[s].failed
        /\ Admits(s, session[s].submission)
        /\ Becomes(s, Accepts(session[s], session[s].submission))
  /\ UNCHANGED <<ledgerVars, core, query, faults>>

\* Facts of the first n submissions; the worker has none in flight.
FactsUpTo(x, n) == x.queue[n] - x.settled

\* Submissions that fit one Store append; a larger one goes alone.
Selected(x) == Max({1} \cup {n \in 1..Len(x.queue) : FactsUpTo(x, n) <= MaxBatchEvents})

NextBatch(s) ==
  LET n == Selected(session[s]) IN
  /\ session[s].worker = "idle"
  /\ session[s].queue # <<>>
  /\ Becomes(s, [session[s] EXCEPT !.worker = "append",
                                   !.queue = SubSeq(@, n + 1, Len(@)),
                                   !.batch = FactsUpTo(session[s], n)])
  /\ UNCHANGED <<ledgerVars, core, query, faults>>

Fact(s, n) == [id |-> <<s, n>>, run |-> session[s].run, phase |-> "fact"]
Batch(s) == [k \in 1..session[s].batch |-> Fact(s, session[s].settled + k)]

\* Event ids are kept over the attempts of one commit, which finds what an
\* earlier attempt stored.
Position(s, event) ==
  Max({0} \cup {k \in 1..LastSeq(Thread(s)) : log[Thread(s)][k].id = event.id})

\* Fault: a repeated append does not look for what it stored.
NeverRecorded(s, event) == FALSE

Recorded(s, event) == Current(s) /\ Position(s, event) > 0

AppendBatch(s) ==
  /\ session[s].worker = "append"
  /\ ~Recorded(s, Batch(s)[1])
  /\ AppendFacts(session[s].run, session[s].generation, s, session[s].fence, Batch(s))

\* Fault: the worker ends and nobody is told.
WorkerDies(x) == [x EXCEPT !.queue = <<>>, !.batch = 0, !.worker = "ended"]

\* The failure settles the batch and the whole queue.
Failed(x) == [x EXCEPT !.failed = TRUE, !.queue = <<>>, !.batch = 0, !.worker = "ended"]

WorkerCommits(s) ==
  /\ \/ AppendBatch(s) /\ Notify(s, Thread(s), LastSeq(Thread(s)) + session[s].batch)
     \/ /\ session[s].worker = "append"
        /\ Recorded(s, Batch(s)[1])
        /\ ProvenAppend(session[s].run, session[s].generation, s, session[s].fence)
        /\ Notify(s, Thread(s), Position(s, Batch(s)[session[s].batch]))
  /\ Becomes(s, [session[s] EXCEPT !.worker = "notify"])
  /\ UNCHANGED <<query, faults>>

WorkerInDoubt(s) ==
  /\ AppendBatch(s)
  /\ Fault
  /\ UNCHANGED <<session, core, query>>

WorkerFails(s) ==
  /\ session[s].worker = "append"
  /\ FaultUnless(
       /\ ~Recorded(s, Batch(s)[1])
       /\ ~MayAppendFacts(session[s].run, session[s].generation, s, session[s].fence,
                          Batch(s)))
  /\ Becomes(s, Failed(session[s]))
  /\ UNCHANGED <<ledgerVars, core, query>>

\* force: the future of the last fact accepted before it.
ForceReturns(s, target) == ~session[s].failed /\ session[s].settled >= target
ForceRaises(s) == session[s].failed
Forced(s) == ForceReturns(s, session[s].accepted)

-----------------------------------------------------------------------------
\* Terminal and closed, then aclose.

LastFact(s) == [id |-> <<s, MaxFacts[s] + session[s].stage + 1>>, run |-> session[s].run,
                phase |-> IF session[s].stage = 0 THEN "terminal" ELSE "closed"]

\* observe of a mandatory fact: force what was accepted, then append it.
FinishWaits(s) ==
  /\ At(s, "open")
  /\ ~session[s].failed /\ ~Forced(s)
  /\ session[s].stage < 2
  /\ Becomes(s, [session[s] EXCEPT !.pc = "finishing"])
  /\ UNCHANGED <<ledgerVars, core, query, faults>>

FinishRaises(s) ==
  /\ At(s, "finishing")
  /\ ForceRaises(s)
  /\ Becomes(s, [session[s] EXCEPT !.pc = "open"])
  /\ UNCHANGED <<ledgerVars, core, query, faults>>

Finishes(s) ==
  /\ \/ At(s, "open") /\ session[s].stage < 2
     \/ At(s, "finishing")
  /\ Forced(s)

AppendLast(s) ==
  /\ Finishes(s)
  /\ ~Recorded(s, LastFact(s))
  /\ AppendMandatory(session[s].run, session[s].generation, s, session[s].fence,
                     LastFact(s))

MandatoryCommits(s) ==
  /\ \/ AppendLast(s) /\ Notify(s, Thread(s), LastSeq(Thread(s)) + 1)
     \/ /\ Finishes(s)
        /\ Recorded(s, LastFact(s))
        /\ ProvenAppend(session[s].run, session[s].generation, s, session[s].fence)
        /\ Notify(s, Thread(s), Position(s, LastFact(s)))
  /\ Becomes(s, [session[s] EXCEPT !.pc = "notifying"])
  /\ UNCHANGED <<query, faults>>

MandatoryInDoubt(s) ==
  /\ AppendLast(s)
  /\ Fault
  /\ Becomes(s, [session[s] EXCEPT !.pc = "finishing"])
  /\ UNCHANGED <<core, query>>

MandatoryFails(s) ==
  /\ Finishes(s)
  /\ FaultUnless(
       /\ ~Recorded(s, LastFact(s))
       /\ ~MayAppendMandatory(session[s].run, session[s].generation, s,
                              session[s].fence, LastFact(s)))
  /\ Becomes(s, [session[s] EXCEPT !.pc = "open", !.failed = TRUE])
  /\ UNCHANGED <<ledgerVars, core, query>>

\* aclose.
CloseWaits(s) ==
  /\ At(s, "open")
  /\ ~ForceRaises(s) /\ ~Forced(s)
  /\ Becomes(s, [session[s] EXCEPT !.pc = "closing"])
  /\ UNCHANGED <<ledgerVars, core, query, faults>>

\* close_writer, once the worker has settled everything or has failed.
Release(s) ==
  LET r == session[s].run IN
  /\ session[s].pc \in {"open", "closing"}
  /\ Forced(s) \/ ForceRaises(s)
  /\ \/ CloseWriter(r, session[s].generation, s, session[s].fence)
     \/ NothingClosed(r, session[s].generation, s, session[s].fence)

Released(s) ==
  /\ Release(s)
  /\ Becomes(s, Closed(session[s]))
  /\ UNCHANGED <<core, query, faults>>

ReleaseInDoubt(s) ==
  /\ Release(s)
  /\ Fault
  /\ Becomes(s, [session[s] EXCEPT !.pc = "closing"])
  /\ UNCHANGED <<core, query>>

ReleaseFails(s) ==
  /\ session[s].pc \in {"open", "closing"}
  /\ Forced(s) \/ ForceRaises(s)
  /\ Fault
  /\ Becomes(s, Closed(session[s]))
  /\ UNCHANGED <<ledgerVars, core, query>>

-----------------------------------------------------------------------------
\* load_core_projection_state: newest checkpoint inside the prefix, the events
\* after it, and a compare-and-swap of the result.

\* What follows in a session that waited for it.
Caught(x) ==
  CASE x.pc = "hydrating" -> [x EXCEPT !.pc = "open"]
    [] x.pc = "notifying" -> [x EXCEPT !.pc = "open", !.stage = @ + 1]
    [] OTHER -> [x EXCEPT !.worker = "idle", !.settled = @ + x.batch, !.batch = 0]

CatchUpRaised(x) ==
  CASE x.pc = "hydrating" -> [x EXCEPT !.pc = "closing"]
    [] x.pc = "notifying" -> [x EXCEPT !.pc = "open", !.failed = TRUE]
    [] OTHER -> Failed(x)

Loaded(c, t) == [c EXCEPT !.pc = "save", !.expected = NewestWithin(t, c.as_of)]
UpToDate(c, t) == NewestWithin(t, c.as_of) = c.as_of

\* The outcomes of a save: stored, already there, overtaken, or beaten.
Saves(c, t) == Newest(t) = c.expected /\ c.expected < c.as_of
Overtaken(c, t) == Newest(t) >= c.as_of
Beaten(c, t) == Newest(t) # c.expected /\ Newest(t) < c.as_of

CatchUpEnds(s, outcome) ==
  /\ Becomes(s, outcome)
  /\ core' = [core EXCEPT ![s] = NoCatchUp]

CatchUpLoads(s) ==
  LET t == Thread(s) IN
  /\ core[s].pc = "load"
  /\ IF ~Current(s) THEN CatchUpEnds(s, CatchUpRaised(session[s]))
     ELSE IF UpToDate(core[s], t) THEN CatchUpEnds(s, Caught(session[s]))
     ELSE core' = [core EXCEPT ![s] = Loaded(@, t)] /\ UNCHANGED session
  /\ UNCHANGED <<ledgerVars, query, faults>>

CatchUpSaves(s) ==
  LET t == Thread(s) IN
  /\ core[s].pc = "save"
  /\ \/ /\ Saves(core[s], t)
        /\ SaveCheckpoint(t, session[s].generation, core[s].as_of)
        /\ CatchUpEnds(s, Caught(session[s]))
     \/ /\ Current(s) /\ Overtaken(core[s], t)
        /\ CatchUpEnds(s, Caught(session[s])) /\ UNCHANGED ledgerVars
     \/ /\ Current(s) /\ Beaten(core[s], t)
        /\ core' = [core EXCEPT ![s].pc = "load"] /\ UNCHANGED <<session, ledgerVars>>
     \/ /\ ~Current(s)
        /\ CatchUpEnds(s, CatchUpRaised(session[s])) /\ UNCHANGED ledgerVars
  /\ UNCHANGED <<query, faults>>

-----------------------------------------------------------------------------
\* Tracer.get: flush a session of this Tracer, take a snapshot, catch up.

Query ==
  [pc: {"idle", "forcing", "load", "save", "done"}, session: Tokens \cup {Nobody},
   target: Nat, generation: Nat, as_of: Nat, expected: Nat]

NoQuery ==
  [pc |-> "idle", session |-> Nobody, target |-> 0, generation |-> 0, as_of |-> 0,
   expected |-> 0]
Answered == [NoQuery EXCEPT !.pc = "done"]

Flushable(s) == session[s].pc \notin {"idle", "opening", "hydrating", "closed"}

QueryBegins(s) ==
  /\ query.pc = "idle"
  /\ s \in Queried /\ Flushable(s)
  /\ query' = [query EXCEPT !.pc = "forcing", !.session = s,
                            !.target = session[s].accepted]
  /\ UNCHANGED <<ledgerVars, session, core, faults>>

\* The snapshot is taken of whatever generation the thread has by then.
QueryFlushed ==
  LET s == query.session IN
  /\ query.pc = "forcing"
  /\ \/ /\ ForceReturns(s, query.target)
        /\ generation[Thread(s)] # 0
        /\ query' = [query EXCEPT !.pc = "load", !.generation = generation[Thread(s)],
                                  !.as_of = LastSeq(Thread(s))]
     \/ /\ ForceRaises(s) \/ generation[Thread(s)] = 0
        /\ query' = Answered
  /\ UNCHANGED <<ledgerVars, session, core, faults>>

QueryLoads ==
  LET t == Thread(query.session) IN
  /\ query.pc = "load"
  /\ query' = IF generation[t] # query.generation \/ UpToDate(query, t)
                THEN Answered ELSE Loaded(query, t)
  /\ UNCHANGED <<ledgerVars, session, core, faults>>

QuerySaves ==
  LET t == Thread(query.session) IN
  /\ query.pc = "save"
  /\ \/ /\ Saves(query, t)
        /\ SaveCheckpoint(t, query.generation, query.as_of)
        /\ query' = Answered
     \/ /\ generation[t] # query.generation \/ Overtaken(query, t)
        /\ query' = Answered /\ UNCHANGED ledgerVars
     \/ /\ generation[t] = query.generation /\ Beaten(query, t)
        /\ query' = [query EXCEPT !.pc = "load"] /\ UNCHANGED ledgerVars
  /\ UNCHANGED <<session, core, faults>>

-----------------------------------------------------------------------------
\* Faults and users.

\* The process dies; the lease is all that remains.
Crash(s) ==
  /\ session[s].pc \notin {"idle", "closed"}
  /\ Fault
  /\ Becomes(s, Closed(session[s]))
  /\ core' = [core EXCEPT ![s] = NoCatchUp]
  /\ query' = IF query.session = s THEN Answered ELSE query
  /\ UNCHANGED ledgerVars

\* The heartbeat's renewal was committed, answered too late, and repeated.
HeartbeatRevives(s) ==
  /\ session[s].pc \notin {"idle", "opening", "closing", "closed"}
  /\ ProvenRenewal(session[s].run, session[s].generation, s, session[s].fence)
  /\ UNCHANGED <<session, core, query, faults>>

\* A lease lapses under a live session when its heartbeats do not come through.
Expires(r) ==
  /\ LeaseExpires(r)
  /\ FaultUnless(session[writers[r].owner].pc = "closed")
  /\ UNCHANGED <<session, core, query>>

Deleted(t) ==
  /\ DeleteGeneration(t, generation[t])
  /\ UNCHANGED <<session, core, query, faults>>

-----------------------------------------------------------------------------
Init ==
  /\ LedgerInit
  /\ session = [s \in Tokens |-> Idle]
  /\ core = [s \in Tokens |-> NoCatchUp]
  /\ query = NoQuery
  /\ faults = 0

\* The calls that finish and close a session.
Finish(s) == FinishRaises(s) \/ MandatoryCommits(s) \/ MandatoryFails(s)
Close(s) == Released(s) \/ ReleaseFails(s)

Work(s) ==
  \/ Submitted(s) \/ NextBatch(s) \/ WorkerCommits(s) \/ WorkerFails(s)
  \/ CatchUpLoads(s) \/ CatchUpSaves(s)

\* Steps of calls under way, which the event loop runs once they are ready.
SessionStep(s) ==
  \/ Work(s)
  \/ At(s, "opening") /\ \E r \in Runs : Opened(s, r) \/ OpenFails(s, r)
  \/ At(s, "finishing") /\ Finish(s)
  \/ At(s, "closing") /\ Close(s)

QueryStep == QueryFlushed \/ QueryLoads \/ QuerySaves

Calls(s) ==
  \/ \E r \in Runs : Opened(s, r) \/ OpenFails(s, r)
  \/ \E n \in Submissions : Submit(s, n)
  \/ FinishWaits(s) \/ Finish(s) \/ CloseWaits(s) \/ Close(s) \/ QueryBegins(s)

Faulty(s) ==
  \/ \E r \in Runs : OpenInDoubt(s, r)
  \/ WorkerInDoubt(s) \/ MandatoryInDoubt(s) \/ ReleaseInDoubt(s)
  \/ HeartbeatRevives(s) \/ Crash(s)

Next ==
  \/ \E s \in Tokens : Calls(s) \/ Work(s) \/ Faulty(s)
  \/ QueryStep
  \/ \E r \in Runs : Expires(r)
  \/ \E t \in Threads : Deleted(t)

Progress == QueryStep \/ \E s \in Tokens : SessionStep(s)

Spec == Init /\ [][Next]_vars /\ WF_vars(Progress)

-----------------------------------------------------------------------------
\* A session's facts stand in the log once, in the order they were accepted and
\* without a gap, and all those a force may have returned for are there:
\* commits in doubt are repeated, leases are lost and revived, Runs are taken
\* over, and nothing is stored twice or acknowledged without being stored.
Stored(t, s, n, last) ==
  \E k \in 1..last : log[t][k].id = <<s, n>> /\ log[t][k].phase = "fact"

AcceptedOnceInOrder ==
  \A s \in Tokens :
    session[s].generation # 0 /\ Current(s) =>
      LET t == Thread(s)
          events == log[t]
      IN /\ \A k \in DOMAIN events :
              events[k].id[1] = s /\ events[k].phase = "fact" =>
                LET n == events[k].id[2] IN
                /\ n >= 1 /\ ~Stored(t, s, n, k - 1)
                /\ n > 1 => Stored(t, s, n - 1, k - 1)
         /\ \A n \in 1..session[s].settled : Stored(t, s, n, LastSeq(t))

\* A Run's part of the log is facts, at most one terminal and at most one closed
\* fact, in this order, and a session that was replaced adds nothing after its
\* successor: tokens, not fences alone, tell writers of a reopened Run apart.
RunEndsOnce ==
  \A r \in Runs :
    LET e == log[ThreadOf[r]] IN
    \A j, k \in DOMAIN e :
      j < k /\ e[j].run = r /\ e[k].run = r =>
        /\ e[j].phase # "closed"
        /\ e[j].phase = "terminal" => e[k].phase = "closed"
        /\ e[k].id[1] = e[j].id[1] =>
             \A i \in j..k : e[i].run = r => e[i].id[1] = e[j].id[1]

\* The log and every promised terminal fit the limits together.
WithinLimits ==
  /\ \A t \in Threads :
       /\ LastSeq(t) + ReservedEvents(t) <= MaxThreadEvents
       /\ ThreadBytes(t) + ReservedBytes(t) <= MaxThreadBytes
  /\ TracerBytes + TracerReserved <= MaxTracerBytes

\* What a writer has reserved is enough for the facts that its Run still owes:
\* the end of a Run that was admitted is never refused for want of room, however
\* often the Run changes hands before it.
EndsHaveRoom ==
  \A r \in Runs : writers[r].active /\ ~writers[r].closed_committed =>
    LET owed == IF writers[r].terminal_committed THEN 1 ELSE 2 IN
    /\ writers[r].event_reserve >= owed
    /\ writers[r].byte_reserve >= owed * MaxEventBytes

\* A stored checkpoint is the reduction of a prefix of the log that its thread
\* has now, and a query's snapshot holds every fact that was accepted before the
\* query ("read your writes"), although sessions, queries and deletions
\* interleave with the steps of both.
SnapshotsAreCurrent ==
  /\ \A t \in Threads : \A c \in checkpoints[t] :
       c.of = generation[t] /\ c.as_of \in 1..LastSeq(t)
  /\ query.pc \in {"load", "save"} /\ Current(query.session)
       /\ query.generation = generation[Thread(query.session)] =>
         \A n \in 1..query.target :
           \E k \in 1..query.as_of : log[Thread(query.session)][k].id = <<query.session, n>>

\* Every call of a session returns and every query is answered: a submission
\* that waits for room, a force, a terminal and a close are released by the
\* worker's commit or by its failure.
Quiet ==
  /\ \A s \in Tokens : session[s].pc \in {"idle", "open", "closed"}
  /\ query.pc \in {"idle", "done"}

CallsReturn == []<>Quiet

=============================================================================
