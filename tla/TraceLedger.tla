----------------------------- MODULE TraceLedger -----------------------------
(***************************************************************************)
(* The Trace Ledger of one namespace: the rules of                         *)
(* tinkerfin_tracing/_ledger.py, which every backend applies in one atomic *)
(* boundary (a SQL transaction under the namespace row's lock, the         *)
(* condition of the in-memory backend).  One action per change kind.       *)
(*                                                                         *)
(* A thread's generation holds an append-only log of the facts of its      *)
(* Runs.  One leased, fenced writer at a time appends a Run's facts; room  *)
(* for its last two, terminal and closed, is reserved when it is opened.   *)
(*                                                                         *)
(* Abstractions.  A generation id, a uuid in the code, is the number of    *)
(* generations created so far.  An owner token is fresh with every         *)
(* open_writer call: the session that made the call stands for it.  A      *)
(* fact is its id, phase and encoded size; payloads, digests and the       *)
(* derived Graph index are left out.  The storage clock is an event: a     *)
(* lease that can elapse does so at any moment.  A change that raises      *)
(* changes nothing.  Writer leases are enforced, as by every backend but   *)
(* the in-memory one.                                                      *)
(***************************************************************************)
EXTENDS Naturals, Sequences, FiniteSets, SequencesExt, FiniteSetsExt

CONSTANTS
  Threads, Runs, ThreadOf,  \* a Run identity names its thread
  Tokens,                   \* owner tokens
  SizeOf(_),                \* encoded bytes of the event with an id
  MaxTracerThreads, MaxTracerBytes, MaxThreadEvents, MaxThreadBytes,
  MaxEventBytes,
  TerminalReserveEvents, TerminalReserveBytes,
  MaxGeneration             \* bound: generations created

Nobody == "nobody"

\* TraceLimits, as its validator requires them.
ASSUME LimitsAssumption ==
  /\ Nobody \notin Tokens
  /\ ThreadOf \in [Runs -> Threads]
  /\ IsFiniteSet(Threads) /\ IsFiniteSet(Runs)
  /\ MaxThreadEvents \in Nat /\ MaxThreadBytes \in Nat /\ MaxTracerBytes \in Nat
  /\ MaxEventBytes \in Nat /\ TerminalReserveBytes \in Nat
  /\ TerminalReserveEvents \in Nat /\ TerminalReserveEvents >= 2
  /\ TerminalReserveBytes >= TerminalReserveEvents * MaxEventBytes
  /\ TerminalReserveBytes < MaxThreadBytes
  /\ TerminalReserveEvents < MaxThreadEvents

VARIABLES
  created,      \* generations created so far
  generation,   \* [Threads -> Nat], the current one; 0 is none
  log,          \* [Threads -> Seq(Event)]
  writers,      \* [Runs -> Writer]
  checkpoints   \* [Threads -> SUBSET Checkpoint], of the core projection

ledgerVars == <<created, generation, log, writers, checkpoints>>

Writer ==
  [owner: Tokens \cup {Nobody}, fence: Nat, leased: BOOLEAN, active: BOOLEAN,
   terminal_committed: BOOLEAN, closed_committed: BOOLEAN, committed_events: Nat,
   event_reserve: Nat, byte_reserve: Nat]

NoWriter ==
  [owner |-> Nobody, fence |-> 0, leased |-> FALSE, active |-> FALSE,
   terminal_committed |-> FALSE, closed_committed |-> FALSE, committed_events |-> 0,
   event_reserve |-> 0, byte_reserve |-> 0]

Exists(r) == writers[r].owner # Nobody

-----------------------------------------------------------------------------
\* Aggregates of the locked state.

RunsOf(t) == {r \in Runs : ThreadOf[r] = t}
LastSeq(t) == Len(log[t])
SizeOfAll(events) == SumFunction([k \in DOMAIN events |-> SizeOf(events[k].id)])
ThreadBytes(t) == SizeOfAll(log[t])
TracerBytes == SumFunction([t \in Threads |-> ThreadBytes(t)])

\* Only an active writer's reserve counts.
EventReserves == [r \in Runs |-> IF writers[r].active THEN writers[r].event_reserve ELSE 0]
ByteReserves == [r \in Runs |-> IF writers[r].active THEN writers[r].byte_reserve ELSE 0]
ReservedEvents(t) == SumFunctionOnSet(EventReserves, RunsOf(t))
ReservedBytes(t) == SumFunctionOnSet(ByteReserves, RunsOf(t))
TracerReserved == SumFunction([t \in Threads |-> ReservedBytes(t)])

-----------------------------------------------------------------------------
\* open_writer.

NewWriter(token) ==
  [owner |-> token, fence |-> 1, leased |-> TRUE, active |-> TRUE,
   terminal_committed |-> FALSE, closed_committed |-> FALSE, committed_events |-> 0,
   event_reserve |-> TerminalReserveEvents, byte_reserve |-> TerminalReserveBytes]

\* Fault: the terminal reserves of other Runs are not counted.
RoomForOneReserve(t) ==
  /\ LastSeq(t) + TerminalReserveEvents <= MaxThreadEvents
  /\ ThreadBytes(t) + TerminalReserveBytes <= MaxThreadBytes
  /\ TracerBytes + TerminalReserveBytes <= MaxTracerBytes

RoomForReserve(t) ==
  /\ LastSeq(t) + ReservedEvents(t) + TerminalReserveEvents <= MaxThreadEvents
  /\ ThreadBytes(t) + ReservedBytes(t) + TerminalReserveBytes <= MaxThreadBytes
  /\ TracerBytes + TracerReserved + TerminalReserveBytes <= MaxTracerBytes

MayOpenNew(r) ==
  LET t == ThreadOf[r] IN
  /\ ~Exists(r)
  /\ RoomForReserve(t)
  /\ generation[t] = 0 =>
       /\ Cardinality({u \in Threads : generation[u] # 0}) < MaxTracerThreads
       /\ created < MaxGeneration

OpenNew(r, token) ==
  LET t == ThreadOf[r] IN
  /\ MayOpenNew(r)
  /\ IF generation[t] # 0
       THEN UNCHANGED <<created, generation>>
       ELSE /\ created' = created + 1
            /\ generation' = [generation EXCEPT ![t] = created + 1]
  /\ writers' = [writers EXCEPT ![r] = NewWriter(token)]
  /\ UNCHANGED <<log, checkpoints>>

\* The same call again: its first attempt was committed.
Unfinished(r) == writers[r].active /\ ~writers[r].closed_committed

OpenAgain(r, token) ==
  /\ writers[r].owner = token
  /\ Unfinished(r)
  /\ writers' = [writers EXCEPT ![r].leased = TRUE]
  /\ UNCHANGED <<created, generation, log, checkpoints>>

\* A writer whose lease ran out is replaced; what it committed stays.
TakeOver(r, token) ==
  /\ Unfinished(r) /\ writers[r].owner # token
  /\ ~writers[r].leased
  /\ writers' = [writers EXCEPT ![r].owner = token, ![r].fence = @ + 1,
                                ![r].leased = TRUE]
  /\ UNCHANGED <<created, generation, log, checkpoints>>

OpenWriter(r, token) == OpenNew(r, token) \/ OpenAgain(r, token) \/ TakeOver(r, token)

OpenRefused(r, token) ==
  /\ ~MayOpenNew(r)
  /\ ~(Unfinished(r) /\ (writers[r].owner = token \/ ~writers[r].leased))

-----------------------------------------------------------------------------
\* append_events.

\* _owned_writer without and with the lease.
Holds(r, g, token, f) ==
  /\ generation[ThreadOf[r]] = g
  /\ writers[r].active /\ writers[r].owner = token /\ writers[r].fence = f

Owned(r, g, token, f) == Holds(r, g, token, f) /\ writers[r].leased

RoomForFacts(t, events) ==
  /\ LastSeq(t) + Len(events) + ReservedEvents(t) <= MaxThreadEvents
  /\ ThreadBytes(t) + SizeOfAll(events) + ReservedBytes(t) <= MaxThreadBytes
  /\ TracerBytes + SizeOfAll(events) + TracerReserved <= MaxTracerBytes

SizesAllowed(events) == \A k \in DOMAIN events : SizeOf(events[k].id) <= MaxEventBytes

MayAppendFacts(r, g, token, f, events) ==
  /\ Owned(r, g, token, f)
  /\ ~writers[r].terminal_committed /\ ~writers[r].closed_committed
  /\ SizesAllowed(events)
  /\ RoomForFacts(ThreadOf[r], events)

AppendFacts(r, g, token, f, events) ==
  /\ MayAppendFacts(r, g, token, f, events)
  /\ log' = [log EXCEPT ![ThreadOf[r]] = @ \o events]
  /\ writers' = [writers EXCEPT ![r].committed_events = @ + Len(events)]
  /\ UNCHANGED <<created, generation, checkpoints>>

\* Fault: the terminal fact returns the whole reserve.
ReturnsReserve(w, event) ==
  [w EXCEPT !.terminal_committed = TRUE, !.closed_committed = event.phase = "closed",
            !.committed_events = @ + 1, !.event_reserve = 0, !.byte_reserve = 0]

\* The writer after a mandatory fact; the closed fact returns what is left.
AfterMandatory(w, event) ==
  [w EXCEPT !.terminal_committed = TRUE, !.closed_committed = event.phase = "closed",
            !.committed_events = @ + 1,
            !.event_reserve = IF event.phase = "closed" THEN 0 ELSE @ - 1,
            !.byte_reserve = IF event.phase = "closed" THEN 0 ELSE @ - SizeOf(event.id)]

\* Fault: a terminal follows a terminal.
TerminalAgain(r, phase) == ~writers[r].closed_committed

MandatoryAllowed(r, phase) ==
  /\ ~writers[r].closed_committed
  /\ writers[r].terminal_committed <=> phase = "closed"

\* A mandatory batch is one fact: the tracer submits no other.
MayAppendMandatory(r, g, token, f, event) ==
  /\ Owned(r, g, token, f)
  /\ MandatoryAllowed(r, event.phase)
  /\ SizesAllowed(<<event>>)
  /\ writers[r].event_reserve >= 1
  /\ writers[r].byte_reserve >= SizeOf(event.id)

AppendMandatory(r, g, token, f, event) ==
  /\ MayAppendMandatory(r, g, token, f, event)
  /\ log' = [log EXCEPT ![ThreadOf[r]] = Append(@, event)]
  /\ writers' = [writers EXCEPT ![r] = AfterMandatory(@, event)]
  /\ UNCHANGED <<created, generation, checkpoints>>

\* A repeated append whose first attempt was committed: it renews a lease
\* that nobody took, and answers with the stored events.
ProvenAppend(r, g, token, f) ==
  /\ generation[ThreadOf[r]] = g
  /\ writers' = [writers EXCEPT ![r].leased = @ \/ Holds(r, g, token, f)]
  /\ UNCHANGED <<created, generation, log, checkpoints>>

-----------------------------------------------------------------------------
\* renew_writer, close_writer, delete_generation.

\* A renewal of a lease that is still there changes nothing here.  A repeated
\* one, whose first attempt was committed, renews a lease that lapsed since
\* and that nobody took.
ProvenRenewal(r, g, token, f) ==
  /\ Holds(r, g, token, f)
  /\ ~writers[r].leased
  /\ writers' = [writers EXCEPT ![r].leased = TRUE]
  /\ UNCHANGED <<created, generation, log, checkpoints>>

NothingClosed(r, g, token, f) == ~Holds(r, g, token, f) /\ UNCHANGED ledgerVars

Dropped(t) ==
  /\ generation' = [generation EXCEPT ![t] = 0]
  /\ log' = [log EXCEPT ![t] = <<>>]
  /\ checkpoints' = [checkpoints EXCEPT ![t] = {}]

CloseWriter(r, g, token, f) ==
  LET t == ThreadOf[r] IN
  /\ Holds(r, g, token, f)
  /\ IF writers[r].committed_events = 0
       THEN /\ writers' = [writers EXCEPT ![r] = NoWriter]
            /\ IF LastSeq(t) = 0 /\ Cardinality({s \in RunsOf(t) : Exists(s)}) = 1
                 THEN Dropped(t) /\ UNCHANGED created
                 ELSE UNCHANGED <<created, generation, log, checkpoints>>
       ELSE /\ writers' = [writers EXCEPT ![r].active = FALSE, ![r].event_reserve = 0,
                                          ![r].byte_reserve = 0]
            /\ UNCHANGED <<created, generation, log, checkpoints>>

\* A writer whose lease ran out does not keep its generation from deletion.
DeleteGeneration(t, g) ==
  /\ g # 0 /\ generation[t] = g
  /\ \A r \in RunsOf(t) : ~(writers[r].active /\ writers[r].leased)
  /\ writers' = [r \in Runs |-> IF r \in RunsOf(t) THEN NoWriter ELSE writers[r]]
  /\ Dropped(t)
  /\ UNCHANGED created

LeaseExpires(r) ==
  /\ writers[r].active /\ writers[r].leased
  /\ writers' = [writers EXCEPT ![r].leased = FALSE]
  /\ UNCHANGED <<created, generation, log, checkpoints>>

-----------------------------------------------------------------------------
\* save_projection_checkpoint.  A checkpoint is the prefix it was reduced from:
\* the generation whose events were read and how many.

Checkpoint == [of: Nat, as_of: Nat]

\* The newest checkpoint, and the newest one inside a prefix; 0 is none.
Newest(t) == Max({0} \cup {c.as_of : c \in checkpoints[t]})
NewestWithin(t, as_of) == Max({0} \cup {n \in 1..as_of : \E c \in checkpoints[t] : c.as_of = n})

\* Fault: a checkpoint is stored although its generation is gone.
SavesAnyGeneration(t, g, as_of) ==
  /\ generation[t] # 0
  /\ checkpoints' = [checkpoints EXCEPT ![t] = @ \cup {[of |-> g, as_of |-> as_of]}]
  /\ UNCHANGED <<created, generation, log, writers>>

SaveCheckpoint(t, g, as_of) ==
  /\ generation[t] = g
  /\ as_of <= LastSeq(t)
  /\ checkpoints' = [checkpoints EXCEPT ![t] = @ \cup {[of |-> g, as_of |-> as_of]}]
  /\ UNCHANGED <<created, generation, log, writers>>

-----------------------------------------------------------------------------
LedgerInit ==
  /\ created = 0
  /\ generation = [t \in Threads |-> 0]
  /\ log = [t \in Threads |-> <<>>]
  /\ writers = [r \in Runs |-> NoWriter]
  /\ checkpoints = [t \in Threads |-> {}]

=============================================================================
